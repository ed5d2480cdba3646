----------------------------- MODULE SlotStore -----------------------------
(***************************************************************************)
(* What the save states of a title promise, with no files: a slot holds a  *)
(* state or nothing.  A save puts the state of the running system into its *)
(* slot in one step, or does not happen; a load gives back what the slot   *)
(* held when it was asked for.  A restart loses the system and no slot.    *)
(* Two things the store has to admit: a save may turn out unreadable when  *)
(* its last write is lost (Tear), and slots are changed from elsewhere     *)
(* (Replace).                                                              *)
(***************************************************************************)
CONSTANTS Titles, Slots, States, Boot, Broken, None

VARIABLES
  stored,    \* the state a load of a slot would give, or None
  saved,     \* the state of the last save of a slot, unless it was replaced
  lost,      \* the slots whose last save turned out unreadable
  title,     \* the title that runs, or ran last
  world,     \* the state of the running system, or None
  reading    \* the state that is being loaded, or None

storeVars == <<stored, saved, lost, title, world, reading>>
slots == <<stored, saved, lost>>

Paths == Titles \X Slots

Init ==
  /\ stored = [p \in Paths |-> None] /\ saved = [p \in Paths |-> None] /\ lost = {}
  /\ title \in Titles /\ world = None /\ reading = None

Start(t) ==
  /\ world = None /\ reading = None
  /\ title' = t /\ world' = Boot
  /\ UNCHANGED slots /\ UNCHANGED reading

Play(x) ==
  /\ world \in States \ {Broken} /\ reading = None
  /\ world' = x
  /\ UNCHANGED slots /\ UNCHANGED <<title, reading>>

(* The end of a session, or of the process, at any moment. *)
Stop ==
  /\ world' = None /\ reading' = None
  /\ UNCHANGED slots /\ UNCHANGED title

Save(s) ==
  /\ world \in States /\ reading = None
  /\ stored' = [stored EXCEPT ![<<title, s>>] = world]
  /\ saved' = [saved EXCEPT ![<<title, s>>] = world]
  /\ lost' = lost \ {<<title, s>>}
  /\ UNCHANGED <<title, world, reading>>

Tear(s) ==
  /\ world \in States /\ reading = None
  /\ stored' = [stored EXCEPT ![<<title, s>>] = None]
  /\ saved' = [saved EXCEPT ![<<title, s>>] = world]
  /\ lost' = lost \cup {<<title, s>>}
  /\ UNCHANGED <<title, world, reading>>

Replace(p, x) ==
  /\ stored' = [stored EXCEPT ![p] = x]
  /\ saved' = [saved EXCEPT ![p] = None]
  /\ lost' = lost \ {p}
  /\ UNCHANGED <<title, world, reading>>

(* A load of a slot that holds nothing is refused and changes nothing. *)
Read(s) ==
  /\ reading = None
  /\ stored[<<title, s>>] \in States
  /\ reading' = stored[<<title, s>>]
  /\ UNCHANGED slots /\ UNCHANGED <<title, world>>

(* The load succeeds, is given up before the system is touched, or fails   *)
(* half way.                                                               *)
Apply ==
  /\ reading \in States
  /\ world' \in {reading, world, Broken}
  /\ reading' = None
  /\ UNCHANGED slots /\ UNCHANGED title

Next ==
  \/ \E t \in Titles : Start(t)
  \/ \E x \in States : Play(x)
  \/ Stop
  \/ \E s \in Slots : Save(s) \/ Tear(s) \/ Read(s)
  \/ \E p \in Paths, x \in States \cup {None} : Replace(p, x)
  \/ Apply

Spec == Init /\ [][Next]_storeVars

=============================================================================
