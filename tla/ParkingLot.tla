----------------------------- MODULE ParkingLot -----------------------------
(***************************************************************************)
(* What an address arbiter promises, with no list to keep: a thread is     *)
(* parked on an address or it is not.  It leaves because the address was   *)
(* signalled (best priority first), because the timeout it asked for       *)
(* expired, or because it was stopped.  Nothing else ends its wait.        *)
(***************************************************************************)
EXTENDS Naturals, FiniteSets

CONSTANTS Threads, Addrs, NoAddr, Prios

VARIABLES
  parked,   \* the address a thread is parked on, or NoAddr
  timed,    \* the thread is parked with a timeout still to come
  level,    \* the priority of the thread
  gone      \* the threads that were stopped

lotVars == <<parked, timed, level, gone>>

At(a) == {t \in Threads : parked[t] = a}

Init ==
  /\ parked = [t \in Threads |-> NoAddr]
  /\ timed = [t \in Threads |-> FALSE]
  /\ level \in [Threads -> Prios]
  /\ gone = {}

Release(S) ==
  /\ parked' = [t \in Threads |-> IF t \in S THEN NoAddr ELSE parked[t]]
  /\ timed' = [t \in Threads |-> IF t \in S THEN FALSE ELSE timed[t]]
  /\ UNCHANGED level

(* A thread that is neither parked nor stopped parks. *)
Park(t, a, withTimeout) ==
  /\ parked[t] = NoAddr
  /\ t \notin gone
  /\ parked' = [parked EXCEPT ![t] = a]
  /\ timed' = [timed EXCEPT ![t] = withTimeout]
  /\ UNCHANGED <<level, gone>>

(* Any number of threads parked on a leave; no thread is passed    *)
(* over in favour of one with a worse priority.                            *)
Signal(a) ==
  \E S \in SUBSET At(a) :
    /\ \A t \in S, u \in At(a) \ S : level[t] <= level[u]
    /\ Release(S)
    /\ UNCHANGED gone

(* Only a thread with a timeout leaves on its own. *)
Expire(t) ==
  /\ timed[t]
  /\ Release({t})
  /\ UNCHANGED gone

Kill(S) ==
  /\ Release(S)
  /\ gone' = gone \cup S

SetPriority(t, p) ==
  /\ level' = [level EXCEPT ![t] = p]
  /\ UNCHANGED <<parked, timed, gone>>

Next ==
  \/ \E t \in Threads, a \in Addrs, w \in BOOLEAN : Park(t, a, w)
  \/ \E a \in Addrs : Signal(a)
  \/ \E t \in Threads : Expire(t)
  \/ \E S \in SUBSET Threads : Kill(S)
  \/ \E t \in Threads, p \in Prios : SetPriority(t, p)

Spec == Init /\ [][Next]_lotVars

=============================================================================
