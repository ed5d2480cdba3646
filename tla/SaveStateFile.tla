--------------------------- MODULE SaveStateFile ---------------------------
(***************************************************************************)
(* The files of System::SaveState and System::LoadState (savestate.cpp).   *)
(* A state is serialised into memory, compressed into a scratch file next  *)
(* to the state file, and renamed into its place.  Writes go through a     *)
(* stdio buffer; any of them, the flush at the close and the rename may    *)
(* fail, the process may be killed between any two steps, and files of     *)
(* other builds, other titles or cut short may appear at the same path.    *)
(***************************************************************************)
EXTENDS Integers, FiniteSets

CONSTANTS
  Titles,       \* title ids
  Slots,        \* slots of a title
  States,       \* states of the emulated system
  Boot,         \* the one after a boot
  Broken,       \* all that follow a load that threw half way
  Size,         \* pieces of a complete file, the header first
  Foreign,      \* what others put at a path: files, or None for no file
  None          \* no file, no state

Paths == Titles \X Slots

(* Files: the title and the build in the header, the state, the length. *)
Files == [title : Titles, build : {"this", "other"}, state : States, len : 0 .. Size]

ASSUME FileAssumption ==
  /\ Foreign \subseteq Files \cup {None}
  /\ Size \in Nat /\ Size > 1
  /\ Boot \in States /\ Broken \in States
  /\ None \notin States /\ None \notin Paths /\ None \notin Files

VARIABLES
  cst,        \* the state files, by title and slot
  part,       \* the scratch files
  pc,         \* where the emulation thread is
  title,      \* title_id
  path,       \* the path of the current operation
  world,      \* the emulated system
  image,      \* what is in memory: the state to save, or the file that was read
  written,    \* pieces given to the stdio buffer
  kept,       \* the state that the last completed save left at a path
  torn,       \* paths whose file lost its end because a flush failed
  killed      \* the process was killed during a save of this path

files == <<cst, part>>
ghosts == <<kept, torn, killed>>
vars == <<cst, part, pc, title, path, world, image, written, kept, torn, killed>>

File(t, b, x, n) == [title |-> t, build |-> b, state |-> x, len |-> n]

-----------------------------------------------------------------------------
Init ==
  /\ cst = [p \in Paths |-> None] /\ part = [p \in Paths |-> None]
  /\ pc = "off"
  /\ title \in Titles
  /\ path = None /\ image = None /\ written = 0
  /\ world = None
  /\ kept = [p \in Paths |-> None] /\ torn = {} /\ killed = {}

(* A title is booted; GetSaveStatePath puts its id into the paths. *)
BootTitle(t) ==
  /\ pc = "off"
  /\ title' = t /\ world' = Boot /\ pc' = "run"
  /\ UNCHANGED <<path, image, written>> /\ UNCHANGED files /\ UNCHANGED ghosts

(* The emulation goes on.  A system that a load left half rebuilt goes on   *)
(* too, and stays what it is.                                              *)
Play(x) ==
  /\ pc = "run" /\ world # Broken /\ x # Broken /\ world # x
  /\ world' = x
  /\ UNCHANGED <<pc, title, path, image, written>> /\ UNCHANGED files /\ UNCHANGED ghosts

(* The end of a session, or the process is killed: what was in memory is   *)
(* lost, the scratch file stays as far as it was flushed.                  *)
Off ==
  /\ pc # "off"
  /\ pc' = "off" /\ world' = None /\ path' = None /\ image' = None /\ written' = 0
  /\ killed' = IF pc \in {"write", "rename"} THEN killed \cup {path} ELSE killed
  /\ UNCHANGED <<title, kept, torn>> /\ UNCHANGED files

-----------------------------------------------------------------------------
Finish ==
  /\ pc' = "run" /\ path' = None /\ image' = None /\ written' = 0
  /\ UNCHANGED <<title>>

(* Mutant: the scratch file stays. *)
KeepPart == part

(* ~TmpFileGuard. *)
DeletePart == [part EXCEPT ![path] = None]

(* An exception of SaveState: the outcome is a failure, the guard deletes  *)
(* the scratch file.                                                       *)
SaveThrows ==
  /\ Finish
  /\ part' = DeletePart
  /\ killed' = killed \ {path}
  /\ UNCHANGED <<cst, world, kept, torn>>

(* SaveState up to the guard; the errors of it throw before anything is    *)
(* touched and leave all as it is.  A half rebuilt system can be saved as  *)
(* well: the poisoned states of the comment at the re-arm.                 *)
SaveState(s) ==
  /\ pc = "run"
  /\ path' = <<title, s>> /\ pc' = "serialise"
  /\ UNCHANGED <<title, world, image, written>> /\ UNCHANGED files /\ UNCHANGED ghosts

(* 1. and 2.: the system into memory, and the header. *)
Serialise ==
  /\ pc = "serialise"
  /\ \/ SaveThrows
     \/ /\ image' = File(title, "this", world, Size)
        /\ pc' = "open"
        /\ UNCHANGED <<title, path, world, written>> /\ UNCHANGED files /\ UNCHANGED ghosts

(* Mutant: the compressed state goes straight to its place. *)
OpenInPlace ==
  /\ cst' = [cst EXCEPT ![path] = [image EXCEPT !.len = 0]]
  /\ part' = [part EXCEPT ![path] = [image EXCEPT !.len = 0]]

(* "wb" cuts what an earlier, killed save may have left. *)
OpenPart ==
  /\ part' = [part EXCEPT ![path] = [image EXCEPT !.len = 0]]
  /\ UNCHANGED cst

Open ==
  /\ pc = "open"
  /\ \/ SaveThrows
     \/ /\ OpenPart
        /\ pc' = "write"
        /\ UNCHANGED <<title, path, world, image, written>> /\ UNCHANGED ghosts

(* The loop ends when ZSTD_compressStream2 has flushed the frame. *)
Finished == written = Size

(* 3.: WriteBytes of the header, then of the output of the compressor.     *)
(* The buffer may be flushed at any time; a short write throws.            *)
WriteBytes ==
  /\ pc = "write" /\ ~Finished
  /\ \/ SaveThrows
     \/ /\ written' = written + 1
        /\ \E n \in part[path].len .. written' : part' = [part EXCEPT ![path].len = n]
        /\ UNCHANGED <<cst, pc, title, path, world, image>> /\ UNCHANGED ghosts

(* The IOFile is destroyed at the end of its scope.  Close sets m_good     *)
(* when the flush fails, which nobody reads.                               *)
Close ==
  /\ pc = "write" /\ Finished
  /\ \E flushed \in BOOLEAN :
       part' = [part EXCEPT ![path].len = IF flushed THEN written ELSE @]
  /\ pc' = "rename"
  /\ UNCHANGED <<cst, title, path, world, image, written>> /\ UNCHANGED ghosts

(* 4.: publish. *)
Rename ==
  /\ pc = "rename"
  /\ \/ SaveThrows
     \/ /\ Finish
        /\ cst' = [cst EXCEPT ![path] = part[path]]
        /\ part' = [part EXCEPT ![path] = None]
        /\ kept' = [kept EXCEPT ![path] = image.state]
        /\ torn' = IF part[path].len < written THEN torn \cup {path} ELSE torn \ {path}
        /\ killed' = killed \ {path}
        /\ UNCHANGED world

-----------------------------------------------------------------------------
(* ValidateSaveState. *)
ValidHeader(f, t) == f.title = t /\ f.build = "this"

(* Mutant: the end of the frame is not asked for. *)
AcceptHeader(p) ==
  /\ cst[p] # None /\ cst[p].len > 1
  /\ ValidHeader(cst[p], title)

(* LoadState up to the deserialisation: the file is longer than a header,  *)
(* its header is valid and its frame ends.                                 *)
Accepts(p) ==
  /\ cst[p] # None /\ cst[p].len > 1
  /\ ValidHeader(cst[p], title)
  /\ cst[p].len = Size

LoadState(s) ==
  /\ pc = "run" /\ Accepts(<<title, s>>)
  /\ path' = <<title, s>>
  /\ image' = cst[<<title, s>>]
  /\ pc' = "load"
  /\ UNCHANGED <<title, world, written>> /\ UNCHANGED files /\ UNCHANGED ghosts

(* System::serialize: an exception before Shutdown and Init leaves the     *)
(* system as it is, one after them leaves a rebuilt system.                *)
Deserialise ==
  /\ pc = "load"
  /\ world' \in {world, image.state, Broken}
  /\ Finish
  /\ UNCHANGED files /\ UNCHANGED ghosts

(* ListSaveStates, on the thread of the frontend: the slots it shows as    *)
(* loadable.                                                               *)
ListSaveStates(t) ==
  {s \in Slots : LET f == cst[<<t, s>>] IN f # None /\ f.len > 0 /\ ValidHeader(f, t)}

(* External: the frontend or the user puts a file of another build or      *)
(* title, or a piece of one, at a path, or removes the file there.         *)
Import(p, f) ==
  /\ cst' = [cst EXCEPT ![p] = f]
  /\ kept' = [kept EXCEPT ![p] = None]
  /\ torn' = torn \ {p}
  /\ UNCHANGED <<part, pc, title, path, world, image, written, killed>>

-----------------------------------------------------------------------------
Save == \E s \in Slots : SaveState(s)
Saving == Serialise \/ Open \/ WriteBytes \/ Close \/ Rename

Next ==
  \/ \E t \in Titles : BootTitle(t)
  \/ \E x \in States : Play(x)
  \/ Off
  \/ Save \/ Saving
  \/ \E s \in Slots : LoadState(s)
  \/ Deserialise
  \/ \E p \in Paths, f \in Foreign : Import(p, f)

Spec == Init /\ [][Next]_vars

-----------------------------------------------------------------------------
(* Types; the writer stops at the end of the frame. *)
TypeOK ==
  /\ cst \in [Paths -> Files \cup {None}] /\ part \in [Paths -> Files \cup {None}]
  /\ pc \in {"off", "run", "serialise", "open", "write", "rename", "load"}
  /\ title \in Titles /\ path \in Paths \cup {None}
  /\ world \in States \cup {None} /\ image \in Files \cup {None}
  /\ written \in 0 .. Size
  /\ kept \in [Paths -> States \cup {None}] /\ torn \subseteq Paths /\ killed \subseteq Paths

(* A completed save stays: until the next save of the slot is complete, a  *)
(* save that fails or is killed at any point leaves the file as it was,    *)
(* listed and loadable.  The exception is a flush that fails at the close. *)
LastSaveSurvives ==
  \A t \in Titles, s \in Slots :
    LET p == <<t, s>>
    IN  kept[p] # None /\ p \notin torn =>
          /\ cst[p] # None /\ cst[p].state = kept[p] /\ cst[p].len = Size
          /\ s \in ListSaveStates(t)
          /\ title = t => Accepts(p)

(* What the comment in SaveState says of the rename: "the `.cst` NEVER      *)
(* exists on disk in a partial state".  The stream is closed by a          *)
(* destructor, and nobody asks whether its last flush went through.        *)
NeverPartial ==
  \A p \in Paths : kept[p] # None => cst[p].len = Size

(* Only a whole file of this title and build is deserialised: a truncated  *)
(* or foreign one is refused before the running system is shut down.       *)
OnlyWholeFilesLoad ==
  pc = "load" => image.len = Size /\ image.title = title /\ image.build = "this"

(* The state that a load of this path gives, if any. *)
Loadable(p) ==
  IF cst[p] # None /\ ValidHeader(cst[p], p[1]) /\ cst[p].len = Size THEN cst[p].state ELSE None

(* Saves are atomic: the steps of a save, any of which may fail and         *)
(* between any two of which the process may be killed, amount to one change *)
(* of the slot to the state that the system had when it was asked to save,  *)
(* or to nothing; and a load gives what the slot held.                      *)
Store == INSTANCE SlotStore WITH
  stored  <- [p \in Paths |-> Loadable(p)],
  saved   <- kept,
  lost    <- torn,
  reading <- IF pc = "load" THEN image.state ELSE None

ImplementsStore == Store!Spec

(* No scratch file is left but by a process that was killed. *)
NoScratchLeft ==
  \A p \in Paths : part[p] # None => p \in killed \/ (p = path /\ pc \in {"write", "rename"})
=============================================================================
