------------------------ MODULE SaveStateFileProofs ------------------------
(***************************************************************************)
(* Proofs about SaveStateFile, for any number of titles, slots and pieces. *)
(* The inductive invariant adds to the checked ones what a save in         *)
(* progress knows: the path is one of the running title, the image is a    *)
(* whole file, and the scratch file is a beginning of it.                  *)
(***************************************************************************)
EXTENDS SaveStateFile, TLAPS

Progress ==
  /\ pc \in {"serialise", "open", "write", "rename", "load"} => path \in Paths /\ path[1] = title
  /\ pc \in {"open", "write", "rename"} =>
       /\ image \in Files /\ image.title = title
       /\ image.build = "this" /\ image.len = Size
  /\ pc \in {"write", "rename"} =>
       /\ part[path] \in Files
       /\ part[path].title = title /\ part[path].build = "this"
       /\ part[path].state = image.state /\ part[path].len <= written
  /\ pc = "rename" => written = Size
  /\ pc = "load" => image \in Files
  /\ pc # "off" => world \in States

Survives ==
  \A p \in Paths :
    kept[p] # None /\ p \notin torn =>
      /\ cst[p] \in Files /\ cst[p].title = p[1] /\ cst[p].build = "this"
      /\ cst[p].state = kept[p] /\ cst[p].len = Size

IInv == TypeOK /\ Progress /\ Survives /\ OnlyWholeFilesLoad /\ NoScratchLeft

-----------------------------------------------------------------------------
(* The invariant holds before the first boot. *)
LEMMA InitInv == Init => IInv
  BY FileAssumption DEF Init, IInv, TypeOK, Progress, Survives, OnlyWholeFilesLoad, NoScratchLeft

(* An exception of SaveState keeps the invariant. *)
LEMMA SaveThrowsInv ==
  ASSUME IInv, SaveThrows, pc \in {"serialise", "open", "write", "rename"}
  PROVE  IInv'
<1>1. path \in Paths
  BY DEF IInv, Progress
<1>2. TypeOK'
  BY <1>1, FileAssumption DEF IInv, TypeOK, SaveThrows, Finish, DeletePart
<1>3. Progress' /\ OnlyWholeFilesLoad'
  BY DEF IInv, SaveThrows, Finish, Progress, OnlyWholeFilesLoad
<1>4. Survives'
  BY DEF IInv, Survives, SaveThrows
<1>5. NoScratchLeft'
  BY <1>1 DEF IInv, TypeOK, NoScratchLeft, SaveThrows, Finish, DeletePart
<1> QED
  BY <1>2, <1>3, <1>4, <1>5 DEF IInv

(* So does every step of a save. *)
LEMMA SavingInv ==
  ASSUME IInv, Saving
  PROVE  IInv'
<1> USE FileAssumption
<1>1. CASE SaveThrows
  BY <1>1, SaveThrowsInv DEF Saving, Serialise, Open, WriteBytes, Close, Rename
<1>2. CASE Serialise /\ ~SaveThrows
  <2>1. /\ pc = "serialise" /\ pc' = "open"
        /\ image' = [title |-> title, build |-> "this", state |-> world, len |-> Size]
        /\ UNCHANGED <<title, path, world, written, cst, part, kept, torn, killed>>
    BY <1>2 DEF Serialise, files, ghosts, File
  <2>2. title \in Titles /\ world \in States
    BY <2>1 DEF IInv, TypeOK, Progress
  <2>3. image' \in Files
    BY <2>1, <2>2 DEF Files
  <2>4. TypeOK' /\ Survives' /\ OnlyWholeFilesLoad' /\ NoScratchLeft'
    BY <2>1, <2>3 DEF IInv, TypeOK, Survives, OnlyWholeFilesLoad, NoScratchLeft
  <2>5. Progress'
    BY <2>1, <2>2, <2>3 DEF IInv, Progress
  <2> QED
    BY <2>4, <2>5 DEF IInv
<1>3. CASE Open /\ ~SaveThrows
  <2>1. /\ pc = "open" /\ pc' = "write"
        /\ part' = [part EXCEPT ![path] = [image EXCEPT !.len = 0]]
        /\ UNCHANGED <<cst, title, path, world, image, written, kept, torn, killed>>
    BY <1>3 DEF Open, OpenPart, ghosts
  <2>2. path \in Paths /\ image \in Files /\ image.title = title /\ image.build = "this"
    BY <2>1 DEF IInv, Progress
  <2>3. [image EXCEPT !.len = 0] \in Files
    BY <2>2 DEF Files
  <2>4. part' \in [Paths -> Files \cup {None}] /\ part'[path] = [image EXCEPT !.len = 0]
    BY <2>1, <2>2, <2>3 DEF IInv, TypeOK
  <2>5. TypeOK' /\ Survives' /\ OnlyWholeFilesLoad'
    BY <2>1, <2>4 DEF IInv, TypeOK, Survives, OnlyWholeFilesLoad
  <2>6. NoScratchLeft'
    BY <2>1, <2>2 DEF IInv, TypeOK, NoScratchLeft
  <2>7. /\ part'[path].title = image.title /\ part'[path].build = image.build
        /\ part'[path].state = image.state /\ part'[path].len = 0
    BY <2>2, <2>4 DEF Files
  <2>8. Progress'
    BY <2>1, <2>2, <2>3, <2>4, <2>7 DEF IInv, TypeOK, Progress
  <2> QED
    BY <2>5, <2>6, <2>8 DEF IInv
<1>4. CASE WriteBytes /\ ~SaveThrows
  <2>1. PICK n \in part[path].len .. written' : part' = [part EXCEPT ![path].len = n]
    BY <1>4 DEF WriteBytes
  <2>2. /\ pc = "write" /\ pc' = "write" /\ written # Size /\ written' = written + 1
        /\ UNCHANGED <<cst, title, path, world, image, kept, torn, killed>>
    BY <1>4 DEF WriteBytes, Finished, ghosts
  <2>3. /\ path \in Paths /\ part[path] \in Files
        /\ part[path].title = title /\ part[path].build = "this"
        /\ part[path].state = image.state
    BY <2>2 DEF IInv, Progress
  <2>4. written' \in 0 .. Size
    BY <2>2 DEF IInv, TypeOK
  <2>5. n \in 0 .. Size /\ n <= written'
    BY <2>1, <2>3, <2>4 DEF Files
  <2>6. [part[path] EXCEPT !.len = n] \in Files
    BY <2>3, <2>5 DEF Files
  <2>7. /\ part' \in [Paths -> Files \cup {None}]
        /\ part'[path] = [part[path] EXCEPT !.len = n]
        /\ \A p \in Paths : p # path => part'[p] = part[p]
    BY <2>1, <2>3, <2>6 DEF IInv, TypeOK
  <2>8. TypeOK' /\ Survives' /\ OnlyWholeFilesLoad'
    BY <2>2, <2>4, <2>7 DEF IInv, TypeOK, Survives, OnlyWholeFilesLoad
  <2>9. NoScratchLeft'
    BY <2>2, <2>7 DEF IInv, NoScratchLeft
  <2>10. /\ part'[path].title = title /\ part'[path].build = "this"
         /\ part'[path].state = image.state /\ part'[path].len = n
    BY <2>3, <2>7 DEF Files
  <2>11. Progress'
    BY <2>2, <2>3, <2>5, <2>6, <2>7, <2>10 DEF IInv, Progress
  <2> QED
    BY <2>8, <2>9, <2>11 DEF IInv
<1>5. CASE Close
  <2>1. PICK flushed \in BOOLEAN :
          part' = [part EXCEPT ![path].len = IF flushed THEN written ELSE @]
    BY <1>5 DEF Close
  <2>2. /\ pc = "write" /\ pc' = "rename" /\ written = Size
        /\ UNCHANGED <<cst, title, path, world, image, written, kept, torn, killed>>
    BY <1>5 DEF Close, Finished, ghosts
  <2>3. /\ path \in Paths /\ part[path] \in Files
        /\ part[path].title = title /\ part[path].build = "this"
        /\ part[path].state = image.state /\ part[path].len <= written
    BY <2>2 DEF IInv, Progress
  <2> DEFINE n == IF flushed THEN written ELSE part[path].len
  <2>4. n \in 0 .. Size /\ n <= written
    BY <2>2, <2>3 DEF Files
  <2>5. part' = [part EXCEPT ![path] = [part[path] EXCEPT !.len = n]]
    BY <2>1
  <2> HIDE DEF n
  <2>6. [part[path] EXCEPT !.len = n] \in Files
    BY <2>3, <2>4 DEF Files
  <2>7. /\ part' \in [Paths -> Files \cup {None}]
        /\ part'[path] = [part[path] EXCEPT !.len = n]
        /\ \A p \in Paths : p # path => part'[p] = part[p]
    BY <2>5, <2>3, <2>6 DEF IInv, TypeOK
  <2>8. TypeOK' /\ Survives' /\ OnlyWholeFilesLoad'
    BY <2>2, <2>7 DEF IInv, TypeOK, Survives, OnlyWholeFilesLoad
  <2>9. NoScratchLeft'
    BY <2>2, <2>7 DEF IInv, NoScratchLeft
  <2>10. /\ part'[path].title = title /\ part'[path].build = "this"
         /\ part'[path].state = image.state /\ part'[path].len = n
    BY <2>3, <2>7 DEF Files
  <2>11. Progress'
    BY <2>2, <2>3, <2>4, <2>6, <2>7, <2>10 DEF IInv, Progress
  <2> QED
    BY <2>8, <2>9, <2>11 DEF IInv
<1>6. CASE Rename /\ ~SaveThrows
  <2>1. /\ pc = "rename" /\ Finish
        /\ cst' = [cst EXCEPT ![path] = part[path]]
        /\ part' = [part EXCEPT ![path] = None]
        /\ kept' = [kept EXCEPT ![path] = image.state]
        /\ torn' = IF part[path].len < written THEN torn \cup {path} ELSE torn \ {path}
        /\ killed' = killed \ {path}
        /\ UNCHANGED world
    BY <1>6 DEF Rename
  <2>2. /\ path \in Paths /\ path[1] = title /\ image \in Files
        /\ part[path] \in Files
        /\ part[path].title = title /\ part[path].build = "this"
        /\ part[path].state = image.state /\ part[path].len <= written
        /\ written = Size
    BY <2>1 DEF IInv, Progress
  <2>3. image.state \in States /\ part[path].len \in 0 .. Size
    BY <2>2 DEF Files
  <2>4. TypeOK'
    BY <2>1, <2>2, <2>3 DEF IInv, TypeOK, Finish
  <2>5. Progress' /\ OnlyWholeFilesLoad'
    BY <2>1 DEF IInv, Progress, OnlyWholeFilesLoad, Finish
  <2>6. NoScratchLeft'
    BY <2>1, <2>2 DEF IInv, TypeOK, NoScratchLeft, Finish
  <2>7. Survives'
    <3> SUFFICES ASSUME NEW p \in Paths, kept'[p] # None, p \notin torn'
                 PROVE  /\ cst'[p] \in Files /\ cst'[p].title = p[1] /\ cst'[p].build = "this"
                        /\ cst'[p].state = kept'[p] /\ cst'[p].len = Size
      BY DEF Survives
    <3>1. CASE p = path
      BY <2>1, <2>2, <2>3, <3>1 DEF IInv, TypeOK
    <3>2. CASE p # path
      BY <2>1, <2>2, <3>2 DEF IInv, TypeOK, Survives
    <3> QED
      BY <3>1, <3>2
  <2> QED
    BY <2>4, <2>5, <2>6, <2>7 DEF IInv
<1> QED
  BY <1>1, <1>2, <1>3, <1>4, <1>5, <1>6 DEF Saving

(* And every other step: boots, kills, loads and files from elsewhere. *)
LEMMA OtherInv ==
  ASSUME IInv, [Next]_vars, ~Saving
  PROVE  IInv'
<1> USE FileAssumption
<1>1. ASSUME NEW t \in Titles, BootTitle(t)
      PROVE  IInv'
  BY <1>1 DEF IInv, TypeOK, Progress, Survives, OnlyWholeFilesLoad, NoScratchLeft,
              BootTitle, files, ghosts
<1>2. ASSUME NEW x \in States, Play(x)
      PROVE  IInv'
  BY <1>2 DEF IInv, TypeOK, Progress, Survives, OnlyWholeFilesLoad, NoScratchLeft,
              Play, files, ghosts
<1>3. CASE Off
  <2>1. TypeOK'
    BY <1>3 DEF IInv, TypeOK, Progress, Off, files
  <2>2. Progress' /\ Survives' /\ OnlyWholeFilesLoad'
    BY <1>3 DEF IInv, Progress, Survives, OnlyWholeFilesLoad, Off, files
  <2>3. NoScratchLeft'
    BY <1>3 DEF IInv, NoScratchLeft, Off, files
  <2> QED
    BY <2>1, <2>2, <2>3 DEF IInv
<1>4. ASSUME NEW s \in Slots, SaveState(s)
      PROVE  IInv'
  <2>1. <<title, s>> \in Paths /\ <<title, s>>[1] = title
    BY DEF IInv, TypeOK, Paths
  <2> QED
    BY <1>4, <2>1 DEF IInv, TypeOK, Progress, Survives, OnlyWholeFilesLoad, NoScratchLeft,
                      SaveState, files, ghosts
<1>5. ASSUME NEW s \in Slots, LoadState(s)
      PROVE  IInv'
  <2>1. <<title, s>> \in Paths /\ <<title, s>>[1] = title
    BY DEF IInv, TypeOK, Paths
  <2>2. /\ cst[<<title, s>>] \in Files /\ cst[<<title, s>>].len = Size
        /\ cst[<<title, s>>].title = title /\ cst[<<title, s>>].build = "this"
    BY <1>5, <2>1 DEF LoadState, Accepts, ValidHeader, IInv, TypeOK
  <2> QED
    BY <1>5, <2>1, <2>2 DEF IInv, TypeOK, Progress, Survives, OnlyWholeFilesLoad, NoScratchLeft,
                            LoadState, files, ghosts
<1>6. CASE Deserialise
  <2>1. world' \in States
    <3>1. image.state \in States /\ world \in States
      BY <1>6 DEF IInv, Progress, Deserialise, Files
    <3> QED
      BY <1>6, <3>1 DEF Deserialise
  <2> QED
    BY <1>6, <2>1 DEF IInv, TypeOK, Progress, Survives, OnlyWholeFilesLoad, NoScratchLeft,
                      Deserialise, Finish, files, ghosts
<1>7. ASSUME NEW p \in Paths, NEW f \in Foreign, Import(p, f)
      PROVE  IInv'
  <2>1. f \in Files \cup {None}
    BY FileAssumption DEF Files
  <2>2. TypeOK'
    BY <1>7, <2>1 DEF IInv, TypeOK, Import
  <2>3. Progress' /\ OnlyWholeFilesLoad' /\ NoScratchLeft'
    BY <1>7 DEF IInv, Progress, OnlyWholeFilesLoad, NoScratchLeft, Import
  <2>4. Survives'
    BY <1>7 DEF IInv, TypeOK, Survives, Import
  <2> QED
    BY <2>2, <2>3, <2>4 DEF IInv
<1>8. CASE UNCHANGED vars
  BY <1>8 DEF IInv, TypeOK, Progress, Survives, OnlyWholeFilesLoad, NoScratchLeft, vars
<1> QED
  BY <1>1, <1>2, <1>3, <1>4, <1>5, <1>6, <1>7, <1>8 DEF Next, Save

-----------------------------------------------------------------------------
(* The inductive invariant of the save-state files. *)
THEOREM Inductive == Spec => []IInv
<1>1. IInv /\ [Next]_vars => IInv'
  BY SavingInv, OtherInv
<1> QED
  BY InitInv, <1>1, PTL DEF Spec

(* Types: no save writes more than the file it has in memory. *)
THEOREM TypeCorrect == Spec => []TypeOK
<1>1. IInv => TypeOK
  BY DEF IInv
<1> QED
  BY Inductive, <1>1, PTL

(* Whatever fails, and wherever the process is killed, the last completed  *)
(* save of every slot is still there, listed and loadable.                 *)
THEOREM SavesSurvive == Spec => []LastSaveSurvives
<1>1. IInv => LastSaveSurvives
  <2> SUFFICES ASSUME IInv, NEW t \in Titles, NEW s \in Slots,
                      kept[<<t, s>>] # None, <<t, s>> \notin torn
               PROVE  /\ cst[<<t, s>>] # None /\ cst[<<t, s>>].state = kept[<<t, s>>]
                      /\ cst[<<t, s>>].len = Size
                      /\ s \in ListSaveStates(t)
                      /\ title = t => Accepts(<<t, s>>)
    BY DEF LastSaveSurvives
  <2>1. <<t, s>> \in Paths /\ <<t, s>>[1] = t
    BY DEF Paths
  <2>2. /\ cst[<<t, s>>] \in Files /\ cst[<<t, s>>].title = t
        /\ cst[<<t, s>>].build = "this"
        /\ cst[<<t, s>>].state = kept[<<t, s>>] /\ cst[<<t, s>>].len = Size
    BY <2>1 DEF IInv, Survives
  <2> QED
    BY <2>2, FileAssumption DEF ListSaveStates, Accepts, ValidHeader
<1> QED
  BY Inductive, <1>1, PTL

(* A truncated or foreign file never reaches the deserialisation. *)
THEOREM WholeFilesOnly == Spec => []OnlyWholeFilesLoad
<1>1. IInv => OnlyWholeFilesLoad
  BY DEF IInv
<1> QED
  BY Inductive, <1>1, PTL

(* Every exit of SaveState but a kill removes its scratch file. *)
THEOREM ScratchRemoved == Spec => []NoScratchLeft
<1>1. IInv => NoScratchLeft
  BY DEF IInv
<1> QED
  BY Inductive, <1>1, PTL

-----------------------------------------------------------------------------
(* The refinement.  During a save the running system stays what it was when *)
(* it was serialised, and there is no system without a session.             *)
WorldHeld ==
  /\ pc = "off" => world = None
  /\ pc \in {"open", "write", "rename"} => image.state = world

LEMMA WorldStays ==
  ASSUME IInv, WorldHeld, [Next]_vars
  PROVE  WorldHeld'
<1>1. CASE SaveThrows
  BY <1>1 DEF WorldHeld, SaveThrows, Finish
<1>2. CASE Saving /\ ~SaveThrows
  <2>1. CASE Serialise
    BY <1>2, <2>1 DEF WorldHeld, Serialise, File, Files
  <2>2. CASE Open \/ WriteBytes \/ Close
    BY <1>2, <2>2 DEF WorldHeld, Open, WriteBytes, Close
  <2>3. CASE Rename
    BY <1>2, <2>3 DEF WorldHeld, Rename, Finish
  <2> QED
    BY <1>2, <2>1, <2>2, <2>3 DEF Saving
<1>3. CASE ~Saving
  <2>1. CASE Next
    BY <1>3, <2>1 DEF Next, Save, WorldHeld, BootTitle, Play, Off, SaveState, LoadState,
                      Deserialise, Finish, Import
  <2>2. CASE UNCHANGED vars
    BY <2>2 DEF WorldHeld, vars
  <2> QED
    BY <2>1, <2>2
<1> QED
  BY <1>1, <1>2, <1>3

(* What the store sees of the files, and how one file changes it. *)
StoredBar == [p \in Paths |-> Loadable(p)]
ReadingBar == IF pc = "load" THEN image.state ELSE None
StateOf(f, p) == IF f # None /\ ValidHeader(f, p[1]) /\ f.len = Size THEN f.state ELSE None

LEMMA BarSame ==
  ASSUME cst' = cst
  PROVE  StoredBar' = StoredBar
BY DEF StoredBar, Loadable

LEMMA BarUpdate ==
  ASSUME TypeOK, NEW p \in Paths, NEW f, cst' = [cst EXCEPT ![p] = f]
  PROVE  StoredBar' = [StoredBar EXCEPT ![p] = StateOf(f, p)]
<1>1. \A q \in Paths : cst'[q] = IF q = p THEN f ELSE cst[q]
  BY DEF TypeOK
<1>2. \A q \in Paths : Loadable(q)' = IF q = p THEN StateOf(f, p) ELSE Loadable(q)
  BY <1>1 DEF Loadable, StateOf
<1> QED
  BY <1>2 DEF StoredBar

LEMMA InitStore == Init => Store!Init
BY DEF Init, Store!Init, Store!Paths, Paths, Loadable

(* Nothing the store sees changes. *)
LEMMA StoreStutters ==
  ASSUME UNCHANGED <<cst, kept, torn, title, world>>, ReadingBar' = ReadingBar
  PROVE  UNCHANGED Store!storeVars
BY BarSame DEF Store!storeVars, StoredBar, ReadingBar

(* The steps of a save: nothing before the rename, everything with it. *)
LEMMA SavingStore ==
  ASSUME IInv, WorldHeld, Saving
  PROVE  [Store!Next]_(Store!storeVars)
<1> USE FileAssumption
<1>1. CASE SaveThrows
  <2>1. pc # "load" /\ pc' # "load" /\ UNCHANGED <<cst, kept, torn, title, world>>
    BY <1>1 DEF SaveThrows, Finish, Saving, Serialise, Open, WriteBytes, Close, Rename
  <2> QED
    BY <2>1, StoreStutters DEF ReadingBar
<1>2. CASE (Serialise \/ Open \/ WriteBytes \/ Close) /\ ~SaveThrows
  <2>1. pc # "load" /\ pc' # "load" /\ UNCHANGED <<cst, kept, torn, title, world>>
    BY <1>2 DEF Serialise, Open, OpenPart, WriteBytes, Close, files, ghosts
  <2> QED
    BY <2>1, StoreStutters DEF ReadingBar
<1>3. CASE Rename /\ ~SaveThrows
  <2>1. /\ pc = "rename" /\ pc' = "run"
        /\ cst' = [cst EXCEPT ![path] = part[path]]
        /\ kept' = [kept EXCEPT ![path] = image.state]
        /\ torn' = IF part[path].len < written THEN torn \cup {path} ELSE torn \ {path}
        /\ UNCHANGED <<title, world>>
    BY <1>3 DEF Rename, Finish
  <2>2. /\ path \in Paths /\ path[1] = title /\ image \in Files
        /\ part[path] \in Files
        /\ part[path].title = title /\ part[path].build = "this"
        /\ part[path].state = image.state /\ part[path].len <= written
        /\ written = Size /\ image.state = world /\ TypeOK
    BY <2>1 DEF IInv, Progress, WorldHeld
  <2>3. world \in States /\ part[path].len \in 0 .. Size
    BY <2>2 DEF Files
  <2>4. PICK s \in Slots : path = <<title, s>>
    BY <2>2 DEF Paths
  <2>5. StoredBar' = [StoredBar EXCEPT ![path] = StateOf(part[path], path)]
    BY <2>1, <2>2, BarUpdate
  <2>6. ReadingBar = None /\ ReadingBar' = None
    BY <2>1 DEF ReadingBar
  <2>7. CASE part[path].len = Size
    <3>1. StateOf(part[path], path) = world
      BY <2>2, <2>7 DEF StateOf, ValidHeader
    <3>2. kept' = [kept EXCEPT ![path] = world] /\ torn' = torn \ {path}
      BY <2>1, <2>2, <2>7
    <3>3. Store!Save(s)
      BY <2>1, <2>3, <2>4, <2>5, <2>6, <3>1, <3>2 DEF Store!Save, StoredBar, ReadingBar
    <3> QED
      BY <3>3 DEF Store!Next
  <2>8. CASE part[path].len # Size
    <3>1. StateOf(part[path], path) = None
      BY <2>8 DEF StateOf
    <3>2. kept' = [kept EXCEPT ![path] = world] /\ torn' = torn \cup {path}
      BY <2>1, <2>2, <2>3, <2>8
    <3>3. Store!Tear(s)
      BY <2>1, <2>3, <2>4, <2>5, <2>6, <3>1, <3>2 DEF Store!Tear, StoredBar, ReadingBar
    <3> QED
      BY <3>3 DEF Store!Next
  <2> QED
    BY <2>7, <2>8
<1> QED
  BY <1>1, <1>2, <1>3 DEF Saving

(* Every other step is one of the store's, or none. *)
LEMMA OtherStore ==
  ASSUME IInv, WorldHeld, [Next]_vars, ~Saving
  PROVE  [Store!Next]_(Store!storeVars)
<1> USE FileAssumption
<1>0. TypeOK
  BY DEF IInv
<1>1. ASSUME NEW t \in Titles, BootTitle(t)
      PROVE  [Store!Next]_(Store!storeVars)
  <2>1. /\ pc = "off" /\ pc' = "run" /\ title' = t /\ world' = Boot /\ world = None
        /\ UNCHANGED <<cst, kept, torn>>
    BY <1>1 DEF BootTitle, files, ghosts, WorldHeld
  <2>2. StoredBar' = StoredBar /\ ReadingBar = None /\ ReadingBar' = None
    BY <2>1, BarSame DEF ReadingBar
  <2>3. Store!Start(t)
    BY <2>1, <2>2 DEF Store!Start, Store!slots, StoredBar, ReadingBar
  <2> QED
    BY <2>3 DEF Store!Next
<1>2. ASSUME NEW x \in States, Play(x)
      PROVE  [Store!Next]_(Store!storeVars)
  <2>1. /\ pc = "run" /\ pc' = "run" /\ world' = x /\ world \in States \ {Broken}
        /\ UNCHANGED <<cst, kept, torn, title>>
    BY <1>2 DEF Play, files, ghosts, IInv, Progress
  <2>2. StoredBar' = StoredBar /\ ReadingBar = None /\ ReadingBar' = None
    BY <2>1, BarSame DEF ReadingBar
  <2>3. Store!Play(x)
    BY <2>1, <2>2 DEF Store!Play, Store!slots, StoredBar, ReadingBar
  <2> QED
    BY <2>3 DEF Store!Next
<1>3. CASE Off
  <2>1. pc' = "off" /\ world' = None /\ UNCHANGED <<cst, kept, torn, title>>
    BY <1>3 DEF Off, files
  <2>2. StoredBar' = StoredBar /\ ReadingBar' = None
    BY <2>1, BarSame DEF ReadingBar
  <2>3. Store!Stop
    BY <2>1, <2>2 DEF Store!Stop, Store!slots, StoredBar, ReadingBar
  <2> QED
    BY <2>3 DEF Store!Next
<1>4. ASSUME NEW s \in Slots, SaveState(s)
      PROVE  [Store!Next]_(Store!storeVars)
  <2>1. pc = "run" /\ pc' = "serialise" /\ UNCHANGED <<cst, kept, torn, title, world>>
    BY <1>4 DEF SaveState, files, ghosts
  <2> QED
    BY <2>1, StoreStutters DEF ReadingBar
<1>5. ASSUME NEW s \in Slots, LoadState(s)
      PROVE  [Store!Next]_(Store!storeVars)
  <2>1. /\ pc = "run" /\ pc' = "load" /\ Accepts(<<title, s>>) /\ image' = cst[<<title, s>>]
        /\ UNCHANGED <<cst, kept, torn, title, world>>
    BY <1>5 DEF LoadState, files, ghosts
  <2>2. <<title, s>> \in Paths /\ <<title, s>>[1] = title
    BY <1>0 DEF TypeOK, Paths
  <2>3. cst[<<title, s>>] \in Files
    BY <1>0, <2>1, <2>2 DEF Accepts, TypeOK
  <2>4. StoredBar[<<title, s>>] = cst[<<title, s>>].state
    BY <2>1, <2>2 DEF StoredBar, Loadable, Accepts
  <2>5. StoredBar[<<title, s>>] \in States
    BY <2>3, <2>4 DEF Files
  <2>6. /\ StoredBar' = StoredBar /\ ReadingBar = None
        /\ ReadingBar' = StoredBar[<<title, s>>]
    BY <2>1, <2>4, BarSame DEF ReadingBar
  <2>7. Store!Read(s)
    BY <2>1, <2>5, <2>6 DEF Store!Read, Store!slots, StoredBar, ReadingBar
  <2> QED
    BY <2>7 DEF Store!Next
<1>6. CASE Deserialise
  <2>1. /\ pc = "load" /\ pc' = "run" /\ world' \in {world, image.state, Broken}
        /\ UNCHANGED <<cst, kept, torn, title>>
    BY <1>6 DEF Deserialise, Finish, files, ghosts
  <2>2. image.state \in States
    BY <2>1 DEF IInv, Progress, Files
  <2>3. StoredBar' = StoredBar /\ ReadingBar = image.state /\ ReadingBar' = None
    BY <2>1, BarSame DEF ReadingBar
  <2>4. Store!Apply
    BY <2>1, <2>2, <2>3 DEF Store!Apply, Store!slots, StoredBar, ReadingBar
  <2> QED
    BY <2>4 DEF Store!Next
<1>7. ASSUME NEW p \in Paths, NEW f \in Foreign, Import(p, f)
      PROVE  [Store!Next]_(Store!storeVars)
  <2> DEFINE x == StateOf(f, p)
  <2>1. /\ cst' = [cst EXCEPT ![p] = f] /\ kept' = [kept EXCEPT ![p] = None]
        /\ torn' = torn \ {p} /\ UNCHANGED <<pc, title, world, image>>
    BY <1>7 DEF Import
  <2>2. f \in Files \cup {None}
    BY FileAssumption DEF Files
  <2>3. x \in States \cup {None}
    BY <2>2 DEF StateOf, Files
  <2>4. StoredBar' = [StoredBar EXCEPT ![p] = x] /\ ReadingBar' = ReadingBar
    BY <1>0, <2>1, BarUpdate DEF ReadingBar
  <2> HIDE DEF x
  <2>5. Store!Replace(p, x)
    BY <2>1, <2>4 DEF Store!Replace, StoredBar, ReadingBar
  <2>6. p \in Store!Paths
    BY DEF Store!Paths, Paths
  <2> QED
    BY <2>3, <2>5, <2>6 DEF Store!Next
<1>8. CASE UNCHANGED vars
  <2>1. UNCHANGED <<cst, kept, torn, title, world>> /\ ReadingBar' = ReadingBar
    BY <1>8 DEF vars, ReadingBar
  <2> QED
    BY <2>1, StoreStutters
<1> QED
  BY <1>1, <1>2, <1>3, <1>4, <1>5, <1>6, <1>7, <1>8 DEF Next, Save

(* Saves are atomic and durable: whatever fails and wherever the process is *)
(* killed, SaveState and LoadState implement slots that a save changes in   *)
(* one step, to the state the system was in when it was asked for, or not   *)
(* at all, and from which a load gives what the slot held.                  *)
THEOREM SavesAreAtomic == Spec => ImplementsStore
<1>1. Init => WorldHeld
  BY DEF Init, WorldHeld
<1>2. IInv /\ WorldHeld /\ [Next]_vars => WorldHeld'
  BY WorldStays
<1>3. IInv /\ WorldHeld /\ [Next]_vars => [Store!Next]_(Store!storeVars)
  BY SavingStore, OtherStore
<1> QED
  BY <1>1, <1>2, <1>3, InitStore, Inductive, PTL DEF Spec, ImplementsStore, Store!Spec
=============================================================================
