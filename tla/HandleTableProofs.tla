-------------------------- MODULE HandleTableProofs --------------------------
(***************************************************************************)
(* The handle tables keep their promises for every size of the table, of   *)
(* the generation counter and of the command buffers.                      *)
(***************************************************************************)
EXTENDS HandleTable, SequenceTheorems, TLAPS

(* The generation that was issued d creations ago, d at most a cycle. *)
Before(g, d) == IF g - d >= 1 THEN g - d ELSE g - d + (GenLimit - 1)

(* The generations of the last cycle are the counter, run backwards. *)
GenerationsOf(tb) ==
  /\ \A r \in tb.issued : r.at < tb.made
  /\ \A r \in tb.issued :
       tb.made - r.at < GenLimit => r.gen = Before(tb.next_generation, tb.made - r.at)
  /\ \A r, q \in tb.issued : r.at = q.at => r = q

(* An occupied slot belongs to the last handle that was issued for it. *)
LatestOf(tb) ==
  \A s \in Slots :
    tb.objects[s] # NoObj =>
      \E r \in tb.issued :
        /\ r.slot = s /\ r.gen = tb.generations[s] /\ r.obj = tb.objects[s]
        /\ \A q \in tb.issued : q.slot = s => q.at <= r.at

TableInv(tb) == FreeListOf(tb) /\ GenerationsOf(tb) /\ LatestOf(tb)

IInv == TypeOK /\ \A p \in Procs : TableInv(table[p])

-----------------------------------------------------------------------------
(* When the counter moves on, the generations of the past move with it. *)
LEMMA BeforeStep ==
  ASSUME NEW g \in Generations, NEW d \in Nat, d + 1 < GenLimit
  PROVE  Before(NextGeneration(g), d + 1) = Before(g, d)
<1> USE HandleAssumption
<1>1. g \in Nat /\ g >= 1 /\ g < GenLimit
  BY DEF Generations
<1>2. CASE g + 1 >= GenLimit
  BY <1>1, <1>2 DEF Before, NextGeneration
<1>3. CASE g + 1 < GenLimit
  BY <1>1, <1>3 DEF Before, NextGeneration
<1> QED BY <1>1, <1>2, <1>3

(* A new table: the free list is 0, 1, ... *)
LEMMA EmptyTableInv == EmptyTable \in Tables /\ TableInv(EmptyTable)
<1> USE HandleAssumption
<1>1. EmptyTable.free \in Seq(Slots) /\ Len(EmptyTable.free) = MaxCount
      /\ \A i \in 1 .. MaxCount : EmptyTable.free[i] = i - 1
  <2>1. [i \in 1 .. MaxCount |-> i - 1] \in [1 .. MaxCount -> Slots]
    BY DEF Slots
  <2> QED BY <2>1 DEF EmptyTable
<1>2. EmptyTable \in Tables
  BY <1>1 DEF EmptyTable, Tables, Slots, Generations, Issues
<1>3. FreeListOf(EmptyTable)
  <2>1. \A i \in 1 .. MaxCount : EmptyTable.free[i] \in Slots
                                 /\ EmptyTable.generations[EmptyTable.free[i]] = i
    BY <1>1 DEF EmptyTable, Slots
  <2>2. \A s \in Slots : EmptyTable.objects[s] = NoObj /\ s + 1 \in 1 .. MaxCount
                         /\ EmptyTable.free[s + 1] = s
    BY <1>1 DEF EmptyTable, Slots
  <2>3. EmptyTable.next_free_slot = 0
    BY DEF EmptyTable
  <2> DEFINE e == EmptyTable
  <2>4. e.next_free_slot = IF Len(e.free) = 0 THEN MaxCount ELSE e.free[1]
    <3>1. 1 \in 1 .. MaxCount /\ MaxCount # 0 OBVIOUS
    <3> QED BY <1>1, <2>3, <3>1
  <2>5. \A i \in 1 .. MaxCount : i # MaxCount => i + 1 \in 1 .. MaxCount
    OBVIOUS
  <2>6. \A i \in 1 .. MaxCount :
          e.generations[e.free[i]] = IF i = MaxCount THEN MaxCount ELSE e.free[i + 1]
    BY <1>1, <2>1, <2>5
  <2>7. \A i, j \in 1 .. MaxCount : e.free[i] = e.free[j] => i = j
    BY <1>1
  <2>8. \A s \in Slots : e.objects[s] = NoObj <=> \E i \in 1 .. MaxCount : e.free[i] = s
    BY <2>2
  <2> HIDE DEF e
  <2>9. Len(e.free) = MaxCount BY <1>1 DEF e
  <2>10. FreeListOf(e) BY <2>4, <2>6, <2>7, <2>8, <2>9 DEF FreeListOf
  <2> QED BY <2>10 DEF e
<1>4. GenerationsOf(EmptyTable) /\ LatestOf(EmptyTable)
  BY DEF EmptyTable, GenerationsOf, LatestOf
<1> QED BY <1>2, <1>3, <1>4 DEF TableInv

(* Create with a free slot: the head of the list is an empty slot, its     *)
(* successor the new head, and the new generation is not in use within the *)
(* last cycle.                                                             *)
LEMMA InsertInv ==
  ASSUME NEW tb \in Tables, TableInv(tb), ~IsFull(tb), NEW o \in Objects
  PROVE  /\ Insert(tb, o) \in Tables /\ TableInv(Insert(tb, o))
         /\ tb.next_free_slot \in Slots /\ tb.objects[tb.next_free_slot] = NoObj
<1> USE HandleAssumption
<1> DEFINE new == Insert(tb, o)
           slot == tb.next_free_slot
           rec == [slot |-> slot, gen |-> tb.next_generation, obj |-> o, at |-> tb.made]
<1>1. /\ tb.free \in Seq(Slots) /\ tb.next_free_slot \in Nat
      /\ tb.objects \in [Slots -> Objects \cup {NoObj}]
      /\ tb.generations \in [Slots -> Nat] /\ tb.made \in Nat
      /\ tb.next_generation \in Generations /\ tb.issued \subseteq Issues
  BY DEF Tables
<1>2. FreeListOf(tb) /\ GenerationsOf(tb) /\ LatestOf(tb)
  BY DEF TableInv
<1>3. Len(tb.free) \in Nat /\ Len(tb.free) > 0 /\ slot = tb.free[1] /\ slot \in Slots
  <2>1. Len(tb.free) # 0
    BY <1>2 DEF FreeListOf, IsFull
  <2> QED BY <1>1, <1>2, <2>1 DEF FreeListOf
<1>4. tb.objects[slot] = NoObj
  BY <1>2, <1>3 DEF FreeListOf
<1>5. /\ new.free = Tail(tb.free) /\ new.free \in Seq(Slots) /\ Len(new.free) = Len(tb.free) - 1
      /\ \A i \in 1 .. Len(new.free) : new.free[i] = tb.free[i + 1]
  BY <1>1, <1>3 DEF Insert
<1>5a. /\ Len(new.free) \in Nat /\ Len(tb.free) = Len(new.free) + 1
       /\ 1 \in 1 .. Len(tb.free)
       /\ Len(new.free) # 0 => 1 \in 1 .. Len(new.free)
  <2>1. \A m, n \in Nat : n > 0 /\ m = n - 1 => /\ n = m + 1 /\ 1 \in 1 .. n
                                                /\ m # 0 => 1 \in 1 .. m
    OBVIOUS
  <2>2. Len(new.free) \in Nat
    BY <1>5
  <2> QED BY <1>3, <1>5, <2>1, <2>2
<1>6. /\ new.objects = [tb.objects EXCEPT ![slot] = o]
      /\ new.generations = [tb.generations EXCEPT ![slot] = tb.next_generation]
      /\ new.next_generation = NextGeneration(tb.next_generation)
      /\ new.next_free_slot = tb.generations[slot]
      /\ new.made = tb.made + 1 /\ new.issued = tb.issued \cup {rec}
  BY DEF Insert
<1> HIDE DEF new
<1>7. NextGeneration(tb.next_generation) \in Generations
  BY <1>1 DEF NextGeneration, Generations
<1>8. new.next_free_slot = IF Len(new.free) = 0 THEN MaxCount ELSE new.free[1]
  <2>1. tb.generations[tb.free[1]] = IF 1 = Len(tb.free) THEN MaxCount ELSE tb.free[1 + 1]
    BY <1>2, <1>5a DEF FreeListOf
  <2>2. CASE Len(tb.free) = 1
    BY <1>3, <1>5, <1>6, <2>1, <2>2
  <2>3. CASE Len(tb.free) # 1
    <3>1. 1 \in 1 .. Len(new.free) /\ Len(new.free) # 0
      BY <1>5a, <2>3
    <3>2. new.free[1] = tb.free[1 + 1]
      BY <1>5, <3>1
    <3> QED BY <1>3, <1>6, <2>1, <2>3, <3>1, <3>2
  <2> QED BY <2>2, <2>3
<1>9. new.next_free_slot \in 0 .. MaxCount
  <2>1. CASE Len(new.free) = 0 BY <1>8, <2>1
  <2>2. CASE Len(new.free) # 0
    <3>1. 1 \in 1 .. Len(new.free) BY <1>5a, <2>2
    <3>2. new.free[1] \in Slots BY <1>5, <3>1
    <3> QED BY <1>8, <2>2, <3>2 DEF Slots
  <2> QED BY <2>1, <2>2
<1>10. rec \in Issues
  BY <1>1, <1>3 DEF Issues
<1>11. new \in Tables
  <2>1. /\ [tb.objects EXCEPT ![slot] = o] \in [Slots -> Objects \cup {NoObj}]
        /\ [tb.generations EXCEPT ![slot] = tb.next_generation] \in [Slots -> Nat]
    BY <1>1, <1>3 DEF Generations
  <2>2. tb.made + 1 \in Nat /\ tb.issued \cup {rec} \in SUBSET Issues
    BY <1>1, <1>10
  <2>3. Tail(tb.free) \in Seq(Slots) /\ tb.generations[slot] \in 0 .. MaxCount
    BY <1>5, <1>6, <1>9
  <2> QED BY <1>7, <2>1, <2>2, <2>3 DEF new, Insert, Tables
<1>12. FreeListOf(new)
  <2> DEFINE n == Len(new.free)
  <2>1. n \in Nat /\ Len(tb.free) = n + 1
    BY <1>3, <1>5
  <2>2. \A i \in 1 .. n : new.free[i] \in Slots /\ new.free[i] # slot
    <3> SUFFICES ASSUME NEW i \in 1 .. n PROVE new.free[i] \in Slots /\ new.free[i] # slot
      OBVIOUS
    <3>1. i + 1 \in 1 .. Len(tb.free) /\ 1 \in 1 .. Len(tb.free) /\ i + 1 # 1
      BY <2>1
    <3>2. new.free[i] = tb.free[i + 1] /\ tb.free[i + 1] \in Slots
      BY <1>1, <1>5, <3>1
    <3> QED BY <1>2, <1>3, <3>1, <3>2 DEF FreeListOf
  <2>3. \A i \in 1 .. n :
          new.generations[new.free[i]] = IF i = n THEN MaxCount ELSE new.free[i + 1]
    <3> SUFFICES ASSUME NEW i \in 1 .. n
                 PROVE  new.generations[new.free[i]] = IF i = n THEN MaxCount ELSE new.free[i + 1]
      OBVIOUS
    <3>1. new.generations[new.free[i]] = tb.generations[tb.free[i + 1]]
      BY <1>1, <1>5, <1>6, <2>2
    <3>2. i + 1 \in 1 .. Len(tb.free) BY <2>1
    <3>3. tb.generations[tb.free[i + 1]]
            = IF i + 1 = Len(tb.free) THEN MaxCount ELSE tb.free[(i + 1) + 1]
      BY <1>2, <3>2 DEF FreeListOf
    <3>4. i # n => new.free[i + 1] = tb.free[(i + 1) + 1]
      <4>1. SUFFICES ASSUME i # n PROVE new.free[i + 1] = tb.free[(i + 1) + 1]
        OBVIOUS
      <4>2. i + 1 \in 1 .. n BY <2>1, <4>1
      <4> QED BY <1>5, <4>2
    <3> QED BY <2>1, <3>1, <3>3, <3>4
  <2>4. \A i, j \in 1 .. n : new.free[i] = new.free[j] => i = j
    <3> SUFFICES ASSUME NEW i \in 1 .. n, NEW j \in 1 .. n, new.free[i] = new.free[j]
                 PROVE  i = j
      OBVIOUS
    <3>1. i + 1 \in 1 .. Len(tb.free) /\ j + 1 \in 1 .. Len(tb.free)
          /\ tb.free[i + 1] = tb.free[j + 1]
      BY <1>5, <2>1
    <3>2. i + 1 = j + 1 BY <1>2, <3>1 DEF FreeListOf
    <3> QED BY <3>2
  <2>5. \A s \in Slots : new.objects[s] = NoObj <=> \E i \in 1 .. n : new.free[i] = s
    <3> SUFFICES ASSUME NEW s \in Slots
                 PROVE  new.objects[s] = NoObj <=> \E i \in 1 .. n : new.free[i] = s
      OBVIOUS
    <3>1. CASE s = slot
      BY <1>1, <1>6, <2>2, <3>1
    <3>2. CASE s # slot
      <4>1. new.objects[s] = tb.objects[s] BY <1>1, <1>6, <3>2
      <4>2. tb.objects[s] = NoObj <=> \E i \in 1 .. Len(tb.free) : tb.free[i] = s
        BY <1>2 DEF FreeListOf
      <4>3. ASSUME NEW i \in 1 .. Len(tb.free), tb.free[i] = s
            PROVE  \E j \in 1 .. n : new.free[j] = s
        <5>1. i # 1 BY <1>3, <3>2, <4>3
        <5>2. i - 1 \in 1 .. n /\ (i - 1) + 1 = i BY <2>1, <5>1
        <5> QED BY <1>5, <4>3, <5>2
      <4>4. ASSUME NEW j \in 1 .. n, new.free[j] = s
            PROVE  \E i \in 1 .. Len(tb.free) : tb.free[i] = s
        <5>1. j + 1 \in 1 .. Len(tb.free) BY <2>1
        <5> QED BY <1>5, <4>4, <5>1
      <4> QED BY <4>1, <4>2, <4>3, <4>4
    <3> QED BY <3>1, <3>2
  <2> QED BY <1>8, <2>3, <2>4, <2>5 DEF FreeListOf
<1>13. GenerationsOf(new)
  <2>1. \A r \in new.issued : r.at < new.made
    BY <1>1, <1>2, <1>6 DEF GenerationsOf, Issues
  <2>2. ASSUME NEW r \in new.issued, new.made - r.at < GenLimit
        PROVE  r.gen = Before(new.next_generation, new.made - r.at)
    <3>1. CASE r = rec
      BY <1>1, <1>6, <3>1 DEF Before, NextGeneration, Generations
    <3>2. CASE r \in tb.issued
      <4>1. r.at \in Nat /\ r.at < tb.made BY <1>1, <1>2, <3>2 DEF GenerationsOf, Issues
      <4>2. tb.made - r.at < GenLimit /\ new.made - r.at = (tb.made - r.at) + 1
        BY <1>1, <1>6, <2>2, <4>1
      <4>3. r.gen = Before(tb.next_generation, tb.made - r.at)
        BY <1>2, <3>2, <4>2 DEF GenerationsOf
      <4>4. tb.made - r.at \in Nat /\ (tb.made - r.at) + 1 < GenLimit
        BY <1>1, <2>2, <4>1, <4>2
      <4> QED BY <1>1, <1>6, <4>2, <4>3, <4>4, BeforeStep
    <3> QED BY <1>6, <3>1, <3>2
  <2>3. \A r, q \in new.issued : r.at = q.at => r = q
    <3>1. \A r \in tb.issued : r.at \in Nat /\ r.at # tb.made
      BY <1>1, <1>2 DEF GenerationsOf, Issues
    <3>2. \A r, q \in tb.issued : r.at = q.at => r = q
      BY <1>2 DEF GenerationsOf
    <3> QED BY <1>6, <3>1, <3>2
  <2> QED BY <2>1, <2>2, <2>3 DEF GenerationsOf
<1>14. LatestOf(new)
  <2> SUFFICES ASSUME NEW s \in Slots, new.objects[s] # NoObj
               PROVE  \E r \in new.issued :
                        /\ r.slot = s /\ r.gen = new.generations[s] /\ r.obj = new.objects[s]
                        /\ \A q \in new.issued : q.slot = s => q.at <= r.at
    BY DEF LatestOf
  <2>1. CASE s = slot
    <3>1. rec \in new.issued /\ rec.slot = s /\ rec.gen = new.generations[s]
          /\ rec.obj = new.objects[s] /\ rec.at = tb.made
      BY <1>1, <1>6, <2>1
    <3>2. \A q \in new.issued : q.at <= tb.made
      BY <1>1, <1>2, <1>6 DEF GenerationsOf, Issues
    <3> QED BY <3>1, <3>2
  <2>2. CASE s # slot
    <3>1. new.objects[s] = tb.objects[s] /\ new.generations[s] = tb.generations[s]
      BY <1>1, <1>6, <2>2
    <3>2. PICK r \in tb.issued :
            /\ r.slot = s /\ r.gen = tb.generations[s] /\ r.obj = tb.objects[s]
            /\ \A q \in tb.issued : q.slot = s => q.at <= r.at
      BY <1>2, <3>1 DEF LatestOf
    <3>3. r \in new.issued /\ rec.slot # s
      BY <1>6, <2>2
    <3> QED BY <1>6, <3>1, <3>2, <3>3
  <2> QED BY <2>1, <2>2
<1> QED BY <1>3, <1>4, <1>11, <1>12, <1>13, <1>14 DEF TableInv, new

(* Close of a valid handle: its slot becomes the head of the list. *)
LEMMA RemoveInv ==
  ASSUME NEW tb \in Tables, TableInv(tb), NEW h \in Handles, IsValid(tb, h)
  PROVE  /\ Remove(tb, h) \in Tables /\ TableInv(Remove(tb, h))
         /\ GetSlot(h) \in Slots
         /\ Remove(tb, h).objects = [tb.objects EXCEPT ![GetSlot(h)] = NoObj]
<1> USE HandleAssumption
<1> DEFINE new == Remove(tb, h)
           slot == GetSlot(h)
<1>1. /\ tb.free \in Seq(Slots) /\ tb.next_free_slot \in 0 .. MaxCount
      /\ tb.objects \in [Slots -> Objects \cup {NoObj}]
      /\ tb.generations \in [Slots -> Nat] /\ tb.made \in Nat
      /\ tb.next_generation \in Generations /\ tb.issued \subseteq Issues
  BY DEF Tables
<1>2. FreeListOf(tb) /\ GenerationsOf(tb) /\ LatestOf(tb)
  BY DEF TableInv
<1>3. slot \in Slots /\ tb.objects[slot] # NoObj
  BY DEF IsValid, Handles, GetSlot, Slots
<1>4. /\ new.objects = [tb.objects EXCEPT ![slot] = NoObj]
      /\ new.generations = [tb.generations EXCEPT ![slot] = tb.next_free_slot]
      /\ new.next_generation = tb.next_generation /\ new.next_free_slot = slot
      /\ new.made = tb.made /\ new.issued = tb.issued
      /\ new.free = <<slot>> \o tb.free
  BY DEF Remove, Tables
<1>5. /\ new.free \in Seq(Slots) /\ Len(tb.free) \in Nat /\ Len(new.free) = Len(tb.free) + 1
      /\ new.free[1] = slot
      /\ \A i \in 1 .. Len(tb.free) : new.free[i + 1] = tb.free[i]
  <2>1. <<slot>> \in Seq(Slots) /\ Len(<<slot>>) = 1 /\ <<slot>>[1] = slot
    BY <1>3
  <2>2. <<slot>> \o tb.free \in Seq(Slots) /\ Len(<<slot>> \o tb.free) = 1 + Len(tb.free)
    BY <1>1, <2>1, ConcatProperties
  <2>3. \A i \in 1 .. Len(tb.free) + 1 :
          (<<slot>> \o tb.free)[i] = IF i <= 1 THEN <<slot>>[i] ELSE tb.free[i - 1]
    BY <1>1, <2>1, <2>2, ConcatProperties
  <2>4. Len(tb.free) \in Nat
    BY <1>1
  <2> QED BY <1>4, <2>1, <2>2, <2>3, <2>4
<1>6. new \in Tables
  <2>1. /\ [tb.objects EXCEPT ![slot] = NoObj] \in [Slots -> Objects \cup {NoObj}]
        /\ [tb.generations EXCEPT ![slot] = tb.next_free_slot] \in [Slots -> Nat]
    BY <1>1, <1>3
  <2>2. <<slot>> \o tb.free \in Seq(Slots) /\ slot \in 0 .. MaxCount
    BY <1>3, <1>4, <1>5 DEF Slots
  <2> QED BY <2>1, <2>2 DEF Remove, Tables
<1> HIDE DEF new
<1>7. FreeListOf(new)
  <2> DEFINE n == Len(new.free)
  <2>1. \A i \in 1 .. Len(tb.free) : tb.free[i] \in Slots /\ tb.free[i] # slot
    BY <1>1, <1>2, <1>3 DEF FreeListOf
  <2>2. \A i \in 1 .. n :
          new.generations[new.free[i]] = IF i = n THEN MaxCount ELSE new.free[i + 1]
    <3> SUFFICES ASSUME NEW i \in 1 .. n
                 PROVE  new.generations[new.free[i]] = IF i = n THEN MaxCount ELSE new.free[i + 1]
      OBVIOUS
    <3>1. CASE i = 1
      <4>1. new.generations[new.free[i]] = tb.next_free_slot
        BY <1>1, <1>3, <1>4, <1>5, <3>1
      <4>2. tb.next_free_slot = IF Len(tb.free) = 0 THEN MaxCount ELSE tb.free[1]
        BY <1>2 DEF FreeListOf
      <4>3. CASE Len(tb.free) = 0
        BY <1>5, <3>1, <4>1, <4>2, <4>3
      <4>4. CASE Len(tb.free) # 0
        <5>1. 1 \in 1 .. Len(tb.free) BY <1>5, <4>4
        <5>2. new.free[1 + 1] = tb.free[1] BY <1>5, <5>1
        <5> QED BY <1>5, <3>1, <4>1, <4>2, <4>4, <5>2
      <4> QED BY <4>3, <4>4
    <3>2. CASE i # 1
      <4>1. i - 1 \in 1 .. Len(tb.free) /\ (i - 1) + 1 = i
        BY <1>5, <3>2
      <4>2. new.free[i] = tb.free[i - 1]
        BY <1>5, <4>1
      <4>3. new.generations[new.free[i]] = tb.generations[tb.free[i - 1]]
        BY <1>1, <1>4, <2>1, <4>1, <4>2
      <4>4. tb.generations[tb.free[i - 1]]
              = IF i - 1 = Len(tb.free) THEN MaxCount ELSE tb.free[(i - 1) + 1]
        BY <1>2, <4>1 DEF FreeListOf
      <4>5. i # n => new.free[i + 1] = tb.free[i]
        <5>1. SUFFICES ASSUME i # n PROVE new.free[i + 1] = tb.free[i]
          OBVIOUS
        <5>2. i \in 1 .. Len(tb.free) BY <1>5, <5>1
        <5> QED BY <1>5, <5>2
      <4> QED BY <1>5, <4>1, <4>3, <4>4, <4>5
    <3> QED BY <3>1, <3>2
  <2>3. \A i, j \in 1 .. n : new.free[i] = new.free[j] => i = j
    <3>1. \A i \in 1 .. n : i # 1 => /\ i - 1 \in 1 .. Len(tb.free)
                                     /\ new.free[i] = tb.free[i - 1]
      <4> SUFFICES ASSUME NEW i \in 1 .. n, i # 1
                   PROVE  i - 1 \in 1 .. Len(tb.free) /\ new.free[i] = tb.free[i - 1]
        OBVIOUS
      <4>1. i - 1 \in 1 .. Len(tb.free) /\ (i - 1) + 1 = i BY <1>5
      <4> QED BY <1>5, <4>1
    <3> SUFFICES ASSUME NEW i \in 1 .. n, NEW j \in 1 .. n, new.free[i] = new.free[j]
                 PROVE  i = j
      OBVIOUS
    <3>2. CASE i = 1 \/ j = 1
      BY <1>5, <2>1, <3>1, <3>2
    <3>3. CASE i # 1 /\ j # 1
      <4>1. /\ i - 1 \in 1 .. Len(tb.free) /\ j - 1 \in 1 .. Len(tb.free)
            /\ tb.free[i - 1] = tb.free[j - 1]
        BY <3>1, <3>3
      <4>2. i - 1 = j - 1 BY <1>2, <4>1 DEF FreeListOf
      <4> QED BY <4>2
    <3> QED BY <3>2, <3>3
  <2>4. \A s \in Slots : new.objects[s] = NoObj <=> \E i \in 1 .. n : new.free[i] = s
    <3> SUFFICES ASSUME NEW s \in Slots
                 PROVE  new.objects[s] = NoObj <=> \E i \in 1 .. n : new.free[i] = s
      OBVIOUS
    <3>1. CASE s = slot
      <4>1. 1 \in 1 .. n BY <1>5
      <4> QED BY <1>1, <1>4, <1>5, <3>1, <4>1
    <3>2. CASE s # slot
      <4>1. new.objects[s] = tb.objects[s] BY <1>1, <1>4, <3>2
      <4>2. tb.objects[s] = NoObj <=> \E i \in 1 .. Len(tb.free) : tb.free[i] = s
        BY <1>2 DEF FreeListOf
      <4>3. ASSUME NEW i \in 1 .. Len(tb.free), tb.free[i] = s
            PROVE  \E j \in 1 .. n : new.free[j] = s
        <5>1. i + 1 \in 1 .. n BY <1>5
        <5> QED BY <1>5, <4>3, <5>1
      <4>4. ASSUME NEW j \in 1 .. n, new.free[j] = s
            PROVE  \E i \in 1 .. Len(tb.free) : tb.free[i] = s
        <5>1. j # 1 BY <1>5, <3>2, <4>4
        <5>2. j - 1 \in 1 .. Len(tb.free) /\ (j - 1) + 1 = j BY <1>5, <5>1
        <5> QED BY <1>5, <4>4, <5>2
      <4> QED BY <4>1, <4>2, <4>3, <4>4
    <3> QED BY <3>1, <3>2
  <2>5. n # 0 BY <1>5
  <2> QED BY <1>4, <1>5, <2>2, <2>3, <2>4, <2>5 DEF FreeListOf
<1>8. GenerationsOf(new)
  BY <1>2, <1>4 DEF GenerationsOf
<1>9. LatestOf(new)
  <2> SUFFICES ASSUME NEW s \in Slots, new.objects[s] # NoObj
               PROVE  \E r \in new.issued :
                        /\ r.slot = s /\ r.gen = new.generations[s] /\ r.obj = new.objects[s]
                        /\ \A q \in new.issued : q.slot = s => q.at <= r.at
    BY DEF LatestOf
  <2>1. s # slot BY <1>1, <1>4
  <2>2. new.objects[s] = tb.objects[s] /\ new.generations[s] = tb.generations[s]
    BY <1>1, <1>4, <2>1
  <2> QED BY <1>2, <1>4, <2>2 DEF LatestOf
<1> QED BY <1>3, <1>4, <1>6, <1>7, <1>8, <1>9 DEF TableInv, new

(* Clear: the history is kept, no slot is occupied. *)
LEMMA ClearInv ==
  ASSUME NEW tb \in Tables, TableInv(tb)
  PROVE  ClearTable(tb) \in Tables /\ TableInv(ClearTable(tb))
<1> DEFINE new == ClearTable(tb)
<1>1. EmptyTable \in Tables /\ FreeListOf(EmptyTable)
  BY EmptyTableInv DEF TableInv
<1>2. /\ new.free = EmptyTable.free /\ new.objects = EmptyTable.objects
      /\ new.generations = EmptyTable.generations
      /\ new.next_free_slot = EmptyTable.next_free_slot
      /\ new.next_generation = tb.next_generation
      /\ new.made = tb.made /\ new.issued = tb.issued
  BY DEF ClearTable, EmptyTable
<1>3. new \in Tables
  BY <1>1 DEF ClearTable, Tables
<1> HIDE DEF new
<1>4. FreeListOf(new)
  BY <1>1, <1>2 DEF FreeListOf
<1>5. GenerationsOf(new)
  BY <1>2 DEF GenerationsOf, TableInv
<1>6. LatestOf(new)
  <2>1. \A s \in Slots : new.objects[s] = NoObj
    BY <1>2 DEF EmptyTable
  <2> QED BY <2>1 DEF LatestOf
<1> QED BY <1>3, <1>4, <1>5, <1>6 DEF TableInv, new

(* Close, of a valid handle or not. *)
LEMMA CloseInv ==
  ASSUME NEW tb \in Tables, TableInv(tb), NEW h \in Handles
  PROVE  Close(tb, h) \in Tables /\ TableInv(Close(tb, h))
BY RemoveInv DEF Close

(* A lookup finds an object or nothing. *)
LEMMA GetGenericType ==
  ASSUME TypeOK, NEW p \in Procs, NEW h \in Handles
  PROVE  GetGeneric(p, h) \in Objects \cup {NoObj}
<1> USE HandleAssumption
<1>1. table[p].objects \in [Slots -> Objects \cup {NoObj}]
  BY DEF TypeOK, Tables
<1>2. IsValid(table[p], h) => GetSlot(h) \in Slots
  BY DEF IsValid, GetSlot, Handles, Slots
<1> QED BY <1>1, <1>2 DEF GetGeneric

(* A step that changes one table into another good one keeps them all. *)
LEMMA OneTable ==
  ASSUME IInv, NEW p \in Procs, NEW tb \in Tables, TableInv(tb),
         table' = [table EXCEPT ![p] = tb]
  PROVE  table' \in [Procs -> Tables] /\ \A q \in Procs : TableInv(table'[q])
BY DEF IInv, TypeOK

(* Closing the source of a move keeps the tables good. *)
LEMMA SourceInv ==
  ASSUME IInv, cmd \in Commands, NEW h \in Handles
  PROVE  /\ SourceClosed(h) \in [Procs -> Tables]
         /\ \A q \in Procs : TableInv(SourceClosed(h)[q])
<1>1. cmd.src \in Procs BY DEF Commands
<1>2. table[cmd.src] \in Tables /\ TableInv(table[cmd.src])
  BY <1>1 DEF IInv, TypeOK
<1>3. Close(table[cmd.src], h) \in Tables /\ TableInv(Close(table[cmd.src], h))
  BY <1>2, CloseInv
<1> QED BY <1>1, <1>3 DEF SourceClosed, IInv, TypeOK

(* Every system call keeps the invariant. *)
LEMMA SystemCallInv == IInv /\ SystemCall => IInv'
<1> USE HandleAssumption
<1> SUFFICES ASSUME IInv, SystemCall PROVE IInv'
  OBVIOUS
<1>1. PICK p \in Procs :
        \/ \E o \in Objects : Create(p, o)
        \/ \E o1, o2 \in Objects : CreatePair(p, o1, o2)
        \/ \E h \in Handles : DuplicateHandle(p, h) \/ CloseHandle(p, h)
        \/ DestroyProcess(p)
  BY DEF SystemCall
<1>2. table[p] \in Tables /\ TableInv(table[p])
  BY DEF IInv, TypeOK
<1> DEFINE Put(tb, o) == IF IsFull(tb) THEN tb ELSE Insert(tb, o)
<1>3. ASSUME NEW tb \in Tables, TableInv(tb), NEW o \in Objects
      PROVE  Put(tb, o) \in Tables /\ TableInv(Put(tb, o))
  BY <1>3, InsertInv
<1>4. (cmd' = cmd /\ ctx' = ctx /\ crashed' = crashed /\ alive' \subseteq Procs
       /\ \E tb \in Tables : TableInv(tb) /\ table' = [table EXCEPT ![p] = tb]) => IInv'
  <2> SUFFICES ASSUME cmd' = cmd, ctx' = ctx, crashed' = crashed, alive' \subseteq Procs,
                      NEW tb \in Tables, TableInv(tb), table' = [table EXCEPT ![p] = tb]
               PROVE  IInv'
    OBVIOUS
  <2>1. table' \in [Procs -> Tables] /\ \A q \in Procs : TableInv(table'[q])
    BY OneTable
  <2> QED BY <2>1 DEF IInv, TypeOK
<1>5. CASE \E o \in Objects : Create(p, o)
  <2>1. PICK o \in Objects : Create(p, o) BY <1>5
  <2>2. Put(table[p], o) \in Tables /\ TableInv(Put(table[p], o)) BY <1>2, <1>3
  <2>3. table' = [table EXCEPT ![p] = Put(table[p], o)] BY <2>1 DEF Create
  <2> QED BY <1>4, <2>1, <2>2, <2>3 DEF Create, IInv, TypeOK
<1>6. CASE \E o1, o2 \in Objects : CreatePair(p, o1, o2)
  <2>1. PICK o1, o2 \in Objects : CreatePair(p, o1, o2) BY <1>6
  <2> DEFINE one == Put(table[p], o1)
             both == Put(one, o2)
  <2>2. one \in Tables /\ TableInv(one) BY <1>2, <1>3
  <2>3. both \in Tables /\ TableInv(both)
    <3> HIDE DEF one
    <3> QED BY <2>2, <1>3
  <2>4. table' = [table EXCEPT ![p] = IF IsFull(table[p]) THEN table[p] ELSE both]
    BY <2>1 DEF CreatePair
  <2>5. alive' \subseteq Procs /\ cmd' = cmd /\ ctx' = ctx /\ crashed' = crashed
    BY <2>1 DEF CreatePair, IInv, TypeOK
  <2> HIDE DEF both
  <2> QED BY <1>2, <1>4, <2>3, <2>4, <2>5
<1>7. CASE \E h \in Handles : DuplicateHandle(p, h) \/ CloseHandle(p, h)
  <2>1. PICK h \in Handles : DuplicateHandle(p, h) \/ CloseHandle(p, h) BY <1>7
  <2>2. CASE DuplicateHandle(p, h)
    <3>1. GetGeneric(p, h) \in Objects
      BY <2>2, GetGenericType DEF DuplicateHandle, IInv
    <3> DEFINE tb == Put(table[p], GetGeneric(p, h))
    <3>2. tb \in Tables /\ TableInv(tb) BY <1>2, <1>3, <3>1
    <3>3. table' = [table EXCEPT ![p] = tb] BY <2>2 DEF DuplicateHandle
    <3> HIDE DEF tb
    <3> QED BY <1>4, <2>2, <3>2, <3>3 DEF DuplicateHandle, IInv, TypeOK
  <2>3. CASE CloseHandle(p, h)
    <3>1. Close(table[p], h) \in Tables /\ TableInv(Close(table[p], h))
      BY <1>2, CloseInv
    <3>2. table' = [table EXCEPT ![p] = Close(table[p], h)] BY <2>3 DEF CloseHandle
    <3> QED BY <1>4, <2>3, <3>1, <3>2 DEF CloseHandle, IInv, TypeOK
  <2> QED BY <2>1, <2>2, <2>3
<1>8. CASE DestroyProcess(p)
  <2>1. ClearTable(table[p]) \in Tables /\ TableInv(ClearTable(table[p]))
    BY <1>2, ClearInv
  <2>2. table' = [table EXCEPT ![p] = ClearTable(table[p])] BY <1>8 DEF DestroyProcess
  <2> QED BY <1>4, <1>8, <2>1, <2>2 DEF DestroyProcess, IInv, TypeOK
<1> QED BY <1>1, <1>5, <1>6, <1>7, <1>8

(* The step to the next handle of a descriptor. *)
LEMMA AdvanceType ==
  ASSUME cmd \in Commands, Advance PROVE cmd' = NoCmd \/ cmd' \in Commands
<1> USE HandleAssumption
<1>1. cmd.left \in 1 .. MaxHandles BY DEF Commands
<1>2. cmd.left # 1 => cmd.left - 1 \in 1 .. MaxHandles BY <1>1
<1> QED BY <1>2 DEF Advance, Commands

(* Every step of a translation keeps the invariant. *)
LEMMA TranslationInv == IInv /\ Translation => IInv'
<1> USE HandleAssumption
<1> SUFFICES ASSUME IInv, Translation PROVE IInv'
  OBVIOUS
<1>1. \A p \in Procs : table[p] \in Tables /\ TableInv(table[p])
  BY DEF IInv, TypeOK
<1>2. ASSUME table' = table, alive' = alive, crashed' = crashed,
             cmd' \in Commands, ctx' \in [client : SUBSET Procs, objs : SUBSET Objects]
      PROVE  IInv'
  BY <1>2 DEF IInv, TypeOK
<1>3. ASSUME NEW p \in Procs, NEW q \in Procs, NEW kind \in {"copy", "move"},
             NEW n \in 1 .. MaxHandles, TranslateCommandBuffer(p, q, kind, n)
      PROVE  IInv'
  <2>1. cmd' \in Commands BY <1>3 DEF TranslateCommandBuffer, Commands
  <2> QED BY <1>2, <1>3, <2>1 DEF TranslateCommandBuffer, IInv, TypeOK
<1>4. ASSUME NEW p \in Procs, NEW kind \in {"copy", "move"}, NEW n \in 1 .. MaxHandles,
             PopulateFromIncomingCommandBuffer(p, kind, n)
      PROVE  IInv'
  <2>1. cmd' \in Commands /\ ctx' \in [client : SUBSET Procs, objs : SUBSET Objects]
    BY <1>4 DEF PopulateFromIncomingCommandBuffer, Commands
  <2> QED BY <1>2, <1>4, <2>1 DEF PopulateFromIncomingCommandBuffer
<1>5. ASSUME NEW n \in 1 .. MaxHandles, WriteToOutgoingCommandBuffer(n)
      PROVE  IInv'
  <2>1. PICK p \in ctx.client : cmd' = [kind |-> "reply", n |-> n, left |-> n,
                                       src |-> p, dst |-> p, hle |-> TRUE]
    BY <1>5 DEF WriteToOutgoingCommandBuffer
  <2>2. p \in Procs BY DEF IInv, TypeOK
  <2>3. cmd' \in Commands BY <2>1, <2>2 DEF Commands
  <2> QED BY <1>2, <1>5, <2>3 DEF WriteToOutgoingCommandBuffer, IInv, TypeOK
<1>6. cmd # NoCmd => cmd \in Commands
  BY DEF IInv, TypeOK
<1>7. ASSUME NEW h \in Handles, TranslateHandle(h)
      PROVE  IInv'
  <2>1. cmd \in Commands /\ cmd.dst \in Procs /\ cmd.src \in Procs
    BY <1>6, <1>7 DEF TranslateHandle, Commands
  <2> DEFINE o == Sent(h)
             tb == SourceClosed(h)
  <2>2. o \in Objects \cup {NoObj}
    BY <2>1, GetGenericType DEF Sent, IInv
  <2>3. tb \in [Procs -> Tables] /\ \A q \in Procs : TableInv(tb[q])
    BY <2>1, SourceInv
  <2>4. /\ table' = IF o = NoObj \/ (o # NoObj /\ IsFull(tb[cmd.dst])) THEN tb
                    ELSE [tb EXCEPT ![cmd.dst] = Insert(tb[cmd.dst], o)]
        /\ crashed' \in BOOLEAN /\ alive' = alive /\ ctx' = ctx /\ Advance
    BY <1>7 DEF TranslateHandle
  <2>5. cmd' = NoCmd \/ cmd' \in Commands
    BY <2>1, <2>4, AdvanceType
  <2> HIDE DEF o, tb
  <2>6. table' \in [Procs -> Tables] /\ \A q \in Procs : TableInv(table'[q])
    <3>1. CASE o = NoObj \/ IsFull(tb[cmd.dst])
      BY <2>3, <2>4, <3>1
    <3>2. CASE o # NoObj /\ ~IsFull(tb[cmd.dst])
      <4>1. Insert(tb[cmd.dst], o) \in Tables /\ TableInv(Insert(tb[cmd.dst], o))
        BY <2>1, <2>2, <2>3, <3>2, InsertInv
      <4> QED BY <2>1, <2>3, <2>4, <3>2, <4>1
    <3> QED BY <3>1, <3>2
  <2> QED BY <2>4, <2>5, <2>6 DEF IInv, TypeOK
<1>8. ASSUME NEW h \in Handles, PopulateHandle(h)
      PROVE  IInv'
  <2>1. cmd \in Commands /\ cmd.src \in Procs
    BY <1>6, <1>8 DEF PopulateHandle, Commands
  <2>2. Sent(h) \in Objects \cup {NoObj}
    BY <2>1, GetGenericType DEF Sent, IInv
  <2>3. SourceClosed(h) \in [Procs -> Tables] /\ \A q \in Procs : TableInv(SourceClosed(h)[q])
    BY <2>1, SourceInv
  <2>4. /\ table' = table \/ table' = SourceClosed(h)
        /\ ctx' = ctx \/ ctx' = [ctx EXCEPT !.objs = ctx.objs \cup ({Sent(h)} \ {NoObj})]
        /\ crashed' \in BOOLEAN /\ alive' = alive /\ Advance
    BY <1>8 DEF PopulateHandle
  <2>5. cmd' = NoCmd \/ cmd' \in Commands
    BY <2>1, <2>4, AdvanceType
  <2>6. ctx' \in [client : SUBSET Procs, objs : SUBSET Objects]
    BY <2>2, <2>4 DEF IInv, TypeOK
  <2>7. table' \in [Procs -> Tables] /\ \A q \in Procs : TableInv(table'[q])
    BY <2>3, <2>4 DEF IInv, TypeOK
  <2> QED BY <2>4, <2>5, <2>6, <2>7 DEF IInv, TypeOK
<1>9. ASSUME NEW o \in Objects \cup {NoObj}, ReplyObject(o)
      PROVE  IInv'
  <2>1. cmd \in Commands /\ cmd.dst \in Procs
    BY <1>6, <1>9 DEF ReplyObject, Commands
  <2>2. /\ table' = IF o = NoObj \/ IsFull(table[cmd.dst]) THEN table
                    ELSE [table EXCEPT ![cmd.dst] = Insert(table[cmd.dst], o)]
        /\ ctx' = NoCtx \/ ctx' = ctx
        /\ crashed' \in BOOLEAN /\ alive' = alive /\ Advance
    BY <1>9 DEF ReplyObject
  <2>3. cmd' = NoCmd \/ cmd' \in Commands
    BY <2>1, <2>2, AdvanceType
  <2>4. table' \in [Procs -> Tables] /\ \A q \in Procs : TableInv(table'[q])
    <3>1. CASE o = NoObj \/ IsFull(table[cmd.dst])
      BY <2>2, <3>1 DEF IInv, TypeOK
    <3>2. CASE o # NoObj /\ ~IsFull(table[cmd.dst])
      <4>1. /\ Insert(table[cmd.dst], o) \in Tables
            /\ TableInv(Insert(table[cmd.dst], o))
        BY <1>1, <2>1, <3>2, InsertInv
      <4> QED BY <2>1, <2>2, <3>2, <4>1, OneTable
    <3> QED BY <3>1, <3>2
  <2>5. ctx' \in [client : SUBSET Procs, objs : SUBSET Objects]
    BY <2>2 DEF IInv, TypeOK, NoCtx
  <2> QED BY <2>2, <2>3, <2>4, <2>5 DEF IInv, TypeOK
<1> QED BY <1>3, <1>4, <1>5, <1>7, <1>8, <1>9 DEF Translation

(* The inductive invariant holds in every reachable state. *)
THEOREM Inductive == Spec => []IInv
<1>1. Init => IInv
  <2> SUFFICES ASSUME Init PROVE IInv
    OBVIOUS
  <2>1. \A p \in Procs : table[p] = EmptyTable
    BY DEF Init
  <2>2. table \in [Procs -> Tables] /\ \A p \in Procs : TableInv(table[p])
    BY <2>1, EmptyTableInv DEF Init
  <2>3. ctx \in [client : SUBSET Procs, objs : SUBSET Objects]
    BY DEF Init, NoCtx
  <2> QED BY <2>2, <2>3 DEF Init, IInv, TypeOK
<1>2. IInv /\ UNCHANGED vars => IInv'
  <2> SUFFICES ASSUME IInv, UNCHANGED vars PROVE IInv'
    OBVIOUS
  <2>1. table' = table /\ alive' = alive /\ cmd' = cmd /\ ctx' = ctx /\ crashed' = crashed
    BY DEF vars
  <2> QED BY <2>1 DEF IInv, TypeOK
<1>3. IInv /\ [Next]_vars => IInv'
  BY <1>2, SystemCallInv, TranslationInv DEF Next
<1> QED BY <1>1, <1>3, PTL DEF Spec

(* Type correctness: HandleTable never leaves its arrays or the 15 bits of *)
(* the generation, whatever the guest does.                                *)
THEOREM TypeCorrect == Spec => []TypeOK
<1>1. IInv => TypeOK BY DEF IInv
<1> QED BY <1>1, Inductive, PTL

(* The free list threaded through the generations of the empty slots is    *)
(* exact after any sequence of Create, Close and Clear.                    *)
THEOREM FreeListCorrect == Spec => []FreeListExact
<1>1. IInv => FreeListExact BY DEF IInv, TableInv, FreeListExact
<1> QED BY <1>1, Inductive, PTL

(* An occupied slot always has a handle that names it. *)
THEOREM OpenHandlesAreNamed == Spec => []OpenHandlesNamed
<1>1. IInv => OpenHandlesNamed
  BY DEF IInv, TableInv, LatestOf, OpenHandlesNamed, OpenNamed
<1> QED BY <1>1, Inductive, PTL

(* A handle younger than a cycle of the generation counter resolves to its *)
(* own object or to nothing: two handles of a cycle with one slot and one  *)
(* generation are the same handle, and an occupied slot belongs to the     *)
(* last handle issued for it.                                              *)
THEOREM StaleHandlesAreSafe == Spec => []StaleHandleSafe
<1> USE HandleAssumption
<1>1. IInv => StaleHandleSafe
  <2> SUFFICES ASSUME IInv, NEW p \in Procs, NEW r \in table[p].issued,
                      IsValid(table[p], [hi |-> 0, slot |-> r.slot, gen |-> r.gen]),
                      table[p].made - r.at < GenLimit
               PROVE  table[p].objects[r.slot] = r.obj
    BY DEF StaleHandleSafe, StaleHandle
  <2> DEFINE tb == table[p]
  <2>1. tb \in Tables /\ GenerationsOf(tb) /\ LatestOf(tb)
    BY DEF IInv, TypeOK, TableInv
  <2>2. /\ tb.issued \subseteq Issues /\ tb.made \in Nat
        /\ tb.next_generation \in Generations
    BY <2>1 DEF Tables
  <2>3. r.slot \in Slots /\ tb.objects[r.slot] # NoObj /\ tb.generations[r.slot] = r.gen
    <3>1. r.slot \in Slots BY <2>2 DEF Issues
    <3> QED BY <3>1 DEF IsValid, GetSlot, GetGeneration
  <2> HIDE DEF tb
  <2>4. PICK q \in tb.issued : /\ q.slot = r.slot /\ q.gen = tb.generations[r.slot]
                               /\ q.obj = tb.objects[r.slot]
                               /\ \A x \in tb.issued : x.slot = r.slot => x.at <= q.at
    BY <2>1, <2>3 DEF LatestOf
  <2>5. r \in tb.issued /\ tb.made - r.at < GenLimit
    BY DEF tb
  <2>6. r.at \in Nat /\ q.at \in Nat /\ r.at <= q.at /\ q.at < tb.made /\ r.at < tb.made
    BY <2>1, <2>2, <2>4, <2>5 DEF GenerationsOf, Issues
  <2>7. tb.made - q.at < GenLimit
    BY <2>2, <2>5, <2>6
  <2>8. Before(tb.next_generation, tb.made - r.at) = Before(tb.next_generation, tb.made - q.at)
    BY <2>1, <2>3, <2>4, <2>5, <2>7 DEF GenerationsOf
  <2>9. ASSUME NEW g \in Generations, NEW d \in Nat, NEW e \in Nat, d > 0, e > 0,
               d < GenLimit, e < GenLimit, Before(g, d) = Before(g, e)
        PROVE  d = e
    BY <2>9 DEF Before, Generations
  <2>10. tb.made - r.at \in Nat /\ tb.made - q.at \in Nat
         /\ tb.made - r.at > 0 /\ tb.made - q.at > 0
    BY <2>2, <2>6
  <2>11. tb.made - r.at = tb.made - q.at
    BY <2>2, <2>5, <2>7, <2>8, <2>9, <2>10
  <2>12. r.at = q.at BY <2>2, <2>6, <2>11
  <2>13. r = q BY <2>1, <2>4, <2>5, <2>12 DEF GenerationsOf
  <2> QED BY <2>4, <2>13 DEF tb
<1> QED BY <1>1, Inductive, PTL

(* Handles resolve to the objects they were made for, and to no other. *)
THEOREM HandlesAreSound == Spec => []HandlesResolve
<1>1. StaleHandleSafe /\ OpenHandlesNamed => HandlesResolve BY DEF HandlesResolve
<1> QED BY <1>1, StaleHandlesAreSafe, OpenHandlesAreNamed, PTL

(* Closing the source takes away at most the object that is being sent. *)
LEMMA SourceKeeps ==
  ASSUME IInv, cmd \in Commands, NEW h \in Handles, NEW p \in Procs, NEW s \in Slots,
         NEW o \in Objects, table[p].objects[s] = o, Sent(h) # o
  PROVE  SourceClosed(h)[p].objects[s] = o
<1> USE HandleAssumption
<1>1. cmd.src \in Procs BY DEF Commands
<1>2. table[cmd.src] \in Tables /\ TableInv(table[cmd.src])
  BY <1>1 DEF IInv, TypeOK
<1>3. CASE /\ ClosesSource(cmd) /\ h # NullHandle
           /\ IsValid(table[cmd.src], h) /\ p = cmd.src
  <2>1. /\ GetSlot(h) \in Slots
        /\ Remove(table[cmd.src], h).objects
             = [table[cmd.src].objects EXCEPT ![GetSlot(h)] = NoObj]
    BY <1>2, <1>3, RemoveInv
  <2>2. h # CurrentThread /\ h # CurrentProcess
    BY <1>3 DEF IsValid, GetSlot, CurrentThread, CurrentProcess
  <2>3. Sent(h) = table[cmd.src].objects[GetSlot(h)]
    BY <1>3, <2>2 DEF Sent, GetGeneric
  <2>4. s # GetSlot(h)
    BY <1>3, <2>3
  <2>5. SourceClosed(h)[p] = Remove(table[cmd.src], h)
    BY <1>1, <1>3 DEF SourceClosed, Close, IInv, TypeOK
  <2> QED BY <1>2, <1>3, <2>1, <2>4, <2>5 DEF Tables
<1>4. CASE ~ (/\ ClosesSource(cmd) /\ h # NullHandle
              /\ IsValid(table[cmd.src], h) /\ p = cmd.src)
  <2>1. SourceClosed(h)[p] = table[p]
    BY <1>1, <1>4 DEF SourceClosed, Close, IInv, TypeOK
  <2> QED BY <2>1
<1> QED BY <1>3, <1>4

(* Filling a free slot overwrites nothing. *)
LEMMA InsertKeeps ==
  ASSUME NEW tb \in Tables, TableInv(tb), ~IsFull(tb), NEW o \in Objects
  PROVE  /\ \A s \in Slots : tb.objects[s] # NoObj => Insert(tb, o).objects[s] = tb.objects[s]
         /\ \E s \in Slots : Insert(tb, o).objects[s] = o
<1>1. tb.next_free_slot \in Slots /\ tb.objects[tb.next_free_slot] = NoObj
  BY InsertInv
<1>2. Insert(tb, o).objects = [tb.objects EXCEPT ![tb.next_free_slot] = o]
  BY DEF Insert
<1>3. tb.objects \in [Slots -> Objects \cup {NoObj}]
  BY DEF Tables
<1> QED BY <1>1, <1>2, <1>3

(* The translation of a command buffer, by the kernel or for an HLE        *)
(* service, never drops the last reference to an object.                   *)
THEOREM TransitKeepsObjects == Spec => NothingLostInTransit
<1> USE HandleAssumption
<1> DEFINE Keeps == (cmd # NoCmd /\ cmd.kind # "reply" /\ ~crashed') => Held \subseteq Held'
<1>1. IInv /\ [Next]_vars => [Keeps]_vars
  <2> SUFFICES ASSUME IInv, Next, cmd # NoCmd, cmd.kind # "reply", ~crashed',
                      NEW o \in Objects, o \in Held
               PROVE  o \in Held'
    BY DEF Held
  <2>1. cmd \in Commands /\ cmd.src \in Procs /\ cmd.dst \in Procs
    BY DEF IInv, TypeOK, Commands
  <2>2. o \in ctx.objs \/ \E p \in Procs, s \in Slots : table[p].objects[s] = o
    BY DEF Held
  <2>3. (o \in ctx'.objs \/ \E p \in Procs, s \in Slots : table'[p].objects[s] = o)
        => o \in Held'
    BY DEF Held
  <2>4. PICK h \in Handles : TranslateHandle(h) \/ PopulateHandle(h)
    BY DEF Next, SystemCall, Translation, Create, CreatePair, DuplicateHandle, CloseHandle,
           DestroyProcess, Calls, TranslateCommandBuffer, PopulateFromIncomingCommandBuffer,
           WriteToOutgoingCommandBuffer, ReplyObject
  <2> DEFINE sent == Sent(h)
             tb == SourceClosed(h)
  <2>5. sent \in Objects \cup {NoObj}
    BY <2>1, GetGenericType DEF Sent, IInv
  <2>6. tb \in [Procs -> Tables] /\ \A q \in Procs : TableInv(tb[q])
    BY <2>1, SourceInv
  <2>7. \A p \in Procs, s \in Slots :
          (table[p].objects[s] = o /\ sent # o) => tb[p].objects[s] = o
    BY <2>1, SourceKeeps
  <2>8. CASE TranslateHandle(h)
    <3>1. /\ ctx' = ctx
          /\ sent # NoObj => ~IsFull(tb[cmd.dst])
          /\ table' = IF sent = NoObj THEN tb
                      ELSE [tb EXCEPT ![cmd.dst] = Insert(tb[cmd.dst], sent)]
      BY <2>8 DEF TranslateHandle
    <3> HIDE DEF sent, tb
    <3>2. CASE o \in ctx.objs
      BY <2>3, <3>1, <3>2
    <3>3. CASE sent = o
      <4>1. \E s \in Slots : Insert(tb[cmd.dst], sent).objects[s] = o
        BY <2>1, <2>6, <3>1, <3>3, InsertKeeps
      <4>2. table'[cmd.dst] = Insert(tb[cmd.dst], sent)
        BY <2>1, <2>6, <3>1, <3>3
      <4> QED BY <2>1, <2>3, <4>1, <4>2
    <3>4. CASE sent # o /\ \E p \in Procs, s \in Slots : table[p].objects[s] = o
      <4>1. PICK p \in Procs, s \in Slots : table[p].objects[s] = o
        BY <3>4
      <4>2. tb[p].objects[s] = o BY <2>7, <3>4, <4>1
      <4>3. CASE sent = NoObj \/ p # cmd.dst
        <5>1. table'[p] = tb[p] BY <2>1, <2>6, <3>1, <4>3
        <5> QED BY <2>3, <4>2, <5>1
      <4>4. CASE sent # NoObj /\ p = cmd.dst
        <5>1. Insert(tb[p], sent).objects[s] = o
          BY <2>5, <2>6, <3>1, <4>2, <4>4, InsertKeeps
        <5>2. table'[p] = Insert(tb[p], sent) BY <2>1, <2>6, <3>1, <4>4
        <5> QED BY <2>3, <5>1, <5>2
      <4> QED BY <4>3, <4>4
    <3> QED BY <2>2, <3>2, <3>3, <3>4
  <2>9. CASE PopulateHandle(h)
    <3>1. table' = tb /\ ctx'.objs = ctx.objs \cup ({sent} \ {NoObj})
      BY <2>9 DEF PopulateHandle, IInv, TypeOK
    <3> HIDE DEF sent, tb
    <3> QED BY <2>2, <2>3, <2>7, <3>1
  <2> QED BY <2>4, <2>8, <2>9
<1> QED BY <1>1, Inductive, PTL DEF Spec, NothingLostInTransit
=============================================================================
