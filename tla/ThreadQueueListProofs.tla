------------------------ MODULE ThreadQueueListProofs ------------------------
(***************************************************************************)
(* The chain of a ready queue stays in order, for any number of levels.    *)
(***************************************************************************)
EXTENDS ThreadQueueList, WellFoundedInduction, TLAPS

(* Bounded sets of natural numbers have a greatest member: the least of     *)
(* the distances to the bound belongs to it.                                *)
LEMMA MaxOfBounded ==
  ASSUME NEW S \in SUBSET Nat, S # {}, NEW n \in Nat, \A x \in S : x < n
  PROVE  Max(S) \in S /\ \A y \in S : y <= Max(S)
<1> DEFINE D == {n - x : x \in S}
<1>1. D \in SUBSET Nat /\ D # {}
  <2>1. \A x \in S : n - x \in Nat
    OBVIOUS
  <2> QED BY <2>1, Zenon
<1>2. PICK d \in D : \A e \in D : ~(e < d)
  <2>1. \E d \in D : \A e \in D : <<e, d>> \notin OpToRel(<, Nat)
    <3> HIDE DEF D
    <3> QED BY <1>1, NatLessThanWellFounded, WFMin, Zenon
  <2> QED BY <2>1, <1>1 DEF OpToRel
<1>3. PICK x \in S : d = n - x
  BY <1>2
<1>4. \A y \in S : y <= x
  <2> TAKE y \in S
  <2>1. n - y \in D
    OBVIOUS
  <2>2. ~(n - y < n - x)
    BY <2>1, <1>2, <1>3
  <2> QED BY <2>2
<1> QED BY <1>4 DEF Max

(* A new level p between a level x and all the worse ones takes over the    *)
(* pointer of x.                                                            *)
LEMMA InsertBehind ==
  ASSUME NEW L \in SUBSET Nat, NEW p \in Nat, NEW x \in Int, NEW q,
         x < p, \A r \in L : r <= x \/ r > p, PointsPast(L, x, q)
  PROVE  PointsPast(L \cup {p}, p, q) /\ PointsPast(L \cup {p}, x, p)
<1>1. p # Null
  BY DEF Null
<1>2. PointsPast(L \cup {p}, x, p)
  BY <1>1 DEF PointsPast
<1>3. PointsPast(L \cup {p}, p, q)
  <2>1. CASE q = Null
    BY <2>1 DEF PointsPast
  <2>2. CASE q # Null
    <3>1. q \in L /\ q > x /\ \A r \in L : r > x => q <= r
      BY <2>2 DEF PointsPast
    <3>2. q > p
      BY <3>1
    <3>3. \A r \in L \cup {p} : r > p => q <= r
      BY <3>1
    <3> QED BY <2>2, <3>1, <3>2, <3>3 DEF PointsPast
  <2> QED BY <2>1, <2>2
<1> QED BY <1>2, <1>3

(* The pointers of worse levels, and of levels with one between them and    *)
(* the new level, stay right.                                               *)
LEMMA InsertElsewhere ==
  ASSUME NEW L \in SUBSET Nat, NEW p \in Nat, NEW x \in Int, NEW q,
         p < x \/ \E i \in L : x < i /\ i < p, PointsPast(L, x, q)
  PROVE  PointsPast(L \cup {p}, x, q)
<1>1. CASE q = Null
  BY <1>1 DEF PointsPast
<1>2. CASE q # Null
  <2>1. q \in L /\ q > x /\ \A r \in L : r > x => q <= r
    BY <1>2 DEF PointsPast
  <2>2. p > x => q <= p
    BY <2>1
  <2> QED BY <1>2, <2>1, <2>2 DEF PointsPast
<1> QED BY <1>1, <1>2

(* Linking an unused level keeps the chain in order and adds that level.    *)
LEMMA LinkKeepsOrder ==
  ASSUME NEW P \in SUBSET Nat, NEW l \in Lists(P), NEW p \in P,
         ChainInOrder(l), l.next[p] = UnlinkedTag
  PROVE  /\ Link(l, p) \in Lists(P)
         /\ Linked(Link(l, p)) = Linked(l) \cup {p}
         /\ ChainInOrder(Link(l, p))
<1> DEFINE L == Linked(l)
           better == {i \in L : i < p}
           m == Link(l, p)
<1>1. /\ l.next \in [P -> P \cup {Null, UnlinkedTag}] /\ l.first \in P \cup {Null}
      /\ L = {i \in P : l.next[i] # UnlinkedTag} /\ p \notin L
  BY DEF Lists, Linked
<1>2. Null # UnlinkedTag /\ \A i \in P : i # UnlinkedTag
  BY DEF Null, UnlinkedTag
<1>3. PointsPast(L, -1, l.first) /\ \A q \in L : PointsPast(L, q, l.next[q])
  BY DEF ChainInOrder
<1>4. L \in SUBSET Nat /\ p \in Nat
  BY <1>1
<1>5. CASE better = {}
  <2>1. m = [first |-> p, next |-> [l.next EXCEPT ![p] = l.first]]
    BY <1>5 DEF Link
  <2>2. m \in Lists(P) /\ Linked(m) = L \cup {p}
    <3>1. m.next \in [P -> P \cup {Null, UnlinkedTag}] /\ m.first = p
      BY <1>1, <2>1
    <3>2. m \in Lists(P)
      BY <1>1, <2>1, <3>1 DEF Lists
    <3>3. m.next[p] = l.first /\ \A q \in P : q # p => m.next[q] = l.next[q]
      BY <1>1, <2>1
    <3> HIDE DEF L, m
    <3> QED BY <1>1, <1>2, <3>1, <3>2, <3>3 DEF Linked
  <2>3. \A r \in L : r > p
    BY <1>1, <1>4, <1>5
  <2> HIDE DEF L, better, m
  <2>4. PointsPast(L \cup {p}, p, l.first) /\ PointsPast(L \cup {p}, -1, p)
    BY <1>3, <1>4, <2>3, InsertBehind
  <2>5. \A q \in L : PointsPast(L \cup {p}, q, l.next[q])
    BY <1>3, <1>4, <2>3, InsertElsewhere
  <2>6. m.first = p /\ m.next[p] = l.first /\ \A q \in L : m.next[q] = l.next[q]
    BY <1>1, <2>1
  <2>7. ChainInOrder(m)
    BY <2>2, <2>4, <2>5, <2>6 DEF ChainInOrder
  <2> QED BY <2>2, <2>7 DEF m, L
<1>6. CASE better # {}
  <2> DEFINE i == Max(better)
  <2>1. i \in better /\ \A j \in better : j <= i
    BY <1>4, <1>6, MaxOfBounded
  <2>2. m = [first |-> l.first, next |-> [l.next EXCEPT ![p] = l.next[i], ![i] = p]]
    BY <1>6 DEF Link
  <2> HIDE DEF i
  <2>3. i \in L /\ i < p /\ \A r \in L : r < p => r <= i
    BY <2>1
  <2> HIDE DEF L, better, m
  <2>4. \A r \in L : r <= i \/ r > p
    BY <1>1, <1>4, <2>3
  <2>5. i \in P /\ i # p /\ l.next[i] # UnlinkedTag
    BY <1>1, <2>3
  <2>6. /\ m.first = l.first /\ m.next[p] = l.next[i] /\ m.next[i] = p
        /\ \A q \in P : q # p /\ q # i => m.next[q] = l.next[q]
    BY <1>1, <2>2, <2>5
  <2>7. m \in Lists(P)
    BY <1>1, <2>2, <2>5 DEF Lists
  <2>8. Linked(m) = L \cup {p}
    <3>1. DOMAIN m.next = P
      BY <2>7 DEF Lists
    <3> QED BY <1>1, <1>2, <2>5, <2>6, <3>1 DEF Linked
  <2>9. PointsPast(L \cup {p}, p, l.next[i]) /\ PointsPast(L \cup {p}, i, p)
    <3>1. i \in Int /\ PointsPast(L, i, l.next[i])
      BY <1>3, <1>4, <2>3
    <3> QED BY <1>4, <2>3, <2>4, <3>1, InsertBehind
  <2>10. PointsPast(L \cup {p}, -1, l.first)
    <3>1. -1 < i
      BY <1>4, <2>3
    <3> QED BY <1>3, <1>4, <2>3, <3>1, InsertElsewhere
  <2>11. ASSUME NEW q \in L, q # i PROVE PointsPast(L \cup {p}, q, l.next[q])
    <3>1. q \in Int /\ (p < q \/ q < i)
      BY <1>4, <2>3, <2>4, <2>11
    <3> QED BY <1>3, <1>4, <2>3, <3>1, InsertElsewhere
  <2>12. ASSUME NEW q \in L, q # i PROVE m.next[q] = l.next[q]
    BY <1>1, <2>6, <2>12
  <2>13. ChainInOrder(m)
    BY <2>6, <2>8, <2>9, <2>10, <2>11, <2>12 DEF ChainInOrder
  <2> QED BY <2>7, <2>8, <2>13 DEF m, L
<1> QED BY <1>5, <1>6

(* A new list has an empty chain. *)
LEMMA EmptyInOrder ==
  ASSUME NEW P \in SUBSET Nat
  PROVE  EmptyList(P) \in Lists(P) /\ ChainInOrder(EmptyList(P))
BY DEF EmptyList, Lists, ChainInOrder, PointsPast, Linked, Null, UnlinkedTag

(* prepare keeps the chain of thread_queue_list.h in order and makes the    *)
(* level part of it, whatever levels were used before and in which order:   *)
(* the scheduler meets the best level first and misses none that was ever   *)
(* prepared.                                                                *)
THEOREM PrepareKeepsOrder ==
  ASSUME NEW P \in SUBSET Nat, NEW l \in Lists(P), NEW p \in P, ChainInOrder(l)
  PROVE  /\ Prepare(l, p) \in Lists(P)
         /\ ChainInOrder(Prepare(l, p))
         /\ Linked(Prepare(l, p)) = Linked(l) \cup {p}
<1>1. CASE l.next[p] = UnlinkedTag
  BY <1>1, LinkKeepsOrder DEF Prepare
<1>2. CASE l.next[p] # UnlinkedTag
  BY <1>2 DEF Prepare, Linked, Lists
<1> QED BY <1>1, <1>2
=============================================================================
