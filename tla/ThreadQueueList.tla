--------------------------- MODULE ThreadQueueList ---------------------------
(***************************************************************************)
(* The levels of a ready queue: Common::ThreadQueueList of                 *)
(* thread_queue_list.h.  Every priority has a queue, and the queues that   *)
(* were ever used are chained from the best to the worst, so that a search *)
(* for the first thread visits no other.  A list l is a record: l.first is *)
(* a level or Null, and l.next gives the next_nonempty of each level.  The *)
(* threads on the levels are the caller's.                                 *)
(***************************************************************************)
EXTENDS Integers, FiniteSetsExt

(* Pointers, as ToIndex writes them into a save state. *)
Null == -2
UnlinkedTag == -1

(* ThreadQueueList(): no level has been used. *)
EmptyList(P) == [first |-> Null, next |-> [p \in P |-> UnlinkedTag]]

Linked(l) == {p \in DOMAIN l.next : l.next[p] # UnlinkedTag}

(* link: the level is inserted behind the nearest better level in use. *)
Link(l, p) ==
  LET better == {i \in Linked(l) : i < p}
      i == Max(better)
  IN  IF better = {}
      THEN [first |-> p, next |-> [l.next EXCEPT ![p] = l.first]]
      ELSE [first |-> l.first, next |-> [l.next EXCEPT ![p] = l.next[i], ![i] = p]]

(* prepare: a level that was never used is linked. *)
Prepare(l, p) == IF l.next[p] = UnlinkedTag THEN Link(l, p) ELSE l

-----------------------------------------------------------------------------
Lists(P) == [first : P \cup {Null}, next : [P -> P \cup {Null, UnlinkedTag}]]

(* Of the levels L, q is the best one that is worse than p, or Null. *)
PointsPast(L, p, q) ==
  IF q = Null THEN \A r \in L : r <= p
  ELSE q \in L /\ q > p /\ \A r \in L : r > p => q <= r

(* The chain visits every level that was ever used once, from the best      *)
(* priority to the worst: each pointer leads to the nearest worse level in  *)
(* use, and the first one to the best.  The search for the next thread of   *)
(* thread_queue_list.h stops at the first thread it meets, so this is what  *)
(* makes it the best one.                                                   *)
ChainInOrder(l) ==
  /\ PointsPast(Linked(l), -1, l.first)
  /\ \A p \in Linked(l) : PointsPast(Linked(l), p, l.next[p])
=============================================================================
