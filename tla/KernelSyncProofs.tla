-------------------------- MODULE KernelSyncProofs --------------------------
(***************************************************************************)
(* Proofs about threads and synchronisation objects.  A handler composes   *)
(* calls, and a call is a few updates of fields: each update has a lemma   *)
(* on what it leaves alone, each call one on what it keeps of the          *)
(* invariant, and each action one on its type and one on KInv, what holds  *)
(* between two handlers.  Mid is what holds between two calls of one.      *)
(***************************************************************************)
EXTENDS KernelSync, ThreadQueueListProofs, FiniteSetTheorems, SequenceTheorems

Chains == {l \in Lists(Prios) : ChainInOrder(l)}

(* The values of an available count. *)
Counts == MinWord .. MaxCount

(* The kernel states that any sequence of calls can build. *)
KStates ==
  [status : [Threads -> Status], nominal : [Threads -> Prios], prio : [Threads -> Prios],
   canSched : [Threads -> BOOLEAN], waitObjs : [Threads -> Seq(Objects)],
   held : [Threads -> SUBSET Mutexes], pending : [Threads -> SUBSET Mutexes],
   callback : [Threads -> BOOLEAN], timer : [Threads -> Nat],
   cur : [Cores -> Threads \cup {NoThread}], ready : [Cores -> [Prios -> Seq(Threads)]],
   levels : [Cores -> Chains], waiters : [Objects -> Seq(Threads)],
   lock : [Mutexes -> Nat], holder : [Mutexes -> Threads \cup {NoThread}],
   mprio : [Mutexes -> Prios], count : [Semaphores -> Counts],
   signaled : [Events \cup Timers -> BOOLEAN], armed : [Timers -> Int],
   periodic : [Timers -> BOOLEAN], used : [Procs -> Int], exited : [Procs -> BOOLEAN],
   runsOn : SUBSET Cores, crashed : BOOLEAN]

-----------------------------------------------------------------------------
(* Induction along a list, and the loops over one. *)

LEMMA Least ==
  ASSUME NEW T \in SUBSET Nat, T # {}
  PROVE  \E n \in T : \A m \in T : n <= m
<1>1. PICK n \in T : \A m \in T : ~(<<m, n>> \in OpToRel(<, Nat))
  BY WFMin, NatLessThanWellFounded
<1>2. \A m \in T : ~(m < n)
  BY <1>1 DEF OpToRel
<1> QED
  BY <1>2

(* A set that holds 0 and, with a number below n, the next one holds n. *)
Inductive(T, n) == 0 \in T /\ \A i \in 1 .. n : i - 1 \in T => i \in T

LEMMA UpTo ==
  ASSUME NEW n \in Nat, NEW T, Inductive(T, n)
  PROVE  n \in T
<1> USE DEF Inductive
<1> SUFFICES ASSUME n \notin T PROVE FALSE
  OBVIOUS
<1> DEFINE F == {i \in 0 .. n : i \notin T}
<1>1. F \in SUBSET Nat /\ F # {}
  OBVIOUS
<1>2. PICK j \in F : \A m \in F : j <= m
  BY <1>1, Least
<1>3. j \in 1 .. n /\ j - 1 \in 0 .. n
  BY <1>2
<1>4. j - 1 \in T
  BY <1>2, <1>3
<1> QED
  BY <1>2, <1>3, <1>4

(* A loop of n steps from a has a value after each step. *)
IsLoop(f, n, S, a, step) ==
  f \in [0 .. n -> S] /\ f[0] = a /\ \A i \in 1 .. n : f[i] = step[<<i, f[i - 1]>>]

LEMMA LoopExists ==
  ASSUME NEW n \in Nat, NEW S, NEW a \in S, NEW step \in [(1 .. n) \X S -> S]
  PROVE  \E f : IsLoop(f, n, S, a, step)
<1> DEFINE Part(m, f) == f[0] = a /\ \A i \in 1 .. m : f[i] = step[<<i, f[i - 1]>>]
           T == {m \in 0 .. n : \E f \in [0 .. m -> S] : Part(m, f)}
<1>1. 0 \in T
  <2> DEFINE f == [i \in 0 .. 0 |-> a]
  <2>1. f \in [0 .. 0 -> S] /\ Part(0, f)
    OBVIOUS
  <2> HIDE DEF f
  <2> QED
    BY <2>1
<1>2. ASSUME NEW m \in 1 .. n, m - 1 \in T PROVE m \in T
  <2>1. PICK f \in [0 .. m - 1 -> S] : Part(m - 1, f)
    BY <1>2
  <2> DEFINE v == step[<<m, f[m - 1]>>]
             g == [i \in 0 .. m |-> IF i = m THEN v ELSE f[i]]
  <2>2. f[m - 1] \in S /\ <<m, f[m - 1]>> \in (1 .. n) \X S
    BY <2>1
  <2>3. v \in S
    BY <2>2
  <2> HIDE DEF v
  <2>4. g \in [0 .. m -> S]
    BY <2>1, <2>3
  <2>5. g[0] = a
    BY <2>1
  <2>6. ASSUME NEW i \in 1 .. m PROVE g[i] = step[<<i, g[i - 1]>>]
    <3>1. CASE i = m
      <4>1. g[i] = v /\ g[i - 1] = f[m - 1]
        BY <3>1
      <4> QED
        BY <4>1, <3>1 DEF v
    <3>2. CASE i # m
      <4>1. i \in 1 .. m - 1 /\ g[i] = f[i] /\ g[i - 1] = f[i - 1]
        BY <3>2
      <4>2. f[i] = step[<<i, f[i - 1]>>]
        BY <4>1, <2>1
      <4> QED
        BY <4>1, <4>2
    <3> QED
      BY <3>1, <3>2
  <2> HIDE DEF g
  <2> QED
    BY <2>4, <2>5, <2>6
<1> HIDE DEF T
<1>3. n \in T
  BY <1>1, <1>2, UpTo DEF Inductive
<1> QED
  BY <1>3 DEF T, IsLoop

-----------------------------------------------------------------------------
(* Lists. *)

LEMMA MinNat ==
  ASSUME NEW S \in SUBSET Nat, S # {}
  PROVE  Min(S) \in S /\ \A x \in S : Min(S) <= x
<1>1. \E n \in S : \A m \in S : n <= m
  BY Least
<1> QED
  BY <1>1 DEF Min

LEMMA AppendFacts ==
  ASSUME NEW A, NEW q \in Seq(A), NEW x \in A
  PROVE  /\ Append(q, x) \in Seq(A) /\ ToSet(Append(q, x)) = ToSet(q) \cup {x}
         /\ Len(Append(q, x)) = Len(q) + 1
         /\ Distinct(q) /\ x \notin ToSet(q) => Distinct(Append(q, x))
<1> DEFINE p == Append(q, x)
           m == Len(q)
<1>1. /\ m \in Nat /\ DOMAIN q = 1 .. m /\ DOMAIN p = 1 .. m + 1
      /\ \A k1 \in 1 .. m : p[k1] = q[k1] /\ k1 # m + 1
      /\ p[m + 1] = x /\ p \in Seq(A) /\ Len(p) = m + 1
  OBVIOUS
<1> HIDE DEF p, m
<1>2. \A i \in DOMAIN p : i \in DOMAIN q \/ i = m + 1
  BY <1>1
<1>3. \A i \in DOMAIN q : i \in DOMAIN p /\ p[i] = q[i] /\ i # m + 1
  BY <1>1
<1>4. m + 1 \in DOMAIN p /\ p[m + 1] = x
  BY <1>1
<1>5. ToSet(p) = ToSet(q) \cup {x}
  <2>1. \A y : y \in ToSet(p) => y \in ToSet(q) \cup {x}
    BY <1>2, <1>3, <1>4 DEF ToSet
  <2>2. \A y : y \in ToSet(q) => y \in ToSet(p)
    BY <1>3 DEF ToSet
  <2>3. x \in ToSet(p)
    BY <1>4 DEF ToSet
  <2> QED
    BY <2>1, <2>2, <2>3
<1>6. Distinct(q) /\ x \notin ToSet(q) => Distinct(p)
  BY <1>2, <1>3, <1>4 DEF Distinct, ToSet
<1> QED
  BY <1>1, <1>5, <1>6 DEF p, m

(* A filtered list holds what is in the set, and is shorter if it lost one. *)
LEMMA FilterFacts ==
  ASSUME NEW A, NEW q \in Seq(A), NEW S
  PROVE  /\ Filter(q, S) \in Seq(A) /\ ToSet(Filter(q, S)) = ToSet(q) \cap S
         /\ Distinct(q) => Distinct(Filter(q, S))
         /\ Len(Filter(q, S)) <= Len(q)
         /\ ~(ToSet(q) \subseteq S) => Len(Filter(q, S)) < Len(q)
<1> DEFINE n == Len(q)
           Def(g) == g = [i \in 0 .. n |-> IF i = 0 THEN <<>> ELSE Keep(g[i - 1], q[i], S)]
           step == [w \in (1 .. n) \X Seq(A) |-> Keep(w[2], q[w[1]], S)]
           g == CHOOSE g : Def(g)
<1>1. n \in Nat /\ DOMAIN q = 1 .. n /\ \A i \in 1 .. n : q[i] \in A /\ q[i] \in ToSet(q)
  BY DEF ToSet
<1>2. <<>> \in Seq(A)
  OBVIOUS
<1>3. \A h \in Seq(A), i \in 1 .. n : Keep(h, q[i], S) \in Seq(A)
  BY <1>1 DEF Keep
<1> HIDE DEF n
<1>4. step \in [(1 .. n) \X Seq(A) -> Seq(A)]
  BY <1>3
<1>5. \A h \in Seq(A), i \in 1 .. n : step[<<i, h>>] = Keep(h, q[i], S)
  OBVIOUS
<1> HIDE DEF step
<1>0. PICK f : IsLoop(f, n, Seq(A), <<>>, step)
  BY <1>1, <1>2, <1>4, LoopExists
<1>6. /\ f \in [0 .. n -> Seq(A)]
      /\ f[0] = <<>> /\ \A i \in 1 .. n : f[i] = step[<<i, f[i - 1]>>]
  BY <1>0 DEF IsLoop
<1>7. \A i \in 1 .. n : f[i] = Keep(f[i - 1], q[i], S)
  <2> TAKE i \in 1 .. n
  <2>1. f[i - 1] \in Seq(A)
    BY <1>1, <1>6
  <2> QED
    BY <2>1, <1>5, <1>6
<1>8. Def(f)
  BY <1>1, <1>6, <1>7
<1>9. Def(g)
  BY <1>8
<1> HIDE DEF g
<1>10. g[0] = <<>> /\ \A i \in 1 .. n : g[i] = Keep(g[i - 1], q[i], S)
  BY <1>1, <1>9
<1> DEFINE First(i) == {q[j] : j \in 1 .. i}
           Good(h, i) == /\ h \in Seq(A) /\ ToSet(h) = First(i) \cap S
                         /\ Distinct(q) => Distinct(h)
                         /\ Len(h) <= i
                         /\ ~(First(i) \subseteq S) => Len(h) < i
           T == {i \in 0 .. n : Good(g[i], i)}
<1>11. 0 \in T
  <2>1. Good(<<>>, 0)
    <3>1. First(0) = {} /\ ToSet(<<>>) = {} /\ <<>> \in Seq(A) /\ Len(<<>>) = 0
      BY DEF ToSet
    <3>2. Distinct(<<>>)
      BY DEF Distinct
    <3> QED
      BY <3>1, <3>2
  <2> HIDE DEF Good
  <2> QED
    BY <2>1, <1>1, <1>10
<1>12. ASSUME NEW i \in 1 .. n, i - 1 \in T PROVE i \in T
  <2> DEFINE h == g[i - 1]
             x == q[i]
  <2>1. Good(h, i - 1) /\ g[i] = Keep(h, x, S) /\ x \in A
    BY <1>1, <1>10, <1>12
  <2>2. First(i) = First(i - 1) \cup {x} /\ i \in Nat
    <3>1. 1 .. i = (1 .. i - 1) \cup {i}
      BY <1>1
    <3> QED
      BY <3>1, <1>1
  <2>3. Distinct(q) => x \notin First(i - 1)
    BY <1>1 DEF Distinct
  <2> HIDE DEF h, x, First
  <2>4. /\ h \in Seq(A) /\ ToSet(h) = First(i - 1) \cap S /\ (Distinct(q) => Distinct(h))
        /\ Len(h) <= i - 1 /\ (~(First(i - 1) \subseteq S) => Len(h) < i - 1) /\ Len(h) \in Nat
    BY <2>1
  <2>5. CASE x \notin S
    <3>1. g[i] = h
      BY <2>1, <2>5 DEF Keep
    <3>2. Good(h, i)
      BY <2>2, <2>4, <2>5
    <3> HIDE DEF Good
    <3> QED
      BY <3>1, <3>2
  <2>6. CASE x \in S
    <3>1. g[i] = Append(h, x)
      BY <2>1, <2>6 DEF Keep
    <3>2. /\ Append(h, x) \in Seq(A) /\ ToSet(Append(h, x)) = ToSet(h) \cup {x}
          /\ Len(Append(h, x)) = Len(h) + 1
          /\ Distinct(h) /\ x \notin ToSet(h) => Distinct(Append(h, x))
      BY <2>1, <2>4, AppendFacts
    <3>3. Distinct(q) => x \notin ToSet(h)
      BY <2>3, <2>4
    <3>4. Good(Append(h, x), i)
      BY <2>2, <2>4, <2>6, <3>2, <3>3
    <3> HIDE DEF Good
    <3>5. Good(g[i], i)
      BY <3>1, <3>4, Zenon
    <3> QED
      BY <3>5
  <2> QED
    BY <2>5, <2>6
<1> HIDE DEF T
<1>a. Inductive(T, n)
  BY <1>11, <1>12 DEF Inductive
<1>13. n \in T
  BY <1>1, <1>a, UpTo
<1>14. Good(g[n], n)
  BY <1>13 DEF T
<1>15. Filter(q, S) = g[n]
  BY DEF Filter, g, n
<1>16. First(n) = ToSet(q)
  BY <1>1 DEF ToSet
<1> QED
  BY <1>14, <1>15, <1>16 DEF n

-----------------------------------------------------------------------------
(* What an operation leaves alone. *)

SameRest(s, u) ==
  /\ u.nominal = s.nominal /\ u.canSched = s.canSched /\ u.cur = s.cur /\ u.armed = s.armed
  /\ u.periodic = s.periodic /\ u.used = s.used /\ u.exited = s.exited /\ u.runsOn = s.runsOn

SameThreads(s, u) == u.status = s.status /\ u.callback = s.callback /\ u.timer = s.timer

SameLists(s, u) == u.waitObjs = s.waitObjs /\ u.pending = s.pending /\ u.waiters = s.waiters

SameOwners(s, u) == u.held = s.held /\ u.lock = s.lock /\ u.holder = s.holder

SameSignals(s, u) == u.count = s.count /\ u.signaled = s.signaled

(* Everything but the priorities and the ready queues. *)
SameButPrio(s, u) ==
  /\ SameRest(s, u) /\ SameThreads(s, u) /\ SameLists(s, u) /\ SameOwners(s, u)
  /\ SameSignals(s, u) /\ u.crashed = s.crashed

(* The ready queues: thread t is where it should be. *)
QueuedRight(s, t) ==
  \A c \in Cores, p \in Prios :
    t \in ToSet(s.ready[c][p]) <=> s.status[t] = "Ready" /\ CoreOf[t] = c /\ s.prio[t] = p

NotQueued(s, t) == \A c \in Cores, p \in Prios : t \notin ToSet(s.ready[c][p])

QueuesDistinct(s) == \A c \in Cores, p \in Prios : Distinct(s.ready[c][p])

Queue(s) == QueuesDistinct(s) /\ \A t \in Threads : QueuedRight(s, t)

QueueBut(s, t) ==
  QueuesDistinct(s) /\ NotQueued(s, t) /\ \A x \in Threads : x # t => QueuedRight(s, x)

(* The level of a thread is one that the scheduler visits. *)
Levelled(s) ==
  \A t \in Threads : s.status[t] # "Dormant" => s.prio[t] \in Linked(s.levels[CoreOf[t]])

LEMMA StateTypes ==
  ASSUME NEW s, s \in KStates
  PROVE  /\ \A t \in Threads :
              /\ s.status[t] \in Status /\ s.nominal[t] \in Prios /\ s.prio[t] \in Prios
              /\ s.canSched[t] \in BOOLEAN /\ s.waitObjs[t] \in Seq(Objects)
              /\ s.held[t] \in SUBSET Mutexes /\ s.pending[t] \in SUBSET Mutexes
              /\ s.callback[t] \in BOOLEAN /\ s.timer[t] \in Nat
              /\ CoreOf[t] \in Cores /\ ProcOf[t] \in Procs
         /\ \A c \in Cores : /\ s.cur[c] \in Threads \cup {NoThread} /\ s.levels[c] \in Chains
                             /\ \A p \in Prios : s.ready[c][p] \in Seq(Threads)
         /\ \A o \in Objects : s.waiters[o] \in Seq(Threads)
         /\ \A m \in Mutexes : /\ s.lock[m] \in Nat /\ s.holder[m] \in Threads \cup {NoThread}
                               /\ s.mprio[m] \in Prios
         /\ \A x \in Semaphores : s.count[x] \in Counts
BY KernelAssumption DEF KStates

LEMMA ReadyUpdate ==
  ASSUME NEW s, s \in KStates, NEW c \in Cores, NEW p \in Prios, NEW q, q \in Seq(Threads),
         NEW u, u = [s EXCEPT !.ready[c][p] = q]
  PROVE  /\ u \in KStates /\ SameButPrio(s, u)
         /\ u.prio = s.prio /\ u.mprio = s.mprio /\ u.levels = s.levels
         /\ \A d \in Cores, r \in Prios :
              u.ready[d][r] = IF d = c /\ r = p THEN q ELSE s.ready[d][r]
<1> DEFINE f == [s.ready EXCEPT ![c][p] = q]
<1>1. s.ready \in [Cores -> [Prios -> Seq(Threads)]]
  BY DEF KStates
<1>2. f \in [Cores -> [Prios -> Seq(Threads)]]
  BY <1>1
<1>3. \A d \in Cores, r \in Prios : f[d][r] = IF d = c /\ r = p THEN q ELSE s.ready[d][r]
  BY <1>1
<1> HIDE DEF f
<1>4. u = [s EXCEPT !.ready = f]
  BY DEF f, KStates
<1>5. u \in KStates /\ u.ready = f
  <2>1. u.ready = f
    BY <1>4 DEF KStates
  <2>2. u \in KStates
    BY <1>2, <1>4, ZenonT(40) DEF KStates
  <2> QED
    BY <2>1, <2>2
<1>6. SameButPrio(s, u) /\ u.prio = s.prio /\ u.mprio = s.mprio /\ u.levels = s.levels
  BY <1>4 DEF KStates, SameButPrio, SameRest, SameThreads, SameLists, SameOwners, SameSignals
<1> QED
  BY <1>3, <1>5, <1>6

LEMMA UnqueueFacts ==
  ASSUME NEW s, s \in KStates, NEW t \in Threads
  PROVE  /\ Unqueue(s, t) \in KStates /\ SameButPrio(s, Unqueue(s, t))
         /\ Unqueue(s, t).prio = s.prio /\ Unqueue(s, t).mprio = s.mprio
         /\ Unqueue(s, t).levels = s.levels
         /\ Queue(s) => QueueBut(Unqueue(s, t), t)
<1> DEFINE c == CoreOf[t]
           p == s.prio[t]
           q == Filter(s.ready[c][p], Threads \ {t})
           u == Unqueue(s, t)
<1>1. c \in Cores /\ p \in Prios /\ s.ready[c][p] \in Seq(Threads)
  BY StateTypes
<1>2. /\ q \in Seq(Threads) /\ ToSet(q) = ToSet(s.ready[c][p]) \cap (Threads \ {t})
      /\ Distinct(s.ready[c][p]) => Distinct(q)
  BY <1>1, FilterFacts
<1>3. u = [s EXCEPT !.ready[c][p] = q]
  BY DEF Unqueue
<1> HIDE DEF c, p, q, u
<1>4. /\ u \in KStates /\ SameButPrio(s, u)
      /\ u.prio = s.prio /\ u.mprio = s.mprio /\ u.levels = s.levels
      /\ \A d \in Cores, r \in Prios :
           u.ready[d][r] = IF d = c /\ r = p THEN q ELSE s.ready[d][r]
  BY <1>1, <1>2, <1>3, ReadyUpdate
<1>5. ASSUME Queue(s) PROVE QueueBut(u, t)
  <2>1. QueuesDistinct(u)
    BY <1>1, <1>2, <1>4, <1>5 DEF Queue, QueuesDistinct
  <2>2. NotQueued(u, t)
    BY <1>1, <1>2, <1>4, <1>5 DEF NotQueued, Queue, QueuedRight, c, p
  <2>3. \A x \in Threads : x # t => QueuedRight(u, x)
    <3>1. u.status = s.status
      BY <1>4 DEF SameButPrio, SameThreads
    <3> QED
      BY <1>1, <1>2, <1>4, <1>5, <3>1 DEF Queue, QueuedRight
  <2> QED
    BY <2>1, <2>2, <2>3 DEF QueueBut
<1> QED
  BY <1>4, <1>5 DEF u

LEMMA PushBackFacts ==
  ASSUME NEW s, s \in KStates, NEW t \in Threads
  PROVE  /\ PushBack(s, t) \in KStates /\ SameButPrio(s, PushBack(s, t))
         /\ PushBack(s, t).prio = s.prio /\ PushBack(s, t).mprio = s.mprio
         /\ PushBack(s, t).levels = s.levels
         /\ QueueBut(s, t) /\ s.status[t] = "Ready" => Queue(PushBack(s, t))
<1> DEFINE c == CoreOf[t]
           p == s.prio[t]
           q == Append(s.ready[c][p], t)
           u == PushBack(s, t)
<1>1. c \in Cores /\ p \in Prios /\ s.ready[c][p] \in Seq(Threads)
  BY StateTypes
<1>2. /\ q \in Seq(Threads) /\ ToSet(q) = ToSet(s.ready[c][p]) \cup {t}
      /\ Distinct(s.ready[c][p]) /\ t \notin ToSet(s.ready[c][p]) => Distinct(q)
  BY <1>1, AppendFacts
<1>3. u = [s EXCEPT !.ready[c][p] = q]
  BY DEF PushBack
<1> HIDE DEF c, p, q, u
<1>4. /\ u \in KStates /\ SameButPrio(s, u)
      /\ u.prio = s.prio /\ u.mprio = s.mprio /\ u.levels = s.levels
      /\ \A d \in Cores, r \in Prios :
           u.ready[d][r] = IF d = c /\ r = p THEN q ELSE s.ready[d][r]
  BY <1>1, <1>2, <1>3, ReadyUpdate
<1>5. ASSUME QueueBut(s, t), s.status[t] = "Ready" PROVE Queue(u)
  <2>0. u.status = s.status
    BY <1>4 DEF SameButPrio, SameThreads
  <2>1. QueuesDistinct(u)
    BY <1>1, <1>2, <1>4, <1>5 DEF QueueBut, QueuesDistinct, NotQueued
  <2>2. QueuedRight(u, t)
    BY <1>1, <1>2, <1>4, <1>5, <2>0 DEF QueueBut, NotQueued, QueuedRight, c, p
  <2>3. \A x \in Threads : x # t => QueuedRight(u, x)
    BY <1>1, <1>2, <1>4, <1>5, <2>0 DEF QueueBut, QueuedRight
  <2> QED
    BY <2>1, <2>2, <2>3 DEF Queue
<1> QED
  BY <1>4, <1>5 DEF u

LEMMA PrepareChains ==
  ASSUME NEW l \in Chains, NEW p \in Prios
  PROVE  Prepare(l, p) \in Chains /\ Linked(Prepare(l, p)) = Linked(l) \cup {p}
BY KernelAssumption, PrepareKeepsOrder DEF Chains

LEMMA PrepareFacts ==
  ASSUME NEW s, s \in KStates, NEW t \in Threads, NEW p \in Prios
  PROVE  /\ PrepareLevel(s, t, p) \in KStates /\ SameButPrio(s, PrepareLevel(s, t, p))
         /\ PrepareLevel(s, t, p).prio = s.prio /\ PrepareLevel(s, t, p).mprio = s.mprio
         /\ PrepareLevel(s, t, p).ready = s.ready
         /\ \A c \in Cores : /\ Linked(s.levels[c]) \subseteq Linked(PrepareLevel(s, t, p).levels[c])
                             /\ c = CoreOf[t] => p \in Linked(PrepareLevel(s, t, p).levels[c])
<1> DEFINE c == CoreOf[t]
           l == Prepare(s.levels[c], p)
           u == PrepareLevel(s, t, p)
<1>1. c \in Cores /\ s.levels[c] \in Chains /\ s.levels \in [Cores -> Chains]
  BY StateTypes DEF KStates
<1>2. l \in Chains /\ Linked(l) = Linked(s.levels[c]) \cup {p}
  BY <1>1, PrepareChains
<1>3. u = [s EXCEPT !.levels[c] = l]
  BY DEF PrepareLevel
<1> HIDE DEF l, u, c
<1>4. u \in KStates /\ u.levels = [s.levels EXCEPT ![c] = l]
  BY <1>1, <1>2, <1>3 DEF KStates
<1>5. SameButPrio(s, u) /\ u.prio = s.prio /\ u.mprio = s.mprio /\ u.ready = s.ready
  BY <1>3 DEF KStates, SameButPrio, SameRest, SameThreads, SameLists, SameOwners, SameSignals
<1>6. \A d \in Cores : /\ Linked(s.levels[d]) \subseteq Linked(u.levels[d])
                       /\ d = c => p \in Linked(u.levels[d])
  BY <1>1, <1>2, <1>4
<1> QED
  BY <1>4, <1>5, <1>6 DEF u, c

-----------------------------------------------------------------------------
(* Priorities. *)

(* The priority that the mutexes it holds give to t. *)
Best(s, t) == Min({s.nominal[t]} \cup {s.mprio[m] : m \in s.held[t]})

LEMMA BoostFacts ==
  ASSUME NEW s, s \in KStates, NEW t \in Threads, NEW p \in Prios
  PROVE  /\ BoostPriority(s, t, p) \in KStates /\ SameButPrio(s, BoostPriority(s, t, p))
         /\ BoostPriority(s, t, p).mprio = s.mprio
         /\ BoostPriority(s, t, p).prio = [s.prio EXCEPT ![t] = p]
         /\ Queue(s) => Queue(BoostPriority(s, t, p))
         /\ Levelled(s) => Levelled(BoostPriority(s, t, p))
<1> DEFINE v == IF s.status[t] = "Ready" THEN Unqueue(s, t) ELSE s
           w == PrepareLevel(v, t, p)
           x == [w EXCEPT !.prio[t] = p]
           u == BoostPriority(s, t, p)
<1>1. /\ v \in KStates /\ SameButPrio(s, v)
      /\ v.prio = s.prio /\ v.mprio = s.mprio /\ v.levels = s.levels
      /\ Queue(s) => QueueBut(v, t)
  <2>1. CASE s.status[t] = "Ready"
    BY <2>1, UnqueueFacts
  <2>2. CASE s.status[t] # "Ready"
    <3>1. SameButPrio(s, s)
      BY DEF SameButPrio, SameRest, SameThreads, SameLists, SameOwners, SameSignals
    <3>2. Queue(s) => QueueBut(s, t)
      BY <2>2 DEF Queue, QueueBut, QueuedRight, NotQueued
    <3> QED
      BY <2>2, <3>1, <3>2
  <2> QED
    BY <2>1, <2>2
<1>0. u = IF s.status[t] = "Ready" THEN PushBack(x, t) ELSE x
  BY DEF BoostPriority
<1> HIDE DEF v, u
<1>2. /\ w \in KStates /\ SameButPrio(v, w) /\ w.prio = v.prio /\ w.mprio = v.mprio
      /\ w.ready = v.ready
      /\ \A c \in Cores : /\ Linked(v.levels[c]) \subseteq Linked(w.levels[c])
                          /\ c = CoreOf[t] => p \in Linked(w.levels[c])
  BY <1>1, PrepareFacts
<1> HIDE DEF w
<1>3. /\ x \in KStates /\ x.prio = [w.prio EXCEPT ![t] = p]
      /\ x.mprio = w.mprio /\ x.ready = w.ready /\ x.levels = w.levels /\ SameButPrio(w, x)
  BY <1>2 DEF KStates, SameButPrio, SameRest, SameThreads, SameLists, SameOwners, SameSignals
<1> HIDE DEF x
<1>4. SameButPrio(s, x) /\ x.mprio = s.mprio /\ x.prio = [s.prio EXCEPT ![t] = p]
  BY <1>1, <1>2, <1>3
     DEF SameButPrio, SameRest, SameThreads, SameLists, SameOwners, SameSignals
<1>5. \A y \in Threads : x.status[y] = s.status[y] /\ (y # t => x.prio[y] = s.prio[y])
  BY <1>4, <1>1 DEF SameButPrio, SameThreads, KStates
<1>6. x.prio[t] = p
  BY <1>4 DEF KStates
<1>7. ASSUME Queue(s) PROVE QueueBut(x, t)
  <2>1. QueueBut(v, t) /\ x.ready = v.ready
    BY <1>1, <1>2, <1>3, <1>7
  <2>2. \A y \in Threads : v.status[y] = s.status[y] /\ v.prio[y] = s.prio[y]
    BY <1>1 DEF SameButPrio, SameThreads
  <2> QED
    BY <2>1, <2>2, <1>5 DEF QueueBut, QueuesDistinct, NotQueued, QueuedRight
<1>8. ASSUME Levelled(s) PROVE Levelled(x)
  <2>1. \A c \in Cores : /\ Linked(s.levels[c]) \subseteq Linked(x.levels[c])
                         /\ c = CoreOf[t] => p \in Linked(x.levels[c])
    BY <1>1, <1>2, <1>3
  <2>2. \A y \in Threads : CoreOf[y] \in Cores
    BY KernelAssumption
  <2> QED
    BY <2>1, <2>2, <1>5, <1>6, <1>8 DEF Levelled
<1>9. CASE s.status[t] = "Ready"
  <2>1. u = PushBack(x, t)
    BY <1>9, <1>0
  <2>2. /\ u \in KStates /\ SameButPrio(x, u) /\ u.prio = x.prio /\ u.mprio = x.mprio
        /\ u.levels = x.levels /\ (QueueBut(x, t) /\ x.status[t] = "Ready" => Queue(u))
    BY <1>3, <2>1, PushBackFacts
  <2>3. SameButPrio(s, u)
    BY <1>4, <2>2
       DEF SameButPrio, SameRest, SameThreads, SameLists, SameOwners, SameSignals
  <2>4. Levelled(x) => Levelled(u)
    BY <2>2 DEF Levelled, SameButPrio, SameThreads
  <2>5. Queue(s) => Queue(u)
    BY <2>2, <1>5, <1>7, <1>9
  <2> QED
    BY <1>4, <1>8, <2>2, <2>3, <2>4, <2>5 DEF u
<1>10. CASE s.status[t] # "Ready"
  <2>1. u = x
    BY <1>10, <1>0
  <2>2. Queue(s) => Queue(x)
    BY <1>5, <1>7, <1>10 DEF QueueBut, Queue, QueuedRight, NotQueued
  <2> QED
    BY <1>3, <1>4, <1>8, <2>1, <2>2 DEF u
<1> QED
  BY <1>9, <1>10

LEMMA MinIs ==
  ASSUME NEW S \in SUBSET Nat, NEW x \in S, \A y \in S : x <= y
  PROVE  Min(S) = x
<1>1. Min(S) \in S /\ \A y \in S : Min(S) <= y
  BY MinNat
<1>2. Min(S) \in Nat /\ x \in Nat /\ Min(S) <= x /\ x <= Min(S)
  BY <1>1
<1> HIDE DEF Min
<1> QED
  BY <1>2

LEMMA BestType ==
  ASSUME NEW s, s \in KStates, NEW t \in Threads
  PROVE  /\ Best(s, t) \in Prios /\ Best(s, t) <= s.nominal[t]
         /\ \A m \in s.held[t] : Best(s, t) <= s.mprio[m]
         /\ \/ Best(s, t) = s.nominal[t]
            \/ \E m \in s.held[t] : Best(s, t) = s.mprio[m]
<1> DEFINE S == {s.nominal[t]} \cup {s.mprio[m] : m \in s.held[t]}
<1>0. s.nominal[t] \in Prios /\ \A m \in s.held[t] : s.mprio[m] \in Prios
  BY StateTypes
<1>1. S \subseteq Prios /\ S # {} /\ Prios \subseteq Nat
  BY <1>0, KernelAssumption
<1>2. Min(S) \in S /\ \A x \in S : Min(S) <= x
  BY <1>1, MinNat
<1> QED
  BY <1>1, <1>2 DEF Best

LEMMA UpdateFacts ==
  ASSUME NEW s, s \in KStates, NEW t \in Threads
  PROVE  /\ UpdatePriority(s, t) \in KStates /\ SameButPrio(s, UpdatePriority(s, t))
         /\ UpdatePriority(s, t).mprio = s.mprio
         /\ UpdatePriority(s, t).prio = [s.prio EXCEPT ![t] = Best(s, t)]
         /\ Queue(s) => Queue(UpdatePriority(s, t))
         /\ Levelled(s) => Levelled(UpdatePriority(s, t))
<1>1. UpdatePriority(s, t) = BoostPriority(s, t, Best(s, t))
  BY DEF UpdatePriority, Best
<1>2. Best(s, t) \in Prios
  BY BestType
<1> QED
  BY <1>1, <1>2, BoostFacts

(* Who owns a mutex.  While thread d ends it still lists the mutexes that   *)
(* it has already given up.                                                 *)
Alive(s, t) == s.status[t] \notin {"Dormant", "Dead"}

Own(s, d) ==
  /\ \A m \in Mutexes : s.lock[m] > 0 <=> s.holder[m] # NoThread
  /\ \A m \in Mutexes, t \in Threads :
       /\ s.holder[m] = t => m \in s.held[t] /\ (t # d => Alive(s, t))
       /\ m \in s.held[t] /\ t # d => s.holder[m] = t
  /\ d \in Threads => s.status[d] = "Dead"

Inherit(s) == \A t \in Threads : Alive(s, t) => s.prio[t] = Best(s, t)

(* A thread whose priority a held mutex must not have missed. *)
Pressing(s, m, t) ==
  /\ s.holder[m] # NoThread /\ t \in ToSet(s.waiters[m])
  /\ s.status[t] = "WaitSynchAny" /\ s.held[t] = {}

(* No mutex missed one, but for those of M and thread x. *)
NoInvAt(s, m, x, M) ==
  \A t \in Threads : Pressing(s, m, t) /\ ~(t = x /\ m \in M) => s.mprio[m] <= s.prio[t]

NoInv(s, x, M) == \A m \in Mutexes : NoInvAt(s, m, x, M)

LEMMA MutexUpdateFacts ==
  ASSUME NEW s, s \in KStates, NEW m \in Mutexes
  PROVE  /\ MutexUpdatePriority(s, m) \in KStates
         /\ SameButPrio(s, MutexUpdatePriority(s, m))
         /\ Queue(s) => Queue(MutexUpdatePriority(s, m))
         /\ Levelled(s) => Levelled(MutexUpdatePriority(s, m))
         /\ \A d : Own(s, d) /\ Inherit(s) => Inherit(MutexUpdatePriority(s, m))
         /\ \A d, x, N :
              Own(s, d) /\ (\A y \in Mutexes : y # m => NoInvAt(s, y, x, N))
                => NoInv(MutexUpdatePriority(s, m), x, N)
<1> DEFINE S == {ThreadPrioLowest} \cup {s.prio[t] : t \in ToSet(s.waiters[m])}
           best == Min(S)
           h == s.holder[m]
           v == [s EXCEPT !.mprio[m] = best]
           u == MutexUpdatePriority(s, m)
<1>0. m \in Objects /\ s.waiters[m] \in Seq(Threads)
  BY StateTypes DEF Objects
<1>1. /\ S \subseteq Prios /\ S # {} /\ Prios \subseteq Nat
      /\ \A t \in ToSet(s.waiters[m]) : t \in Threads
  <2>1. \A t \in ToSet(s.waiters[m]) : t \in Threads
    BY <1>0 DEF ToSet
  <2>2. \A t \in Threads : s.prio[t] \in Prios
    BY StateTypes
  <2>3. ThreadPrioLowest \in Prios /\ Prios \subseteq Nat
    BY KernelAssumption
  <2> QED
    BY <2>1, <2>2, <2>3
<1>2. best \in Prios /\ \A t \in ToSet(s.waiters[m]) : best <= s.prio[t]
  BY <1>1, MinNat
<1>3. u = IF h = NoThread \/ best = s.mprio[m] THEN s ELSE UpdatePriority(v, h)
  BY DEF MutexUpdatePriority
<1> HIDE DEF best, S, u
<1>4. CASE h = NoThread \/ best = s.mprio[m]
  <2>1. u = s
    BY <1>3, <1>4
  <2>2. SameButPrio(s, s)
    BY DEF SameButPrio, SameRest, SameThreads, SameLists, SameOwners, SameSignals
  <2>3. ASSUME NEW x, NEW N, \A y \in Mutexes : y # m => NoInvAt(s, y, x, N)
        PROVE  NoInv(s, x, N)
    <3>1. \A t \in Threads : Pressing(s, m, t) => s.mprio[m] <= s.prio[t]
      BY <1>2, <1>4 DEF Pressing
    <3> QED
      BY <2>3, <3>1 DEF NoInv, NoInvAt
  <2> QED
    BY <2>1, <2>2, <2>3 DEF u
<1>5. CASE ~(h = NoThread \/ best = s.mprio[m])
  <2>1. h \in Threads /\ u = UpdatePriority(v, h)
    BY <1>3, <1>5, StateTypes
  <2>2. /\ v \in KStates /\ SameButPrio(s, v) /\ v.prio = s.prio /\ v.ready = s.ready
        /\ v.levels = s.levels /\ v.mprio = [s.mprio EXCEPT ![m] = best]
    BY <1>2 DEF KStates, SameButPrio, SameRest, SameThreads, SameLists, SameOwners, SameSignals
  <2>3. (Queue(s) => Queue(v)) /\ (Levelled(s) => Levelled(v))
    BY <2>2 DEF Queue, QueuesDistinct, QueuedRight, Levelled, SameButPrio, SameThreads
  <2> HIDE DEF v
  <2>4. /\ u \in KStates /\ SameButPrio(v, u) /\ u.mprio = v.mprio
        /\ u.prio = [v.prio EXCEPT ![h] = Best(v, h)]
        /\ (Queue(v) => Queue(u)) /\ (Levelled(v) => Levelled(u))
    BY <2>1, <2>2, UpdateFacts
  <2>5. SameButPrio(s, u)
    BY <2>2, <2>4 DEF SameButPrio, SameRest, SameThreads, SameLists, SameOwners, SameSignals
  <2>6. /\ \A t \in Threads : u.prio[t] = IF t = h THEN Best(v, h) ELSE s.prio[t]
        /\ \A x \in Mutexes : u.mprio[x] = IF x = m THEN best ELSE s.mprio[x]
    BY <2>1, <2>2, <2>4 DEF KStates
  <2>7. /\ u.status = s.status /\ u.held = s.held /\ u.nominal = s.nominal
        /\ u.holder = s.holder /\ u.waiters = s.waiters
        /\ v.held = s.held /\ v.nominal = s.nominal
    BY <2>2, <2>5 DEF SameButPrio, SameRest, SameThreads, SameLists, SameOwners
  <2>8. ASSUME NEW d, Own(s, d), Inherit(s) PROVE Inherit(u)
    <3> SUFFICES ASSUME NEW t \in Threads, Alive(s, t) PROVE u.prio[t] = Best(u, t)
      BY <2>7 DEF Inherit, Alive
    <3>1. CASE t = h
      <4>1. Best(u, h) = Best(v, h)
        BY <2>4, <2>7 DEF Best
      <4> QED
        BY <3>1, <4>1, <2>6
    <3>2. CASE t # h
      <4>1. t # d
        BY <2>8 DEF Own, Alive
      <4>2. m \notin s.held[t] /\ s.held[t] \subseteq Mutexes
        BY <3>2, <4>1, <2>8, StateTypes DEF Own
      <4>3. \A x \in s.held[t] : u.mprio[x] = s.mprio[x]
        BY <4>2, <2>6
      <4>4. {u.mprio[x] : x \in s.held[t]} = {s.mprio[x] : x \in s.held[t]}
        BY <4>3
      <4>5. Best(u, t) = Best(s, t)
        BY <4>4, <2>7 DEF Best
      <4> QED
        BY <4>5, <3>2, <2>6, <2>8 DEF Inherit
    <3> QED
      BY <3>1, <3>2
  <2>9. ASSUME NEW d, NEW x, NEW N, Own(s, d), \A y \in Mutexes : y # m => NoInvAt(s, y, x, N)
        PROVE  NoInv(u, x, N)
    <3> SUFFICES ASSUME NEW y \in Mutexes, NEW t \in Threads, Pressing(s, y, t),
                        ~(t = x /\ y \in N)
                 PROVE  u.mprio[y] <= u.prio[t]
      BY <2>7 DEF NoInv, NoInvAt, Pressing
    <3>1. t # h
      BY <2>1, <2>9 DEF Own, Pressing
    <3>2. CASE y = m
      BY <3>1, <3>2, <2>6, <1>2 DEF Pressing
    <3>3. CASE y # m
      BY <3>1, <3>3, <2>6, <2>9 DEF NoInvAt
    <3> QED
      BY <3>2, <3>3
  <2> QED
    BY <2>3, <2>4, <2>5, <2>8, <2>9 DEF u
<1> QED
  BY <1>4, <1>5

-----------------------------------------------------------------------------
(* Acquiring an object. *)

(* Nothing of an earlier wait is left where there is none. *)
Timed(s) ==
  \A t \in Threads :
    /\ s.timer[t] <= 1
    /\ s.status[t] \in {"Ready", "Running", "Dormant"} => s.timer[t] = 0 /\ ~s.callback[t]
    /\ s.status[t] = "Dead" => s.timer[t] = 0

(* What holds between any two calls that a handler makes, d being the       *)
(* thread that ends, if one does.                                           *)
Sound(s, d) ==
  /\ s \in KStates /\ ~s.crashed /\ Own(s, d) /\ Inherit(s)
  /\ Queue(s) /\ Levelled(s) /\ Timed(s)

LEMMA Kinds ==
  /\ \A o \in Mutexes : o \notin Semaphores /\ o \notin Events \cup Timers /\ o \notin Threads
  /\ \A o \in Semaphores : o \notin Mutexes /\ o \notin Events \cup Timers /\ o \notin Threads
  /\ \A o \in Events \cup Timers : o \notin Semaphores /\ o \notin Mutexes /\ o \notin Threads
  /\ \A o \in Threads : o \notin Semaphores /\ o \notin Events \cup Timers /\ o \notin Mutexes
  /\ NoThread \notin Threads /\ NoThread \notin Objects
  /\ Objects = Mutexes \cup Semaphores \cup (Events \cup Timers) \cup Threads
BY KernelAssumption DEF Objects

LEMMA ShouldWaitIs ==
  ASSUME NEW s, NEW o \in Objects, NEW t
  PROVE  /\ o \in Mutexes => (ShouldWait(s, o, t) <=> s.lock[o] > 0 /\ s.holder[o] # t)
         /\ o \in Semaphores => (ShouldWait(s, o, t) <=> s.count[o] <= 0)
         /\ o \in Events \cup Timers => (ShouldWait(s, o, t) <=> ~s.signaled[o])
         /\ o \in Threads => (ShouldWait(s, o, t) <=> s.status[o] # "Dead")
BY Kinds DEF ShouldWait

LEMMA ObjectKinds ==
  ASSUME NEW o \in Objects
  PROVE  o \in Mutexes \/ o \in Semaphores \/ o \in Events \cup Timers \/ o \in Threads
BY DEF Objects

(* Availability depends on the state of the object only. *)
LEMMA SameAvailability ==
  ASSUME NEW s, NEW u, NEW o \in Objects, NEW t,
         o \in Mutexes => /\ (u.lock[o] > 0) <=> (s.lock[o] > 0)
                          /\ u.holder[o] = s.holder[o],
         o \in Semaphores => u.count[o] = s.count[o],
         o \in Events \cup Timers => u.signaled[o] = s.signaled[o],
         o \in Threads => (u.status[o] = "Dead" <=> s.status[o] = "Dead")
  PROVE  ShouldWait(u, o, t) <=> ShouldWait(s, o, t)
<1>1. CASE o \in Mutexes
  <2>1. /\ ShouldWait(u, o, t) <=> u.lock[o] > 0 /\ u.holder[o] # t
        /\ ShouldWait(s, o, t) <=> s.lock[o] > 0 /\ s.holder[o] # t
    BY <1>1, ShouldWaitIs
  <2> QED
    BY <1>1, <2>1, Zenon
<1>2. CASE o \in Semaphores
  <2>1. (ShouldWait(u, o, t) <=> u.count[o] <= 0) /\ (ShouldWait(s, o, t) <=> s.count[o] <= 0)
    BY <1>2, ShouldWaitIs
  <2> QED
    BY <1>2, <2>1, Zenon
<1>3. CASE o \in Events \cup Timers
  <2>1. (ShouldWait(u, o, t) <=> ~u.signaled[o]) /\ (ShouldWait(s, o, t) <=> ~s.signaled[o])
    BY <1>3, ShouldWaitIs
  <2> QED
    BY <1>3, <2>1, Zenon
<1>4. CASE o \in Threads
  <2>1. /\ ShouldWait(u, o, t) <=> u.status[o] # "Dead"
        /\ ShouldWait(s, o, t) <=> s.status[o] # "Dead"
    BY <1>4, ShouldWaitIs
  <2> QED
    BY <1>4, <2>1, Zenon
<1> QED
  BY <1>1, <1>2, <1>3, <1>4, ObjectKinds

CountSet(s, x, n) == [s EXCEPT !.count[x] = n]
SignalSet(s, e, b) == [s EXCEPT !.signaled[e] = b]

LEMMA AcquireIs ==
  ASSUME NEW s, NEW o \in Objects, NEW t, ~ShouldWait(s, o, t)
  PROVE  /\ o \in Mutexes => Acquire(s, o, t) = AcquireMutex(s, o, t)
         /\ o \in Semaphores => 
              Acquire(s, o, t) = CountSet(s, o, IF s.count[o] <= 0 THEN s.count[o]
                                                ELSE s.count[o] - 1)
         /\ o \in Events \cup Timers =>
              Acquire(s, o, t) = SignalSet(s, o, IF ResetOf[o] = "OneShot" THEN FALSE
                                                 ELSE s.signaled[o])
         /\ o \in Threads => Acquire(s, o, t) = s
<1>1. Asserted(s, ~ShouldWait(s, o, t)) = s
  BY DEF Asserted
<1> QED
  BY <1>1, Kinds DEF Acquire, CountSet, SignalSet

(* Thread t took something: nobody else gained by it. *)
Takes(s, u, t) ==
  /\ SameRest(s, u) /\ SameThreads(s, u) /\ SameLists(s, u) /\ u.prio = s.prio
  /\ \A y \in Threads : y # t => u.held[y] = s.held[y]
  /\ s.held[t] \subseteq u.held[t]
  /\ \A m \in Mutexes, y \in Threads : y # t => (u.holder[m] = y <=> s.holder[m] = y)
  /\ \A m \in Mutexes : s.holder[m] = t => u.holder[m] = t
  /\ \A x \in Objects, y \in Threads : y # t /\ ShouldWait(s, x, y) => ShouldWait(u, x, y)

(* Only the availability of o changed. *)
OnlyOf(s, u, o) ==
  \A x \in Objects, y \in Threads : x # o => (ShouldWait(u, x, y) <=> ShouldWait(s, x, y))

(* No pressing thread is better than t for mutex m. *)
FairTo(s, m, t) ==
  s.holder[m] = NoThread =>
    \A y \in ToSet(s.waiters[m]) :
      y # t /\ s.status[y] = "WaitSynchAny" /\ s.held[y] = {} => s.prio[t] <= s.prio[y]

LEMMA TakesTrans ==
  ASSUME NEW s, NEW u, NEW v, NEW t \in Threads, Takes(s, u, t), Takes(u, v, t)
  PROVE  Takes(s, v, t)
BY DEF Takes, SameRest, SameThreads, SameLists

SameButLock(s, u) ==
  /\ SameRest(s, u) /\ SameThreads(s, u) /\ SameLists(s, u) /\ SameSignals(s, u)
  /\ u.held = s.held /\ u.holder = s.holder /\ u.prio = s.prio /\ u.mprio = s.mprio
  /\ u.ready = s.ready /\ u.levels = s.levels /\ u.crashed = s.crashed

LockSet(s, m, n) == [s EXCEPT !.lock[m] = n]

LEMMA LockUpdate ==
  ASSUME NEW s, s \in KStates, NEW m \in Mutexes, NEW n \in Nat
  PROVE  /\ LockSet(s, m, n) \in KStates /\ SameButLock(s, LockSet(s, m, n))
         /\ LockSet(s, m, n).lock = [s.lock EXCEPT ![m] = n]
<1> DEFINE u == LockSet(s, m, n)
<1> DEFINE f == [s.lock EXCEPT ![m] = n]
<1>1. f \in [Mutexes -> Nat]
  BY DEF KStates
<1>2. u = [s EXCEPT !.lock = f]
  BY DEF KStates, LockSet
<1> HIDE DEF f, u
<1>3. u \in KStates /\ u.lock = f
  BY <1>1, <1>2 DEF KStates
<1>4. SameButLock(s, u)
  BY <1>2 DEF KStates, SameButLock, SameRest, SameThreads, SameLists, SameSignals
<1> QED
  BY <1>3, <1>4 DEF f, u

LEMMA LockMore ==
  ASSUME NEW s, NEW d, Sound(s, d), NEW m \in Mutexes, NEW t \in Threads, s.lock[m] > 0,
         s.holder[m] = t, NEW u, u = LockSet(s, m, s.lock[m] + 1)
  PROVE  /\ Sound(u, d) /\ Takes(s, u, t) /\ OnlyOf(s, u, m)
         /\ \A x, M : NoInv(s, x, M) => NoInv(u, x, M)
<1>1. s \in KStates /\ s.lock[m] \in Nat /\ ~s.crashed
  BY StateTypes DEF Sound
<1>2. /\ u \in KStates /\ u.lock = [s.lock EXCEPT ![m] = @ + 1]
      /\ SameRest(s, u) /\ SameThreads(s, u) /\ SameLists(s, u) /\ SameSignals(s, u)
      /\ u.held = s.held /\ u.holder = s.holder /\ u.prio = s.prio /\ u.mprio = s.mprio
      /\ u.ready = s.ready /\ u.levels = s.levels /\ u.crashed = s.crashed
  <2>1. u = LockSet(s, m, s.lock[m] + 1) /\ s.lock[m] + 1 \in Nat
    BY <1>1
  <2>2. u \in KStates /\ SameButLock(s, u) /\ u.lock = [s.lock EXCEPT ![m] = s.lock[m] + 1]
    BY <1>1, <2>1, LockUpdate
  <2> QED
    BY <2>2 DEF SameButLock
<1>3. \A x \in Mutexes : /\ u.lock[x] > 0 <=> s.lock[x] > 0
                         /\ u.lock[x] \in Nat
  <2>1. s.lock \in [Mutexes -> Nat]
    BY <1>1 DEF KStates
  <2>2. \A x \in Mutexes : u.lock[x] = IF x = m THEN s.lock[m] + 1 ELSE s.lock[x]
    BY <2>1, <1>2
  <2>3. \A x \in Mutexes : s.lock[x] \in Nat
    BY <2>1
  <2> QED
    BY <2>2, <2>3
<1>4. \A x \in Objects, y \in Threads : ShouldWait(u, x, y) <=> ShouldWait(s, x, y)
  <2> TAKE x \in Objects, y \in Threads
  <2>1. u.status = s.status /\ u.count = s.count /\ u.signaled = s.signaled
    BY <1>2 DEF SameThreads, SameSignals
  <2> QED
    BY <1>2, <1>3, <2>1, SameAvailability
<1>5. Own(u, d)
  BY <1>2, <1>3 DEF Own, Sound, SameThreads, Alive
<1>6. Inherit(u)
  BY <1>2 DEF Inherit, Sound, SameThreads, SameRest, Alive, Best
<1>7. Queue(u) /\ Levelled(u) /\ Timed(u)
  BY <1>2, SMTT(30) DEF Sound, Queue, QueuesDistinct, QueuedRight, Levelled, Timed, SameThreads
<1>8. \A x, M : NoInv(s, x, M) => NoInv(u, x, M)
  BY <1>2 DEF NoInv, NoInvAt, Pressing, SameThreads, SameLists
<1> QED
  BY <1>1, <1>2, <1>4, <1>5, <1>6, <1>7, <1>8 DEF Sound, Takes, OnlyOf

LEMMA LockFree ==
  ASSUME NEW s, NEW d, Sound(s, d), NEW m \in Mutexes, NEW t \in Threads, s.lock[m] = 0,
         t # d, Alive(s, t), NEW u, u = AcquireMutex(s, m, t)
  PROVE  /\ Sound(u, d) /\ Takes(s, u, t) /\ OnlyOf(s, u, m)
         /\ \A x, M : NoInv(s, x, M) /\ FairTo(s, m, t) => NoInv(u, x, M)
<1> DEFINE a == [s EXCEPT !.mprio[m] = s.prio[t], !.held[t] = @ \cup {m}, !.holder[m] = t]
           b == UpdatePriority(a, t)
<1>1. /\ s \in KStates /\ ~s.crashed /\ Own(s, d) /\ Inherit(s) /\ Queue(s) /\ Levelled(s)
      /\ Timed(s) /\ s.prio[t] \in Prios /\ s.holder[m] = NoThread /\ NoThread # t
  BY StateTypes, Kinds DEF Sound, Own
<1>2. u = [b EXCEPT !.lock[m] = @ + 1]
  BY DEF AcquireMutex
<1>3. /\ a \in KStates /\ a.mprio = [s.mprio EXCEPT ![m] = s.prio[t]]
      /\ a.held = [s.held EXCEPT ![t] = @ \cup {m}] /\ a.holder = [s.holder EXCEPT ![m] = t]
      /\ SameRest(s, a) /\ SameThreads(s, a) /\ SameLists(s, a) /\ SameSignals(s, a)
      /\ a.lock = s.lock /\ a.prio = s.prio
      /\ a.ready = s.ready /\ a.levels = s.levels /\ a.crashed = s.crashed
  <2> DEFINE f == [s.mprio EXCEPT ![m] = s.prio[t]]
             g == [s.held EXCEPT ![t] = @ \cup {m}]
             h == [s.holder EXCEPT ![m] = t]
  <2>1. /\ f \in [Mutexes -> Prios] /\ g \in [Threads -> SUBSET Mutexes]
        /\ h \in [Mutexes -> Threads \cup {NoThread}]
    BY <1>1 DEF KStates
  <2>2. a = [s EXCEPT !.mprio = f, !.held = g, !.holder = h]
    BY <1>1 DEF KStates
  <2> HIDE DEF f, g, h, a
  <2>3. a \in KStates /\ a.mprio = f /\ a.held = g /\ a.holder = h
    <3>1. a.mprio = f /\ a.held = g /\ a.holder = h
      BY <1>1, <2>2 DEF KStates
    <3>2. a \in KStates
      BY <1>1, <2>1, <2>2, ZenonT(40) DEF KStates
    <3> QED
      BY <3>1, <3>2
  <2>4. /\ SameRest(s, a) /\ SameThreads(s, a) /\ SameLists(s, a) /\ SameSignals(s, a)
        /\ a.lock = s.lock /\ a.prio = s.prio
        /\ a.ready = s.ready /\ a.levels = s.levels /\ a.crashed = s.crashed
    BY <1>1, <2>2 DEF KStates, SameRest, SameThreads, SameLists, SameSignals
  <2> QED
    BY <2>3, <2>4 DEF f, g, h
<1> HIDE DEF a
<1>4. Queue(a) /\ Levelled(a)
  BY <1>1, <1>3 DEF Queue, QueuesDistinct, QueuedRight, Levelled, SameThreads
<1>5. /\ b \in KStates /\ SameButPrio(a, b) /\ b.mprio = a.mprio
      /\ b.prio = [a.prio EXCEPT ![t] = Best(a, t)] /\ Queue(b) /\ Levelled(b)
  BY <1>3, <1>4, UpdateFacts
<1> HIDE DEF b
<1>6. Best(a, t) = s.prio[t]
  <2> DEFINE R == {s.nominal[t]} \cup {s.mprio[x] : x \in s.held[t]}
             S == {a.nominal[t]} \cup {a.mprio[x] : x \in a.held[t]}
  <2>1. s.prio[t] = Min(R)
    BY <1>1 DEF Inherit, Best
  <2>2. R \subseteq Nat /\ R # {}
    <3>1. s.nominal[t] \in Nat /\ \A x \in s.held[t] : s.mprio[x] \in Nat
      BY <1>1, StateTypes, KernelAssumption
    <3> QED
      BY <3>1
  <2>3. S = R \cup {s.prio[t]}
    <3>1. a.held[t] = s.held[t] \cup {m} /\ a.nominal = s.nominal /\ a.mprio[m] = s.prio[t]
      BY <1>1, <1>3 DEF KStates, SameRest
    <3>2. m \notin s.held[t] /\ s.held[t] \subseteq Mutexes
      BY <1>1, StateTypes DEF Own
    <3>3. \A x \in s.held[t] : a.mprio[x] = s.mprio[x]
      BY <1>1, <1>3, <3>2 DEF KStates
    <3> QED
      BY <3>1, <3>2, <3>3
  <2>4. Min(R) \in R /\ \A x \in R : Min(R) <= x
    BY <2>2, MinNat
  <2> HIDE DEF R, S
  <2>5. S \subseteq Nat /\ s.prio[t] \in S /\ \A x \in S : s.prio[t] <= x
    BY <2>1, <2>2, <2>3, <2>4
  <2>6. Min(S) = s.prio[t]
    BY <2>5, MinIs
  <2> QED
    BY <2>6 DEF Best, S
<1>7. b.prio = s.prio
  BY <1>1, <1>3, <1>5, <1>6 DEF KStates
<1>8. /\ u \in KStates /\ u.lock = [b.lock EXCEPT ![m] = @ + 1]
      /\ SameRest(b, u) /\ SameThreads(b, u) /\ SameLists(b, u) /\ SameSignals(b, u)
      /\ u.held = b.held /\ u.holder = b.holder /\ u.prio = b.prio /\ u.mprio = b.mprio
      /\ u.ready = b.ready /\ u.levels = b.levels /\ u.crashed = b.crashed
  <2>1. u = LockSet(b, m, b.lock[m] + 1) /\ b.lock[m] + 1 \in Nat
    BY <1>2, <1>5, StateTypes DEF LockSet
  <2>2. u \in KStates /\ SameButLock(b, u) /\ u.lock = [b.lock EXCEPT ![m] = b.lock[m] + 1]
    BY <1>5, <2>1, LockUpdate
  <2> QED
    BY <2>2 DEF SameButLock
<1>9. /\ SameRest(s, u) /\ SameThreads(s, u) /\ SameLists(s, u) /\ SameSignals(s, u)
      /\ u.prio = s.prio /\ u.crashed = s.crashed
  BY <1>3, <1>5, <1>7, <1>8
     DEF SameButPrio, SameRest, SameThreads, SameLists, SameSignals
<1>10. /\ u.held = [s.held EXCEPT ![t] = @ \cup {m}] /\ u.holder = [s.holder EXCEPT ![m] = t]
       /\ u.mprio = [s.mprio EXCEPT ![m] = s.prio[t]] /\ u.lock = [s.lock EXCEPT ![m] = @ + 1]
  BY <1>3, <1>5, <1>8 DEF SameButPrio, SameOwners
<1>11. /\ \A y \in Threads : u.held[y] = IF y = t THEN s.held[t] \cup {m} ELSE s.held[y]
       /\ \A x \in Mutexes : /\ u.holder[x] = IF x = m THEN t ELSE s.holder[x]
                             /\ u.mprio[x] = IF x = m THEN s.prio[t] ELSE s.mprio[x]
                             /\ u.lock[x] = IF x = m THEN 1 ELSE s.lock[x]
  BY <1>1, <1>10 DEF KStates
<1>12. \A x \in Objects, y \in Threads :
         /\ x # m => (ShouldWait(u, x, y) <=> ShouldWait(s, x, y))
         /\ y # t /\ ShouldWait(s, x, y) => ShouldWait(u, x, y)
  <2> TAKE x \in Objects, y \in Threads
  <2>1. u.status = s.status /\ u.count = s.count /\ u.signaled = s.signaled
    BY <1>9 DEF SameThreads, SameSignals
  <2>2. CASE x # m
    BY <2>1, <2>2, <1>11, SameAvailability
  <2>3. CASE x = m
    <3>1. ~ShouldWait(s, m, y)
      BY <2>3, ShouldWaitIs
    <3> QED
      BY <2>3, <3>1
  <2> QED
    BY <2>2, <2>3
<1>13. Own(u, d)
  <2>1. u.status = s.status
    BY <1>9 DEF SameThreads
  <2>2. \A x \in Mutexes : u.lock[x] > 0 <=> u.holder[x] # NoThread
    BY <1>1, <1>11 DEF Own
  <2>3. ASSUME NEW x \in Mutexes, NEW y \in Threads
        PROVE  /\ u.holder[x] = y => x \in u.held[y] /\ (y # d => Alive(u, y))
               /\ x \in u.held[y] /\ y # d => u.holder[x] = y
    <3>0. Alive(u, y) <=> Alive(s, y)
      BY <2>1 DEF Alive
    <3>1. CASE x = m
      <4>1. u.holder[m] = t /\ (y # t => u.held[y] = s.held[y]) /\ m \in u.held[t]
        BY <1>11
      <4>2. y # d => m \notin s.held[y]
        BY <1>1, Kinds DEF Own
      <4> QED
        BY <3>0, <3>1, <4>1, <4>2
    <3>2. CASE x # m
      BY <1>1, <1>11, <3>0, <3>2 DEF Own
    <3> QED
      BY <3>1, <3>2
  <2> QED
    BY <1>1, <2>1, <2>2, <2>3 DEF Own
<1>14. Inherit(u)
  <2> SUFFICES ASSUME NEW y \in Threads, Alive(s, y) PROVE u.prio[y] = Best(u, y)
    BY <1>9 DEF Inherit, SameThreads, Alive
  <2>1. CASE y = t
    <3>1. Best(u, t) = Best(a, t)
      BY <1>3, <1>8, <1>9, <1>5 DEF Best, SameRest, SameButPrio, SameOwners
    <3> QED
      BY <2>1, <3>1, <1>6, <1>9
  <2>2. CASE y # t
    <3>1. y # d
      BY <1>1 DEF Own, Alive
    <3>2. m \notin s.held[y] /\ s.held[y] \subseteq Mutexes
      BY <1>1, <3>1, StateTypes, Kinds DEF Own
    <3>3. {u.mprio[x] : x \in u.held[y]} = {s.mprio[x] : x \in s.held[y]}
      BY <2>2, <3>2, <1>11
    <3>4. Best(u, y) = Best(s, y)
      BY <3>3, <1>9 DEF Best, SameRest
    <3> QED
      BY <3>4, <1>1, <1>9 DEF Inherit
  <2> QED
    BY <2>1, <2>2
<1>15. Queue(u) /\ Levelled(u) /\ Timed(u)
  <2>1. Queue(u) /\ Levelled(u)
    BY <1>5, <1>8 DEF Queue, QueuesDistinct, QueuedRight, Levelled, SameThreads
  <2>2. Timed(u)
    BY <1>1, <1>9 DEF Timed, SameThreads
  <2> QED
    BY <2>1, <2>2
<1>16. ASSUME NEW x, NEW M, NoInv(s, x, M), FairTo(s, m, t) PROVE NoInv(u, x, M)
  <2> SUFFICES ASSUME NEW z \in Mutexes, NEW y \in Threads, Pressing(u, z, y),
                      ~(y = x /\ z \in M)
               PROVE  u.mprio[z] <= u.prio[y]
    BY DEF NoInv, NoInvAt
  <2>1. y # t /\ u.held[y] = s.held[y]
    BY <1>11 DEF Pressing
  <2>2. u.status = s.status /\ u.waiters = s.waiters /\ u.prio = s.prio
    BY <1>9 DEF SameThreads, SameLists
  <2>3. CASE z = m
    BY <1>1, <1>11, <1>16, <2>1, <2>2, <2>3 DEF FairTo, Pressing
  <2>4. CASE z # m
    BY <1>11, <1>16, <2>1, <2>2, <2>4 DEF NoInv, NoInvAt, Pressing
  <2> QED
    BY <2>3, <2>4
<1>17. Takes(s, u, t)
  <2>1. SameRest(s, u) /\ SameThreads(s, u) /\ SameLists(s, u) /\ u.prio = s.prio
    BY <1>9
  <2>2. \A x \in Mutexes, y \in Threads : y # t => (u.holder[x] = y <=> s.holder[x] = y)
    BY <1>1, <1>11, Kinds
  <2>3. \A x \in Mutexes : s.holder[x] = t => u.holder[x] = t
    BY <1>1, <1>11, Kinds
  <2> QED
    BY <2>1, <2>2, <2>3, <1>11, <1>12 DEF Takes
<1> QED
  BY <1>1, <1>8, <1>9, <1>12, <1>13, <1>14, <1>15, <1>16, <1>17 DEF Sound, OnlyOf

(* The objects that are no mutexes change nothing but their own state. *)
Same(s, u) ==
  /\ SameRest(s, u) /\ SameThreads(s, u) /\ SameLists(s, u) /\ SameOwners(s, u)
  /\ u.prio = s.prio /\ u.mprio = s.mprio /\ u.ready = s.ready /\ u.levels = s.levels
  /\ u.crashed = s.crashed

LEMMA SameSound ==
  ASSUME NEW s, NEW d, Sound(s, d), NEW u, u \in KStates, Same(s, u)
  PROVE  Sound(u, d) /\ \A x, M : NoInv(s, x, M) => NoInv(u, x, M)
<1>1. Own(u, d) /\ Inherit(u)
  BY DEF Same, Sound, Own, Inherit, Alive, Best, SameRest, SameThreads, SameOwners
<1>2. Queue(u) /\ Levelled(u) /\ Timed(u)
  BY DEF Same, Sound, Queue, QueuesDistinct, QueuedRight, Levelled, Timed, SameThreads
<1>3. \A x, M : NoInv(s, x, M) => NoInv(u, x, M)
  BY DEF Same, NoInv, NoInvAt, Pressing, SameThreads, SameLists, SameOwners
<1> QED
  BY <1>1, <1>2, <1>3 DEF Sound, Same

LEMMA CountsFacts ==
  /\ Counts \subseteq MinWord .. MaxWord /\ Counts \subseteq Int
  /\ InitCount \in Counts
  /\ \A n \in Counts : ~(n <= 0) => n - 1 \in Counts
<1>1. /\ MinWord \in Int /\ MaxWord \in Int /\ MaxCount \in Int /\ InitCount \in Int
      /\ MinWord < 0 /\ MaxWord >= MaxCount /\ MaxCount >= InitCount /\ InitCount >= MinWord
  BY KernelAssumption
<1> QED
  BY <1>1 DEF Counts

LEMMA CountUpdate ==
  ASSUME NEW s, s \in KStates, NEW x \in Semaphores, NEW n \in Counts
  PROVE  /\ CountSet(s, x, n) \in KStates /\ Same(s, CountSet(s, x, n))
         /\ CountSet(s, x, n).signaled = s.signaled
         /\ CountSet(s, x, n).count = [s.count EXCEPT ![x] = n]
<1> DEFINE u == CountSet(s, x, n)
           f == [s.count EXCEPT ![x] = n]
<1>1. f \in [Semaphores -> Counts]
  BY DEF KStates
<1>2. u = [s EXCEPT !.count = f]
  BY DEF KStates, CountSet
<1> HIDE DEF f, u
<1>3. u \in KStates /\ u.count = f /\ u.signaled = s.signaled
  BY <1>1, <1>2 DEF KStates
<1>4. Same(s, u)
  BY <1>2 DEF KStates, Same, SameRest, SameThreads, SameLists, SameOwners
<1> QED
  BY <1>3, <1>4 DEF f, u

LEMMA SignalUpdate ==
  ASSUME NEW s, s \in KStates, NEW e \in Events \cup Timers, NEW b \in BOOLEAN
  PROVE  /\ SignalSet(s, e, b) \in KStates /\ Same(s, SignalSet(s, e, b))
         /\ SignalSet(s, e, b).count = s.count
         /\ SignalSet(s, e, b).signaled = [s.signaled EXCEPT ![e] = b]
<1> DEFINE u == SignalSet(s, e, b)
           f == [s.signaled EXCEPT ![e] = b]
<1>1. f \in [Events \cup Timers -> BOOLEAN]
  BY DEF KStates
<1>2. u = [s EXCEPT !.signaled = f]
  BY DEF KStates, SignalSet
<1> HIDE DEF f, u
<1>3. u \in KStates /\ u.signaled = f /\ u.count = s.count
  BY <1>1, <1>2 DEF KStates
<1>4. Same(s, u)
  BY <1>2 DEF KStates, Same, SameRest, SameThreads, SameLists, SameOwners
<1> QED
  BY <1>3, <1>4 DEF f, u

(* A thread takes an object that is free. *)
Acquired(s, u, d, o, t) ==
  /\ Sound(u, d) /\ Takes(s, u, t) /\ OnlyOf(s, u, o)
  /\ \A x, M : NoInv(s, x, M) /\ (o \in Mutexes => FairTo(s, o, t)) => NoInv(u, x, M)

LEMMA AcquireFacts ==
  ASSUME NEW s, NEW d, Sound(s, d), NEW o \in Objects, NEW t \in Threads, t # d, Alive(s, t),
         ~ShouldWait(s, o, t)
  PROVE  Acquired(s, Acquire(s, o, t), d, o, t)
<1> DEFINE u == Acquire(s, o, t)
<1>0. s \in KStates
  BY DEF Sound
<1>1. CASE o \in Mutexes
  <2>1. u = AcquireMutex(s, o, t) /\ s.lock[o] \in Nat /\ ~(s.lock[o] > 0 /\ s.holder[o] # t)
    BY <1>0, <1>1, AcquireIs, ShouldWaitIs, StateTypes
  <2>2. CASE s.lock[o] > 0
    <3>1. u = LockSet(s, o, s.lock[o] + 1) /\ s.holder[o] = t
      BY <2>1, <2>2 DEF AcquireMutex, LockSet
    <3> QED
      BY <1>1, <2>2, <3>1, LockMore DEF Acquired
  <2>3. CASE s.lock[o] = 0
    BY <1>1, <2>1, <2>3, LockFree DEF Acquired
  <2> QED
    BY <2>1, <2>2, <2>3
<1>2. CASE o \in Semaphores
  <2>1. s.count[o] \in Counts /\ ~(s.count[o] <= 0)
    BY <1>0, <1>2, ShouldWaitIs, StateTypes
  <2>2. u = CountSet(s, o, s.count[o] - 1) /\ s.count[o] - 1 \in Counts
    <3>1. ~(s.count[o] <= 0) /\ s.count[o] - 1 \in Counts
      BY <2>1, CountsFacts
    <3>2. u = CountSet(s, o, IF s.count[o] <= 0 THEN s.count[o] ELSE s.count[o] - 1)
      BY <1>2, AcquireIs
    <3> QED
      BY <3>1, <3>2
  <2>3. /\ u \in KStates /\ Same(s, u) /\ u.signaled = s.signaled
        /\ u.count = [s.count EXCEPT ![o] = s.count[o] - 1]
    BY <1>0, <1>2, <2>2, CountUpdate
  <2>4. Sound(u, d) /\ \A x, M : NoInv(s, x, M) => NoInv(u, x, M)
    BY <2>3, SameSound
  <2>5. \A x \in Semaphores : x # o => u.count[x] = s.count[x]
    BY <1>0, <2>3 DEF KStates
  <2>6. OnlyOf(s, u, o)
    BY <2>3, <2>5, SameAvailability DEF OnlyOf, Same, SameThreads, SameOwners
  <2>7. Takes(s, u, t)
    <3>1. \A y \in Threads : ~ShouldWait(s, o, y)
      BY <2>1, <1>2, ShouldWaitIs, KernelAssumption
    <3>2. \A x \in Objects, y \in Threads :
            y # t /\ ShouldWait(s, x, y) => ShouldWait(u, x, y)
      BY <3>1, <2>6 DEF OnlyOf
    <3> QED
      BY <2>3, <3>2 DEF Takes, Same, SameOwners
  <2> QED
    BY <2>4, <2>6, <2>7 DEF Acquired
<1>3. CASE o \in Events \cup Timers
  <2> DEFINE b == IF ResetOf[o] = "OneShot" THEN FALSE ELSE s.signaled[o]
  <2>1. b \in BOOLEAN /\ s.signaled[o]
    BY <1>0, <1>3, ShouldWaitIs DEF KStates
  <2>2. u = SignalSet(s, o, b)
    BY <1>3, AcquireIs
  <2> HIDE DEF b
  <2>3. /\ u \in KStates /\ Same(s, u) /\ u.count = s.count
        /\ u.signaled = [s.signaled EXCEPT ![o] = b]
    BY <1>0, <1>3, <2>1, <2>2, SignalUpdate
  <2>4. Sound(u, d) /\ \A x, M : NoInv(s, x, M) => NoInv(u, x, M)
    BY <2>3, SameSound
  <2>5. \A x \in Events \cup Timers : x # o => u.signaled[x] = s.signaled[x]
    BY <1>0, <2>3 DEF KStates
  <2>6. OnlyOf(s, u, o)
    BY <2>3, <2>5, SameAvailability DEF OnlyOf, Same, SameThreads, SameOwners
  <2>7. Takes(s, u, t)
    <3>1. \A y \in Threads : ~ShouldWait(s, o, y)
      BY <2>1, <1>3, ShouldWaitIs, KernelAssumption
    <3>2. \A x \in Objects, y \in Threads :
            y # t /\ ShouldWait(s, x, y) => ShouldWait(u, x, y)
      BY <3>1, <2>6 DEF OnlyOf
    <3> QED
      BY <2>3, <3>2 DEF Takes, Same, SameOwners
  <2> QED
    BY <2>4, <2>6, <2>7 DEF Acquired
<1>4. CASE o \in Threads
  <2>1. u = s
    BY <1>4, AcquireIs
  <2>2. Takes(s, s, t) /\ OnlyOf(s, s, o)
    BY DEF Takes, OnlyOf, SameRest, SameThreads, SameLists
  <2> QED
    BY <2>1, <2>2 DEF Acquired
<1> QED
  BY <1>1, <1>2, <1>3, <1>4, ObjectKinds

-----------------------------------------------------------------------------
(* Every operation maps states to states, and what its loops compute. *)

LEMMA LoopStays ==
  ASSUME NEW n \in Nat, NEW S, NEW g, g[0] \in S,
         \A i \in 1 .. n : g[i - 1] \in S => g[i] \in S
  PROVE  \A i \in 0 .. n : g[i] \in S
<1> DEFINE T == {i \in 0 .. n : g[i] \in S}
<1> TAKE m \in 0 .. n
<1>1. Inductive(T, m)
  BY DEF Inductive
<1> HIDE DEF T
<1>2. m \in T
  BY <1>1, UpTo
<1> QED
  BY <1>2 DEF T

LEMMA AssertedType ==
  ASSUME NEW s, s \in KStates, NEW P
  PROVE  Asserted(s, P) \in KStates
<1>1. [s EXCEPT !.crashed = TRUE] \in KStates
  BY DEF KStates
<1> QED
  BY <1>1 DEF Asserted

LEMMA AcquireMutexType ==
  ASSUME NEW s, s \in KStates, NEW m \in Mutexes, NEW t \in Threads
  PROVE  AcquireMutex(s, m, t) \in KStates
<1> DEFINE a == [s EXCEPT !.mprio[m] = s.prio[t], !.held[t] = @ \cup {m}, !.holder[m] = t]
           b == UpdatePriority(a, t)
           own == IF s.lock[m] > 0 THEN s ELSE b
<1>1. a \in KStates
  <2> DEFINE f == [s.mprio EXCEPT ![m] = s.prio[t]]
             g == [s.held EXCEPT ![t] = @ \cup {m}]
             h == [s.holder EXCEPT ![m] = t]
  <2>1. /\ f \in [Mutexes -> Prios] /\ g \in [Threads -> SUBSET Mutexes]
        /\ h \in [Mutexes -> Threads \cup {NoThread}]
    BY DEF KStates
  <2>2. a = [s EXCEPT !.mprio = f, !.held = g, !.holder = h]
    BY DEF KStates
  <2> HIDE DEF f, g, h, a
  <2> QED
    BY <2>1, <2>2 DEF KStates
<1> HIDE DEF a
<1>2. own \in KStates
  BY <1>1, UpdateFacts
<1>3. AcquireMutex(s, m, t) = LockSet(own, m, own.lock[m] + 1)
  BY DEF AcquireMutex, LockSet, a
<1> HIDE DEF own
<1> DEFINE n == own.lock[m] + 1
<1>4. n \in Nat
  BY <1>2, StateTypes
<1> HIDE DEF n
<1>5. LockSet(own, m, n) \in KStates
  BY <1>2, <1>4, LockUpdate
<1> QED
  BY <1>3, <1>5 DEF n

LEMMA AcquireType ==
  ASSUME NEW s, s \in KStates, NEW o \in Objects, NEW t \in Threads
  PROVE  Acquire(s, o, t) \in KStates
<1> DEFINE a == Asserted(s, ~ShouldWait(s, o, t))
<1>1. a \in KStates
  BY AssertedType
<1> HIDE DEF a
<1>2. CASE o \in Mutexes
  <2>1. Acquire(s, o, t) = AcquireMutex(a, o, t)
    BY <1>2, Kinds DEF Acquire, a
  <2> QED
    BY <1>1, <1>2, <2>1, AcquireMutexType
<1>3. CASE o \in Semaphores
  <2> DEFINE n == IF s.count[o] <= 0 THEN s.count[o] ELSE s.count[o] - 1
  <2>1. Acquire(s, o, t) = CountSet(s, o, n)
    BY <1>3, Kinds DEF Acquire, CountSet
  <2>2. s.count[o] \in Counts
    BY <1>3, StateTypes
  <2>3. n \in Counts
    BY <2>2, CountsFacts
  <2> HIDE DEF n
  <2>4. CountSet(s, o, n) \in KStates
    BY <1>3, <2>3, CountUpdate
  <2> QED
    BY <2>1, <2>4
<1>4. CASE o \in Events \cup Timers
  <2> DEFINE b == IF ResetOf[o] = "OneShot" THEN FALSE ELSE a.signaled[o]
  <2>1. Acquire(s, o, t) = SignalSet(a, o, b)
    BY <1>4, Kinds DEF Acquire, SignalSet, a
  <2>2. b \in BOOLEAN
    BY <1>1, <1>4 DEF KStates
  <2> HIDE DEF b
  <2>3. SignalSet(a, o, b) \in KStates
    BY <1>1, <1>4, <2>2, SignalUpdate
  <2> QED
    BY <2>1, <2>3
<1>5. CASE o \in Threads
  BY <1>1, <1>5, Kinds DEF Acquire, a
<1> QED
  BY <1>2, <1>3, <1>4, <1>5, ObjectKinds

LEMMA AcquireAllLoop ==
  ASSUME NEW s, s \in KStates, NEW objs \in Seq(Objects), NEW t \in Threads
  PROVE  \E g \in [0 .. Len(objs) -> KStates] :
           /\ g[0] = s /\ \A i \in 1 .. Len(objs) : g[i] = Acquire(g[i - 1], objs[i], t)
           /\ AcquireAll(s, objs, t) = g[Len(objs)]
<1> DEFINE n == Len(objs)
           Def(g) == g = [i \in 0 .. n |-> IF i = 0 THEN s ELSE Acquire(g[i - 1], objs[i], t)]
           step == [w \in (1 .. n) \X KStates |-> Acquire(w[2], objs[w[1]], t)]
           g == CHOOSE g : Def(g)
<1>1. n \in Nat /\ \A i \in 1 .. n : objs[i] \in Objects
  OBVIOUS
<1> HIDE DEF n
<1>2. \A w \in KStates, i \in 1 .. n : Acquire(w, objs[i], t) \in KStates
  BY <1>1, AcquireType
<1>3. step \in [(1 .. n) \X KStates -> KStates]
  BY <1>2
<1>4. \A w \in KStates, i \in 1 .. n : step[<<i, w>>] = Acquire(w, objs[i], t)
  OBVIOUS
<1> HIDE DEF step
<1>5. PICK f : IsLoop(f, n, KStates, s, step)
  BY <1>1, <1>3, LoopExists
<1>6. /\ f \in [0 .. n -> KStates]
      /\ f[0] = s /\ \A i \in 1 .. n : f[i] = step[<<i, f[i - 1]>>]
  BY <1>5 DEF IsLoop
<1>7. \A i \in 1 .. n : f[i] = Acquire(f[i - 1], objs[i], t)
  <2> TAKE i \in 1 .. n
  <2>1. f[i - 1] \in KStates
    BY <1>1, <1>6
  <2> QED
    BY <2>1, <1>4, <1>6
<1>8. Def(f)
  BY <1>1, <1>6, <1>7
<1>9. Def(g)
  BY <1>8
<1>10. AcquireAll(s, objs, t) = g[n]
  BY DEF AcquireAll, n
<1> HIDE DEF g
<1>11. g[0] = s /\ \A i \in 1 .. n : g[i] = Acquire(g[i - 1], objs[i], t)
  BY <1>1, <1>9
<1>12. g \in [0 .. n -> KStates]
  <2>1. \A i \in 0 .. n : g[i] \in KStates
    BY <1>1, <1>2, <1>11, LoopStays
  <2>2. g = [i \in 0 .. n |-> g[i]]
    BY <1>9
  <2> QED
    BY <2>1, <2>2
<1> QED
  BY <1>10, <1>11, <1>12 DEF n

-----------------------------------------------------------------------------
(* The lists of waiting threads. *)

SameButLists(s, u) ==
  /\ SameRest(s, u) /\ SameThreads(s, u) /\ SameOwners(s, u) /\ SameSignals(s, u)
  /\ u.crashed = s.crashed

ListSet(s, o, q) == [s EXCEPT !.waiters[o] = q]
PendingSet(s, t, M) == [s EXCEPT !.pending[t] = M]

LEMMA ListUpdate ==
  ASSUME NEW s, s \in KStates, NEW o \in Objects, NEW q \in Seq(Threads)
  PROVE  /\ ListSet(s, o, q) \in KStates /\ SameButLists(s, ListSet(s, o, q))
         /\ \A x \in Objects : ListSet(s, o, q).waiters[x] = IF x = o THEN q ELSE s.waiters[x]
         /\ ListSet(s, o, q).waitObjs = s.waitObjs /\ ListSet(s, o, q).pending = s.pending
         /\ ListSet(s, o, q).prio = s.prio /\ ListSet(s, o, q).mprio = s.mprio
         /\ ListSet(s, o, q).ready = s.ready /\ ListSet(s, o, q).levels = s.levels
<1> DEFINE u == ListSet(s, o, q)
           f == [s.waiters EXCEPT ![o] = q]
<1>1. f \in [Objects -> Seq(Threads)] /\ \A x \in Objects : f[x] = IF x = o THEN q ELSE s.waiters[x]
  BY DEF KStates
<1>2. u = [s EXCEPT !.waiters = f]
  BY DEF KStates, ListSet
<1> HIDE DEF f, u
<1>3. u \in KStates /\ u.waiters = f
  BY <1>1, <1>2 DEF KStates
<1>4. /\ SameButLists(s, u) /\ u.waitObjs = s.waitObjs /\ u.pending = s.pending
      /\ u.prio = s.prio /\ u.mprio = s.mprio /\ u.ready = s.ready /\ u.levels = s.levels
  BY <1>2 DEF KStates, SameButLists, SameRest, SameThreads, SameOwners, SameSignals
<1> QED
  BY <1>1, <1>3, <1>4 DEF u

LEMMA PendingUpdate ==
  ASSUME NEW s, s \in KStates, NEW t \in Threads, NEW M \in SUBSET Mutexes
  PROVE  /\ PendingSet(s, t, M) \in KStates /\ SameButLists(s, PendingSet(s, t, M))
         /\ \A y \in Threads : PendingSet(s, t, M).pending[y] = IF y = t THEN M ELSE s.pending[y]
         /\ PendingSet(s, t, M).waitObjs = s.waitObjs
         /\ PendingSet(s, t, M).waiters = s.waiters
         /\ PendingSet(s, t, M).prio = s.prio /\ PendingSet(s, t, M).mprio = s.mprio
         /\ PendingSet(s, t, M).ready = s.ready /\ PendingSet(s, t, M).levels = s.levels
<1> DEFINE u == PendingSet(s, t, M)
           f == [s.pending EXCEPT ![t] = M]
<1>1. f \in [Threads -> SUBSET Mutexes] /\ \A y \in Threads : f[y] = IF y = t THEN M ELSE s.pending[y]
  BY DEF KStates
<1>2. u = [s EXCEPT !.pending = f]
  BY DEF KStates, PendingSet
<1> HIDE DEF f, u
<1>3. u \in KStates /\ u.pending = f
  BY <1>1, <1>2 DEF KStates
<1>4. /\ SameButLists(s, u) /\ u.waitObjs = s.waitObjs /\ u.waiters = s.waiters
      /\ u.prio = s.prio /\ u.mprio = s.mprio /\ u.ready = s.ready /\ u.levels = s.levels
  BY <1>2 DEF KStates, SameButLists, SameRest, SameThreads, SameOwners, SameSignals
<1> QED
  BY <1>1, <1>3, <1>4 DEF u

(* A list was changed: q is the new one of o, and M the pending mutexes of t. *)
Relisted(s, u, o, t, q, M) ==
  /\ SameButLists(s, u) /\ u.waitObjs = s.waitObjs
  /\ \A x \in Objects : u.waiters[x] = IF x = o THEN q ELSE s.waiters[x]
  /\ \A y \in Threads : u.pending[y] = IF y = t THEN M ELSE s.pending[y]

(* The list of a mutex changes, and with it the priority of the mutex. *)
LEMMA RelistMutex ==
  ASSUME NEW s, s \in KStates, NEW o \in Mutexes, NEW t \in Threads, NEW q \in Seq(Threads),
         NEW M \in SUBSET Mutexes
  PROVE  LET v == PendingSet(ListSet(s, o, q), t, M)
             u == MutexUpdatePriority(v, o)
         IN  /\ u \in KStates /\ Relisted(s, u, o, t, q, M)
             /\ \A d : Sound(s, d) => Sound(u, d)
             /\ \A d, x, N : Sound(s, d) /\ NoInv(s, x, N) => NoInv(u, x, N)
<1> DEFINE a == ListSet(s, o, q)
           v == PendingSet(a, t, M)
           u == MutexUpdatePriority(v, o)
<1>0. o \in Objects
  BY DEF Objects
<1>1. /\ a \in KStates /\ SameButLists(s, a)
      /\ \A x \in Objects : a.waiters[x] = IF x = o THEN q ELSE s.waiters[x]
      /\ a.waitObjs = s.waitObjs /\ a.pending = s.pending
      /\ a.prio = s.prio /\ a.mprio = s.mprio /\ a.ready = s.ready /\ a.levels = s.levels
  BY <1>0, ListUpdate
<1> HIDE DEF a
<1>2. /\ v \in KStates /\ SameButLists(a, v) /\ v.waitObjs = a.waitObjs /\ v.waiters = a.waiters
      /\ \A y \in Threads : v.pending[y] = IF y = t THEN M ELSE a.pending[y]
      /\ v.prio = a.prio /\ v.mprio = a.mprio /\ v.ready = a.ready /\ v.levels = a.levels
  BY <1>1, PendingUpdate
<1> HIDE DEF v
<1>3. /\ u \in KStates /\ SameButPrio(v, u)
      /\ (Queue(v) => Queue(u)) /\ (Levelled(v) => Levelled(u))
      /\ \A d : Own(v, d) /\ Inherit(v) => Inherit(u)
      /\ \A d, x, N : Own(v, d) /\ (\A y \in Mutexes : y # o => NoInvAt(v, y, x, N))
                         => NoInv(u, x, N)
  BY <1>2, MutexUpdateFacts
<1> HIDE DEF u
<1>4. SameButLists(s, u) /\ u.waitObjs = s.waitObjs /\ u.waiters = v.waiters /\ u.pending = v.pending
  BY <1>1, <1>2, <1>3
     DEF SameButPrio, SameButLists, SameRest, SameThreads, SameLists, SameOwners, SameSignals
<1>5. Relisted(s, u, o, t, q, M)
  BY <1>1, <1>2, <1>4 DEF Relisted
<1>6. /\ v.status = s.status /\ v.timer = s.timer /\ v.callback = s.callback /\ v.nominal = s.nominal
      /\ v.held = s.held /\ v.lock = s.lock /\ v.holder = s.holder /\ v.crashed = s.crashed
      /\ v.prio = s.prio /\ v.mprio = s.mprio /\ v.ready = s.ready /\ v.levels = s.levels
  BY <1>1, <1>2 DEF SameButLists, SameRest, SameThreads, SameOwners
<1>7. ASSUME NEW d, Sound(s, d) PROVE Sound(u, d) /\ Own(v, d)
  <2>1. Own(v, d) /\ Inherit(v)
    BY <1>6, <1>7 DEF Sound, Own, Inherit, Alive, Best
  <2>2. Queue(v) /\ Levelled(v)
    BY <1>6, <1>7 DEF Sound, Queue, QueuesDistinct, QueuedRight, Levelled
  <2>3. Inherit(u) /\ Queue(u) /\ Levelled(u)
    BY <1>3, <2>1, <2>2
  <2>4. Own(u, d) /\ Timed(u) /\ ~u.crashed
    BY <1>4, <1>7 DEF Sound, Own, Alive, Timed, SameButLists, SameThreads, SameOwners
  <2> QED
    BY <1>3, <2>1, <2>3, <2>4 DEF Sound
<1>8. ASSUME NEW d, NEW x, NEW N, Sound(s, d), NoInv(s, x, N) PROVE NoInv(u, x, N)
  <2>1. \A y \in Mutexes : y # o => v.waiters[y] = s.waiters[y]
    BY <1>1, <1>2 DEF Objects
  <2>2. \A y \in Mutexes : y # o => NoInvAt(v, y, x, N)
    BY <1>6, <1>8, <2>1 DEF NoInv, NoInvAt, Pressing
  <2>3. Own(v, d)
    BY <1>7, <1>8
  <2> QED
    BY <1>3, <2>2, <2>3
<1> QED
  BY <1>3, <1>5, <1>7, <1>8 DEF u, v, a

(* What a change of lists keeps. *)
Calm(s, u) ==
  /\ \A d : Sound(s, d) => Sound(u, d)
  /\ \A d, x, N : Sound(s, d) /\ NoInv(s, x, N) => NoInv(u, x, N)

LEMMA RelistOther ==
  ASSUME NEW s, s \in KStates, NEW o \in Objects \ Mutexes, NEW t \in Threads,
         NEW q \in Seq(Threads)
  PROVE  /\ ListSet(s, o, q) \in KStates
         /\ Relisted(s, ListSet(s, o, q), o, t, q, s.pending[t]) /\ Calm(s, ListSet(s, o, q))
<1> DEFINE u == ListSet(s, o, q)
<1>1. /\ u \in KStates /\ SameButLists(s, u)
      /\ \A x \in Objects : u.waiters[x] = IF x = o THEN q ELSE s.waiters[x]
      /\ u.waitObjs = s.waitObjs /\ u.pending = s.pending
      /\ u.prio = s.prio /\ u.mprio = s.mprio /\ u.ready = s.ready /\ u.levels = s.levels
  BY ListUpdate
<1> HIDE DEF u
<1>2. Relisted(s, u, o, t, q, s.pending[t])
  BY <1>1 DEF Relisted
<1>3. ASSUME NEW d, Sound(s, d) PROVE Sound(u, d)
  <2>1. Own(u, d) /\ Inherit(u)
    BY <1>1, <1>3 DEF Sound, Own, Inherit, Alive, Best, SameButLists, SameRest, SameThreads,
                      SameOwners
  <2>2. Queue(u) /\ Levelled(u) /\ Timed(u)
    BY <1>1, <1>3 DEF Sound, Queue, QueuesDistinct, QueuedRight, Levelled, Timed,
                      SameButLists, SameThreads
  <2> QED
    BY <1>1, <1>3, <2>1, <2>2 DEF Sound, SameButLists
<1>4. \A x, N : NoInv(s, x, N) => NoInv(u, x, N)
  <2>1. \A m \in Mutexes : u.waiters[m] = s.waiters[m]
    BY <1>1 DEF Objects
  <2> QED
    BY <1>1, <2>1 DEF NoInv, NoInvAt, Pressing, SameButLists, SameThreads, SameOwners
<1> QED
  BY <1>1, <1>2, <1>3, <1>4 DEF Calm, u

LEMMA RemoveFacts ==
  ASSUME NEW s, s \in KStates, NEW o \in Objects, NEW t \in Threads
  PROVE  /\ RemoveWaitingThread(s, o, t) \in KStates /\ Calm(s, RemoveWaitingThread(s, o, t))
         /\ Relisted(s, RemoveWaitingThread(s, o, t), o, t,
                     Filter(s.waiters[o], Threads \ {t}), s.pending[t] \ {o})
<1> DEFINE q == Filter(s.waiters[o], Threads \ {t})
           a == ListSet(s, o, q)
           M == s.pending[t] \ {o}
           u == RemoveWaitingThread(s, o, t)
<1>1. s.waiters[o] \in Seq(Threads) /\ s.pending[t] \in SUBSET Mutexes
  BY StateTypes
<1>2. q \in Seq(Threads) /\ M \in SUBSET Mutexes
  BY <1>1, FilterFacts
<1>3. a.pending = s.pending
  BY <1>2, ListUpdate
<1>4. u = IF o \in Mutexes THEN MutexUpdatePriority(PendingSet(a, t, M), o) ELSE a
  BY <1>3 DEF RemoveWaitingThread, ListSet, PendingSet
<1> HIDE DEF q, M, u
<1>5. CASE o \in Mutexes
  <2> DEFINE b == MutexUpdatePriority(PendingSet(a, t, M), o)
  <2>1. /\ b \in KStates /\ Relisted(s, b, o, t, q, M)
        /\ \A d : Sound(s, d) => Sound(b, d)
        /\ \A d, x, N : Sound(s, d) /\ NoInv(s, x, N) => NoInv(b, x, N)
    BY <1>2, <1>5, RelistMutex
  <2> HIDE DEF a, b
  <2>2. u = b
    BY <1>4, <1>5 DEF b
  <2> QED
    BY <2>1, <2>2 DEF Calm, u, q, M
<1>6. CASE o \notin Mutexes
  <2>1. a \in KStates /\ Relisted(s, a, o, t, q, s.pending[t]) /\ Calm(s, a)
    BY <1>2, <1>6, RelistOther
  <2>2. M = s.pending[t]
    BY <1>1, <1>6 DEF M
  <2> QED
    BY <1>4, <1>6, <2>1, <2>2 DEF u, q, M
<1> QED
  BY <1>5, <1>6

LEMMA ContainsIs ==
  ASSUME NEW A, NEW q \in Seq(A), NEW x
  PROVE  Contains(q, x) <=> x \in ToSet(q)
<1>1. DOMAIN q = 1 .. Len(q)
  OBVIOUS
<1> QED
  BY <1>1, Zenon DEF Contains, ToSet

LEMMA AddFacts ==
  ASSUME NEW s, s \in KStates, NEW o \in Objects, NEW t \in Threads
  PROVE  /\ AddWaitingThread(s, o, t) \in KStates /\ Calm(s, AddWaitingThread(s, o, t))
         /\ Relisted(s, AddWaitingThread(s, o, t), o, t,
                     IF t \in ToSet(s.waiters[o]) THEN s.waiters[o] ELSE Append(s.waiters[o], t),
                     s.pending[t] \cup (Mutexes \cap {o}))
<1> DEFINE q == IF t \in ToSet(s.waiters[o]) THEN s.waiters[o] ELSE Append(s.waiters[o], t)
           a == ListSet(s, o, q)
           M == s.pending[t] \cup (Mutexes \cap {o})
           u == AddWaitingThread(s, o, t)
<1>1. s.waiters[o] \in Seq(Threads) /\ s.pending[t] \in SUBSET Mutexes
  BY StateTypes
<1>2. q \in Seq(Threads) /\ M \in SUBSET Mutexes
  BY <1>1, AppendFacts
<1>3. a.pending = s.pending
  <2> HIDE DEF q
  <2> QED
    BY <1>2, ListUpdate
<1> DEFINE w == IF Contains(s.waiters[o], t) THEN s ELSE [s EXCEPT !.waiters[o] = Append(@, t)]
<1>4. w = a
  <2>1. Contains(s.waiters[o], t) <=> t \in ToSet(s.waiters[o])
    BY <1>1, ContainsIs
  <2>2. ListSet(s, o, s.waiters[o]) = s
    BY DEF ListSet, KStates
  <2> QED
    BY <2>1, <2>2 DEF ListSet
<1>5. u = IF o \in Mutexes THEN MutexUpdatePriority(PendingSet(a, t, a.pending[t] \cup {o}), o) ELSE a
  <2>1. u = IF o \in Mutexes THEN MutexUpdatePriority(PendingSet(w, t, w.pending[t] \cup {o}), o)
            ELSE w
    BY DEF AddWaitingThread, PendingSet
  <2> HIDE DEF w, a, u
  <2> QED
    BY <1>4, <2>1
<1> HIDE DEF q, a, M, u
<1>6. CASE o \in Mutexes
  <2> DEFINE b == MutexUpdatePriority(PendingSet(a, t, M), o)
  <2>1. /\ b \in KStates /\ Relisted(s, b, o, t, q, M)
        /\ \A d : Sound(s, d) => Sound(b, d)
        /\ \A d, x, N : Sound(s, d) /\ NoInv(s, x, N) => NoInv(b, x, N)
    BY <1>2, <1>6, RelistMutex DEF a
  <2> HIDE DEF b
  <2>2. u = b
    BY <1>3, <1>5, <1>6 DEF b, M
  <2> QED
    BY <2>1, <2>2 DEF Calm, u, q, M
<1>7. CASE o \notin Mutexes
  <2>1. a \in KStates /\ Relisted(s, a, o, t, q, s.pending[t]) /\ Calm(s, a)
    BY <1>2, <1>7, RelistOther DEF a
  <2>2. M = s.pending[t]
    BY <1>7 DEF M
  <2> QED
    BY <1>5, <1>7, <2>1, <2>2 DEF u, q, M
<1> QED
  BY <1>6, <1>7

LEMMA LeaveLoop ==
  ASSUME NEW s, s \in KStates, NEW t \in Threads
  PROVE  LET objs == s.waitObjs[t]
         IN  \E g \in [0 .. Len(objs) -> KStates] :
               /\ g[0] = s
               /\ \A i \in 1 .. Len(objs) : g[i] = RemoveWaitingThread(g[i - 1], objs[i], t)
               /\ LeaveObjects(s, t) = [g[Len(objs)] EXCEPT !.waitObjs[t] = <<>>]
<1> DEFINE objs == s.waitObjs[t]
           n == Len(objs)
           Def(g) == g = [i \in 0 .. n |-> IF i = 0 THEN s ELSE RemoveWaitingThread(g[i - 1], objs[i], t)]
           step == [w \in (1 .. n) \X KStates |-> RemoveWaitingThread(w[2], objs[w[1]], t)]
           g == CHOOSE g : Def(g)
<1>0. objs \in Seq(Objects)
  BY StateTypes
<1>10. LeaveObjects(s, t) = [g[n] EXCEPT !.waitObjs[t] = <<>>]
  BY DEF LeaveObjects
<1> HIDE DEF objs
<1>1. n \in Nat /\ \A i \in 1 .. n : objs[i] \in Objects
  BY <1>0
<1> HIDE DEF n
<1>2. \A w \in KStates, i \in 1 .. n : RemoveWaitingThread(w, objs[i], t) \in KStates
  BY <1>1, RemoveFacts
<1>3. step \in [(1 .. n) \X KStates -> KStates]
  BY <1>2
<1>4. \A w \in KStates, i \in 1 .. n : step[<<i, w>>] = RemoveWaitingThread(w, objs[i], t)
  OBVIOUS
<1> HIDE DEF step
<1>5. PICK f : IsLoop(f, n, KStates, s, step)
  BY <1>1, <1>3, LoopExists
<1>6. /\ f \in [0 .. n -> KStates]
      /\ f[0] = s /\ \A i \in 1 .. n : f[i] = step[<<i, f[i - 1]>>]
  BY <1>5 DEF IsLoop
<1>7. \A i \in 1 .. n : f[i] = RemoveWaitingThread(f[i - 1], objs[i], t)
  <2> TAKE i \in 1 .. n
  <2>1. f[i - 1] \in KStates
    BY <1>1, <1>6
  <2> QED
    BY <2>1, <1>4, <1>6
<1>8. Def(f)
  BY <1>1, <1>6, <1>7
<1>9. Def(g)
  BY <1>8
<1> HIDE DEF g
<1>11. g[0] = s /\ \A i \in 1 .. n : g[i] = RemoveWaitingThread(g[i - 1], objs[i], t)
  BY <1>1, <1>9
<1>12. g \in [0 .. n -> KStates]
  <2>1. \A i \in 0 .. n : g[i] \in KStates
    BY <1>1, <1>2, <1>11, LoopStays
  <2>2. g = [i \in 0 .. n |-> g[i]]
    BY <1>9
  <2> QED
    BY <2>1, <2>2
<1> QED
  BY <1>10, <1>11, <1>12 DEF n, objs

(* The two sides of every wait agree; d alone may have ended in its wait. *)
Waits(s, d) ==
  /\ \A t \in Threads, o \in Objects : t \in ToSet(s.waiters[o]) <=> o \in ToSet(s.waitObjs[t])
  /\ \A o \in Objects : Distinct(s.waiters[o])
  /\ \A t \in Threads : /\ Distinct(s.waitObjs[t]) /\ t \notin ToSet(s.waitObjs[t])
                        /\ s.pending[t] = Mutexes \cap ToSet(s.waitObjs[t])
                        /\ t # d /\ s.waitObjs[t] # <<>> => s.status[t] \in WaitSynch

(* Thread t was taken off the lists of the objects F. *)
ShorterBy(q, p, t) ==
  /\ ToSet(q) = ToSet(p) \ {t} /\ (Distinct(p) => Distinct(q)) /\ Len(q) <= Len(p)
  /\ t \in ToSet(p) => Len(q) < Len(p)

LeftLists(s, w, t, F) ==
  /\ SameButLists(s, w) /\ Calm(s, w)
  /\ \A x \in Objects : /\ x \in F => ShorterBy(w.waiters[x], s.waiters[x], t)
                        /\ x \notin F => w.waiters[x] = s.waiters[x]
  /\ \A y \in Threads : w.pending[y] = IF y = t THEN s.pending[t] \ F ELSE s.pending[y]

LEMMA ShorterFacts ==
  ASSUME NEW q \in Seq(Threads), NEW t \in Threads
  PROVE  /\ ShorterBy(Filter(q, Threads \ {t}), q, t)
         /\ \A p \in Seq(Threads) : ShorterBy(q, p, t) => ShorterBy(Filter(q, Threads \ {t}), p, t)
<1> DEFINE r == Filter(q, Threads \ {t})
<1>1. /\ r \in Seq(Threads) /\ ToSet(r) = ToSet(q) \cap (Threads \ {t})
      /\ (Distinct(q) => Distinct(r)) /\ Len(r) <= Len(q)
      /\ ~(ToSet(q) \subseteq Threads \ {t}) => Len(r) < Len(q)
  BY FilterFacts
<1> HIDE DEF r
<1>2. ToSet(q) \subseteq Threads /\ Len(q) \in Nat /\ Len(r) \in Nat
  BY <1>1 DEF ToSet
<1>3. ShorterBy(r, q, t)
  BY <1>1, <1>2 DEF ShorterBy
<1>4. ASSUME NEW p \in Seq(Threads), ShorterBy(q, p, t) PROVE ShorterBy(r, p, t)
  <2>1. Len(p) \in Nat
    OBVIOUS
  <2> QED
    BY <1>2, <1>3, <1>4, <2>1 DEF ShorterBy
<1> QED
  BY <1>3, <1>4 DEF r

LEMMA LeftStep ==
  ASSUME NEW s, s \in KStates, NEW w, w \in KStates, NEW t \in Threads, NEW o \in Objects, NEW F,
         LeftLists(s, w, t, F), NEW u, u = RemoveWaitingThread(w, o, t)
  PROVE  LeftLists(s, u, t, F \cup {o}) /\ u.waitObjs = w.waitObjs
<1> DEFINE q == Filter(w.waiters[o], Threads \ {t})
<1>1. Calm(w, u) /\ Relisted(w, u, o, t, q, w.pending[t] \ {o})
  BY RemoveFacts
<1>2. SameButLists(s, u)
  BY <1>1 DEF LeftLists, Relisted, SameButLists, SameRest, SameThreads, SameOwners, SameSignals
<1>3. Calm(s, u)
  BY <1>1 DEF LeftLists, Calm
<1>4. w.waiters[o] \in Seq(Threads) /\ s.waiters[o] \in Seq(Threads)
  BY StateTypes
<1>5. ShorterBy(q, w.waiters[o], t) /\ (ShorterBy(w.waiters[o], s.waiters[o], t) => ShorterBy(q, s.waiters[o], t))
  BY <1>4, ShorterFacts
<1> HIDE DEF q
<1>6. ASSUME NEW x \in Objects
      PROVE  /\ x \in F \cup {o} => ShorterBy(u.waiters[x], s.waiters[x], t)
             /\ x \notin F \cup {o} => u.waiters[x] = s.waiters[x]
  BY <1>1, <1>5 DEF LeftLists, Relisted
<1>7. \A y \in Threads : u.pending[y] = IF y = t THEN s.pending[t] \ (F \cup {o}) ELSE s.pending[y]
  BY <1>1 DEF LeftLists, Relisted
<1> QED
  BY <1>1, <1>2, <1>3, <1>6, <1>7 DEF LeftLists, Relisted

WaitSet(s, t, q) == [s EXCEPT !.waitObjs[t] = q]

LEMMA WaitUpdate ==
  ASSUME NEW s, s \in KStates, NEW t \in Threads, NEW q \in Seq(Objects)
  PROVE  /\ WaitSet(s, t, q) \in KStates /\ SameButLists(s, WaitSet(s, t, q))
         /\ WaitSet(s, t, q).waiters = s.waiters /\ WaitSet(s, t, q).pending = s.pending
         /\ WaitSet(s, t, q).waitObjs = [s.waitObjs EXCEPT ![t] = q]
         /\ Calm(s, WaitSet(s, t, q))
<1> DEFINE u == WaitSet(s, t, q)
           f == [s.waitObjs EXCEPT ![t] = q]
<1>1. f \in [Threads -> Seq(Objects)]
  BY DEF KStates
<1>2. u = [s EXCEPT !.waitObjs = f]
  BY DEF KStates, WaitSet
<1> HIDE DEF f, u
<1>3. u \in KStates /\ u.waitObjs = f
  BY <1>1, <1>2 DEF KStates
<1>4. /\ SameButLists(s, u) /\ u.waiters = s.waiters /\ u.pending = s.pending
      /\ u.prio = s.prio /\ u.mprio = s.mprio /\ u.ready = s.ready /\ u.levels = s.levels
  BY <1>2 DEF KStates, SameButLists, SameRest, SameThreads, SameOwners, SameSignals
<1>5. ASSUME NEW d, Sound(s, d) PROVE Sound(u, d)
  <2>1. Own(u, d) /\ Inherit(u)
    BY <1>4, <1>5 DEF Sound, Own, Inherit, Alive, Best, SameButLists, SameRest, SameThreads,
                      SameOwners
  <2>2. Queue(u) /\ Levelled(u) /\ Timed(u)
    BY <1>4, <1>5 DEF Sound, Queue, QueuesDistinct, QueuedRight, Levelled, Timed,
                      SameButLists, SameThreads
  <2> QED
    BY <1>3, <1>4, <1>5, <2>1, <2>2 DEF Sound, SameButLists
<1>6. \A x, N : NoInv(s, x, N) => NoInv(u, x, N)
  BY <1>4 DEF NoInv, NoInvAt, Pressing, SameButLists, SameThreads, SameOwners
<1> QED
  BY <1>3, <1>4, <1>5, <1>6 DEF Calm, u, f

(* Thread t left every object it waited for. *)
Left(s, u, t) ==
  /\ SameButLists(s, u) /\ Calm(s, u)
  /\ \A o \in Objects : /\ o \in ToSet(s.waitObjs[t]) => ShorterBy(u.waiters[o], s.waiters[o], t)
                        /\ o \notin ToSet(s.waitObjs[t]) => u.waiters[o] = s.waiters[o]
  /\ \A y \in Threads : u.pending[y] = IF y = t THEN s.pending[t] \ ToSet(s.waitObjs[t])
                                       ELSE s.pending[y]
  /\ \A y \in Threads : u.waitObjs[y] = IF y = t THEN <<>> ELSE s.waitObjs[y]

LEMMA LeaveFacts ==
  ASSUME NEW s, s \in KStates, NEW t \in Threads
  PROVE  LeaveObjects(s, t) \in KStates /\ Left(s, LeaveObjects(s, t), t)
<1> DEFINE objs == s.waitObjs[t]
           n == Len(objs)
           u == LeaveObjects(s, t)
<1>0. PICK g \in [0 .. n -> KStates] :
        /\ g[0] = s
        /\ \A i \in 1 .. n : g[i] = RemoveWaitingThread(g[i - 1], objs[i], t)
        /\ LeaveObjects(s, t) = [g[n] EXCEPT !.waitObjs[t] = <<>>]
  BY LeaveLoop
<1>1. objs \in Seq(Objects)
  BY StateTypes
<1>2. n \in Nat /\ DOMAIN objs = 1 .. n /\ \A i \in 1 .. n : objs[i] \in Objects
  BY <1>1
<1> HIDE DEF objs, n
<1> DEFINE First(i) == {objs[j] : j \in 1 .. i}
           Good(w, i) == LeftLists(s, w, t, First(i)) /\ w.waitObjs = s.waitObjs
           T == {i \in 0 .. n : Good(g[i], i)}
<1>3. 0 \in T
  <2>1. First(0) = {}
    OBVIOUS
  <2> HIDE DEF First
  <2>2. SameButLists(s, s) /\ Calm(s, s)
    BY DEF SameButLists, SameRest, SameThreads, SameOwners, SameSignals, Calm
  <2>3. Good(s, 0)
    BY <2>1, <2>2 DEF LeftLists
  <2> HIDE DEF Good
  <2> QED
    BY <1>0, <1>2, <2>3
<1>4. ASSUME NEW i \in 1 .. n, i - 1 \in T PROVE i \in T
  <2>1. /\ Good(g[i - 1], i - 1) /\ g[i - 1] \in KStates /\ objs[i] \in Objects
        /\ g[i] = RemoveWaitingThread(g[i - 1], objs[i], t)
    BY <1>0, <1>2, <1>4
  <2>2. First(i) = First(i - 1) \cup {objs[i]}
    <3>1. 1 .. i = (1 .. i - 1) \cup {i}
      BY <1>2
    <3> QED
      BY <3>1
  <2> HIDE DEF First
  <2>3. LeftLists(s, g[i - 1], t, First(i - 1)) /\ g[i - 1].waitObjs = s.waitObjs
    BY <2>1
  <2>4. LeftLists(s, g[i], t, First(i - 1) \cup {objs[i]}) /\ g[i].waitObjs = g[i - 1].waitObjs
    <3> DEFINE w == g[i - 1]
               F == First(i - 1)
               o == objs[i]
    <3>1. w \in KStates /\ o \in Objects /\ LeftLists(s, w, t, F) /\ g[i] = RemoveWaitingThread(w, o, t)
      BY <2>1, <2>3
    <3> HIDE DEF w, F, o
    <3>2. LeftLists(s, g[i], t, F \cup {o}) /\ g[i].waitObjs = w.waitObjs
      BY <3>1, LeftStep
    <3> QED
      BY <3>2 DEF w, F, o
  <2>5. Good(g[i], i)
    BY <2>2, <2>3, <2>4
  <2> HIDE DEF Good
  <2> QED
    BY <2>5
<1> HIDE DEF T
<1>5. n \in T
  BY <1>2, <1>3, <1>4, UpTo DEF Inductive
<1>6. Good(g[n], n) /\ g[n] \in KStates
  BY <1>2, <1>5 DEF T
<1>7. First(n) = ToSet(objs)
  BY <1>2 DEF ToSet
<1> HIDE DEF First
<1> DEFINE w == g[n]
<1>8. LeftLists(s, w, t, ToSet(objs)) /\ w.waitObjs = s.waitObjs /\ w \in KStates
  BY <1>6, <1>7
<1>9. u = WaitSet(w, t, <<>>)
  BY <1>0 DEF WaitSet
<1> HIDE DEF w
<1>a. <<>> \in Seq(Objects)
  OBVIOUS
<1>b. /\ WaitSet(w, t, <<>>) \in KStates /\ SameButLists(w, WaitSet(w, t, <<>>))
      /\ WaitSet(w, t, <<>>).waiters = w.waiters /\ WaitSet(w, t, <<>>).pending = w.pending
      /\ WaitSet(w, t, <<>>).waitObjs = [w.waitObjs EXCEPT ![t] = <<>>]
      /\ Calm(w, WaitSet(w, t, <<>>))
  BY <1>8, <1>a, WaitUpdate
<1>10. /\ u \in KStates /\ SameButLists(w, u) /\ u.waiters = w.waiters /\ u.pending = w.pending
       /\ u.waitObjs = [w.waitObjs EXCEPT ![t] = <<>>] /\ Calm(w, u)
  BY <1>9, <1>b
<1> HIDE DEF u
<1>11. SameButLists(s, u)
  BY <1>8, <1>10 DEF LeftLists, SameButLists, SameRest, SameThreads, SameOwners, SameSignals
<1>12. Calm(s, u)
  BY <1>8, <1>10 DEF LeftLists, Calm
<1>13. \A y \in Threads : u.waitObjs[y] = IF y = t THEN <<>> ELSE s.waitObjs[y]
  BY <1>8, <1>10 DEF KStates
<1>14. Left(s, u, t)
  BY <1>8, <1>10, <1>11, <1>12, <1>13 DEF Left, LeftLists, objs
<1> QED
  BY <1>10, <1>14 DEF u

LEMMA LeftWaits ==
  ASSUME NEW s, s \in KStates, NEW u, u \in KStates, NEW t \in Threads, Left(s, u, t),
         NEW d, Waits(s, d)
  PROVE  /\ Waits(u, d) /\ (t = d => Waits(u, NoThread))
         /\ \A o \in Objects : ToSet(u.waiters[o]) = ToSet(s.waiters[o]) \ {t}
<1>1. \A o \in Objects : /\ ToSet(u.waiters[o]) = ToSet(s.waiters[o]) \ {t}
                         /\ Distinct(u.waiters[o])
  BY DEF Left, Waits, ShorterBy
<1>2. ToSet(<<>>) = {} /\ Distinct(<<>>)
  BY DEF ToSet, Distinct
<1>3. \A y \in Threads : u.waitObjs[y] = IF y = t THEN <<>> ELSE s.waitObjs[y]
  BY DEF Left
<1>4. \A y \in Threads, o \in Objects :
        y \in ToSet(u.waiters[o]) <=> o \in ToSet(u.waitObjs[y])
  BY <1>1, <1>2, <1>3 DEF Waits
<1>5. \A y \in Threads : /\ Distinct(u.waitObjs[y]) /\ y \notin ToSet(u.waitObjs[y])
                         /\ u.pending[y] = Mutexes \cap ToSet(u.waitObjs[y])
  BY <1>2, <1>3 DEF Waits, Left
<1>6. u.status = s.status
  BY DEF Left, SameButLists, SameThreads
<1>7. \A y \in Threads : /\ y # d /\ u.waitObjs[y] # <<>> => u.status[y] \in WaitSynch
                         /\ t = d /\ u.waitObjs[y] # <<>> => u.status[y] \in WaitSynch
  BY <1>3, <1>6 DEF Waits
<1> QED
  BY <1>1, <1>4, <1>5, <1>7 DEF Waits

-----------------------------------------------------------------------------
(* Waking up. *)

Readied(s, t) == [s EXCEPT !.callback[t] = FALSE, !.timer[t] = 0, !.status[t] = "Ready"]

LEMMA ReadiedFacts ==
  ASSUME NEW s, s \in KStates, NEW t \in Threads
  PROVE  /\ Readied(s, t) \in KStates
         /\ SameRest(s, Readied(s, t)) /\ SameLists(s, Readied(s, t))
         /\ SameOwners(s, Readied(s, t)) /\ SameSignals(s, Readied(s, t))
         /\ Readied(s, t).prio = s.prio /\ Readied(s, t).mprio = s.mprio
         /\ Readied(s, t).ready = s.ready /\ Readied(s, t).levels = s.levels
         /\ Readied(s, t).crashed = s.crashed
         /\ \A y \in Threads :
              /\ Readied(s, t).status[y] = IF y = t THEN "Ready" ELSE s.status[y]
              /\ Readied(s, t).timer[y] = IF y = t THEN 0 ELSE s.timer[y]
              /\ Readied(s, t).callback[y] = IF y = t THEN FALSE ELSE s.callback[y]
<1> DEFINE u == Readied(s, t)
           f == [s.callback EXCEPT ![t] = FALSE]
           g == [s.timer EXCEPT ![t] = 0]
           h == [s.status EXCEPT ![t] = "Ready"]
<1>1. f \in [Threads -> BOOLEAN] /\ g \in [Threads -> Nat] /\ h \in [Threads -> Status]
  BY DEF KStates, Status
<1>2. \A y \in Threads : /\ h[y] = IF y = t THEN "Ready" ELSE s.status[y]
                         /\ g[y] = IF y = t THEN 0 ELSE s.timer[y]
                         /\ f[y] = IF y = t THEN FALSE ELSE s.callback[y]
  BY DEF KStates
<1>3. u = [s EXCEPT !.callback = f, !.timer = g, !.status = h]
  BY DEF KStates, Readied
<1> HIDE DEF f, g, h, u
<1>4. u \in KStates /\ u.callback = f /\ u.timer = g /\ u.status = h
  BY <1>1, <1>3 DEF KStates
<1>5. /\ SameRest(s, u) /\ SameLists(s, u) /\ SameOwners(s, u) /\ SameSignals(s, u)
      /\ u.prio = s.prio /\ u.mprio = s.mprio /\ u.ready = s.ready /\ u.levels = s.levels
      /\ u.crashed = s.crashed
  BY <1>3 DEF KStates, SameRest, SameLists, SameOwners, SameSignals
<1> QED
  BY <1>2, <1>4, <1>5 DEF u

LEMMA ResumeType ==
  ASSUME NEW s, s \in KStates, NEW t \in Threads
  PROVE  ResumeFromWait(s, t) \in KStates
<1> DEFINE a == Asserted(s, s.waitObjs[t] = <<>>)
<1>1. a \in KStates
  BY AssertedType
<1>2. ResumeFromWait(s, t) = CASE s.status[t] \in {"Running", "Dead"} -> a
                               [] s.status[t] = "Ready" -> Asserted(a, ~s.callback[t])
                               [] OTHER -> PushBack(Readied(a, t), t)
  BY DEF ResumeFromWait, Readied
<1> HIDE DEF a
<1>3. Asserted(a, ~s.callback[t]) \in KStates
  BY <1>1, AssertedType
<1>4. Readied(a, t) \in KStates
  BY <1>1, ReadiedFacts
<1>5. PushBack(Readied(a, t), t) \in KStates
  BY <1>4, PushBackFacts
<1> QED
  BY <1>1, <1>2, <1>3, <1>5

(* Thread t became ready. *)
Resumed(s, u, t) ==
  /\ SameRest(s, u) /\ SameLists(s, u) /\ SameOwners(s, u) /\ SameSignals(s, u)
  /\ u.prio = s.prio /\ u.mprio = s.mprio
  /\ \A y \in Threads : u.status[y] = IF y = t THEN "Ready" ELSE s.status[y]

LEMMA ResumeFacts ==
  ASSUME NEW s, NEW d, Sound(s, d), NEW t \in Threads, s.waitObjs[t] = <<>>,
         s.status[t] \in WaitSynch \cup {"WaitSleep"}
  PROVE  /\ Sound(ResumeFromWait(s, t), d) /\ Resumed(s, ResumeFromWait(s, t), t)
         /\ \A x, M : NoInv(s, x, M) => NoInv(ResumeFromWait(s, t), x, M)
<1> DEFINE u == ResumeFromWait(s, t)
           v == Readied(s, t)
<1>0. s \in KStates
  BY DEF Sound
<1>1. u = PushBack(v, t)
  <2>1. Asserted(s, s.waitObjs[t] = <<>>) = s
    BY DEF Asserted
  <2>2. s.status[t] \notin {"Running", "Dead"} /\ s.status[t] # "Ready"
    BY DEF WaitSynch
  <2> QED
    BY <2>1, <2>2 DEF ResumeFromWait, Readied
<1>2. /\ v \in KStates
      /\ SameRest(s, v) /\ SameLists(s, v) /\ SameOwners(s, v) /\ SameSignals(s, v)
      /\ v.prio = s.prio /\ v.mprio = s.mprio /\ v.ready = s.ready /\ v.levels = s.levels
      /\ v.crashed = s.crashed
      /\ \A y \in Threads : /\ v.status[y] = IF y = t THEN "Ready" ELSE s.status[y]
                            /\ v.timer[y] = IF y = t THEN 0 ELSE s.timer[y]
                            /\ v.callback[y] = IF y = t THEN FALSE ELSE s.callback[y]
  BY <1>0, ReadiedFacts
<1> HIDE DEF v, u
<1>3. /\ PushBack(v, t) \in KStates /\ SameButPrio(v, PushBack(v, t))
      /\ PushBack(v, t).prio = v.prio /\ PushBack(v, t).mprio = v.mprio
      /\ PushBack(v, t).levels = v.levels
      /\ QueueBut(v, t) /\ v.status[t] = "Ready" => Queue(PushBack(v, t))
  BY <1>2, PushBackFacts
<1>4. /\ u \in KStates /\ SameButPrio(v, u) /\ u.prio = v.prio /\ u.mprio = v.mprio
      /\ u.levels = v.levels /\ (QueueBut(v, t) /\ v.status[t] = "Ready" => Queue(u))
  BY <1>1, <1>3
<1>5. Resumed(s, u, t)
  BY <1>2, <1>4 DEF Resumed, SameButPrio, SameRest, SameThreads, SameLists, SameOwners, SameSignals
<1>6. Queue(u)
  <2>1. s.status[t] # "Ready" /\ Queue(s)
    BY DEF WaitSynch, Sound
  <2>a. QueuesDistinct(v) /\ NotQueued(v, t)
    BY <1>2, <2>1 DEF Queue, QueuesDistinct, QueuedRight, NotQueued
  <2>b. ASSUME NEW x \in Threads, x # t PROVE QueuedRight(v, x)
    <3>1. v.status[x] = s.status[x] /\ v.prio = s.prio /\ v.ready = s.ready
      BY <1>2, <2>b
    <3>2. QueuedRight(s, x)
      BY <2>1 DEF Queue
    <3> QED
      BY <3>1, <3>2 DEF QueuedRight
  <2>2. QueueBut(v, t)
    BY <2>a, <2>b DEF QueueBut
  <2> QED
    BY <1>2, <1>4, <2>2
<1>7. Levelled(u)
  <2>1. s.status[t] # "Dormant" /\ Levelled(s)
    BY DEF WaitSynch, Sound
  <2> QED
    BY <1>2, <1>4, <1>5, <2>1 DEF Levelled, Resumed
<1>8. Timed(u)
  <2>1. Timed(s) /\ u.timer = v.timer /\ u.callback = v.callback
    BY <1>4 DEF Sound, SameButPrio, SameThreads
  <2>2. ASSUME NEW y \in Threads
        PROVE  /\ u.timer[y] <= 1
               /\ u.status[y] \in {"Ready", "Running", "Dormant"}
                    => u.timer[y] = 0 /\ ~u.callback[y]
               /\ u.status[y] = "Dead" => u.timer[y] = 0
    <3>1. CASE y = t
      <4>1. u.timer[t] = 0 /\ u.callback[t] = FALSE
        BY <1>2, <2>1
      <4> QED
        BY <3>1, <4>1
    <3>2. CASE y # t
      <4>1. u.timer[y] = s.timer[y] /\ u.callback[y] = s.callback[y] /\ u.status[y] = s.status[y]
        BY <1>2, <1>5, <2>1, <3>2 DEF Resumed
      <4> QED
        BY <2>1, <4>1 DEF Timed
    <3> QED
      BY <3>1, <3>2
  <2> QED
    BY <2>2 DEF Timed
<1>9. s.status[t] \notin {"Dead", "Dormant"} /\ \A y \in Threads : Alive(u, y) <=> Alive(s, y)
  BY <1>5 DEF Resumed, Alive, WaitSynch
<1>10. Own(u, d)
  <2>1. d \in Threads => u.status[d] = "Dead"
    BY <1>5, <1>9 DEF Own, Sound, Resumed
  <2> QED
    BY <1>5, <1>9, <2>1 DEF Own, Sound, Resumed, SameOwners
<1>11. Inherit(u)
  BY <1>5, <1>9 DEF Inherit, Sound, Resumed, SameOwners, SameRest, Best
<1>12. ~u.crashed
  BY <1>2, <1>4 DEF SameButPrio, Sound
<1>13. \A x, M : NoInv(s, x, M) => NoInv(u, x, M)
  BY <1>5 DEF NoInv, NoInvAt, Pressing, Resumed, SameLists, SameOwners
<1> QED
  BY <1>4, <1>5, <1>6, <1>7, <1>8, <1>10, <1>11, <1>12, <1>13 DEF Sound, u

-----------------------------------------------------------------------------
(* AcquireAll: the objects of a list are all free and each is there once. *)

AllAcquired(s, u, d, t, objs) ==
  /\ Sound(u, d) /\ Takes(s, u, t)
  /\ (\A m \in Mutexes \cap ToSet(objs) : FairTo(s, m, t))
       => \A x, M : NoInv(s, x, M) => NoInv(u, x, M)

LEMMA FairStays ==
  ASSUME NEW s, NEW u, NEW t \in Threads, Takes(s, u, t), NEW m \in Mutexes, FairTo(s, m, t),
         s \in KStates, u \in KStates
  PROVE  FairTo(u, m, t)
<1> SUFFICES ASSUME u.holder[m] = NoThread, NEW y \in ToSet(u.waiters[m]),
                    y # t, u.status[y] = "WaitSynchAny", u.held[y] = {}
             PROVE  u.prio[t] <= u.prio[y]
  BY DEF FairTo
<1>1. m \in Objects
  BY DEF Objects
<1>2. y \in Threads
  BY <1>1, StateTypes DEF ToSet
<1>3. s.holder[m] = NoThread
  BY StateTypes, Kinds DEF Takes
<1> QED
  BY <1>2, <1>3 DEF FairTo, Takes, SameThreads, SameLists

LEMMA AcquireAllFacts ==
  ASSUME NEW s, NEW d, Sound(s, d), NEW objs \in Seq(Objects), Distinct(objs),
         NEW t \in Threads, t # d, Alive(s, t),
         \A i \in 1 .. Len(objs) : ~ShouldWait(s, objs[i], t)
  PROVE  AllAcquired(s, AcquireAll(s, objs, t), d, t, objs)
<1> DEFINE n == Len(objs)
           F == \A m \in Mutexes \cap ToSet(objs) : FairTo(s, m, t)
<1>0. s \in KStates
  BY DEF Sound
<1>1. PICK g \in [0 .. n -> KStates] :
        /\ g[0] = s /\ \A i \in 1 .. n : g[i] = Acquire(g[i - 1], objs[i], t)
        /\ AcquireAll(s, objs, t) = g[n]
  BY <1>0, AcquireAllLoop
<1>2. n \in Nat /\ DOMAIN objs = 1 .. n /\ \A i \in 1 .. n : objs[i] \in Objects /\ objs[i] \in ToSet(objs)
  BY DEF ToSet
<1>3. \A i, j \in 1 .. n : objs[i] = objs[j] => i = j
  BY <1>2 DEF Distinct
<1> HIDE DEF n
<1> DEFINE Good(w, i) == /\ Sound(w, d) /\ Takes(s, w, t)
                         /\ \A x, M : F /\ NoInv(s, x, M) => NoInv(w, x, M)
                         /\ \A j \in 1 .. n : j > i => ~ShouldWait(w, objs[j], t)
           T == {i \in 0 .. n : Good(g[i], i)}
<1>4. 0 \in T
  <2>1. Takes(s, s, t)
    BY DEF Takes, SameRest, SameThreads, SameLists
  <2>2. Good(s, 0)
    BY <2>1, <1>2 DEF n
  <2> HIDE DEF Good
  <2> QED
    BY <1>1, <1>2, <2>2
<1>5. ASSUME NEW i \in 1 .. n, i - 1 \in T PROVE i \in T
  <2> DEFINE w == g[i - 1]
             o == objs[i]
             u == g[i]
  <2>1. Good(w, i - 1) /\ w \in KStates /\ o \in Objects /\ u = Acquire(w, o, t) /\ u \in KStates
    BY <1>1, <1>2, <1>5
  <2>2. ~ShouldWait(w, o, t)
    BY <2>1, <1>2
  <2>3. \A j \in 1 .. n : j > i => objs[j] # o /\ j > i - 1
    BY <1>2, <1>3
  <2>4. o \in Mutexes /\ F => FairTo(s, o, t)
    BY <1>2
  <2> HIDE DEF w, o, u, F
  <2>5. /\ Sound(w, d) /\ Takes(s, w, t)
        /\ \A x, M : F /\ NoInv(s, x, M) => NoInv(w, x, M)
        /\ \A j \in 1 .. n : j > i - 1 => ~ShouldWait(w, objs[j], t)
    BY <2>1
  <2>6. Alive(w, t)
    BY <2>5 DEF Takes, SameThreads, Alive
  <2>7. Acquired(w, u, d, o, t)
    BY <2>1, <2>2, <2>5, <2>6, AcquireFacts
  <2>8. Takes(s, u, t)
    BY <2>5, <2>7, TakesTrans DEF Acquired
  <2>9. o \in Mutexes /\ F => FairTo(w, o, t)
    BY <2>1, <2>4, <2>5, <1>0, FairStays
  <2>10. \A x, M : F /\ NoInv(s, x, M) => NoInv(u, x, M)
    BY <2>5, <2>7, <2>9 DEF Acquired
  <2>11. \A j \in 1 .. n : j > i => ~ShouldWait(u, objs[j], t)
    BY <1>2, <2>3, <2>5, <2>7 DEF Acquired, OnlyOf
  <2>12. Good(u, i)
    BY <2>7, <2>8, <2>10, <2>11 DEF Acquired
  <2> HIDE DEF Good
  <2> QED
    BY <2>12 DEF u
<1> HIDE DEF T
<1>6. n \in T
  BY <1>2, <1>4, <1>5, UpTo DEF Inductive
<1>7. Good(g[n], n)
  BY <1>6 DEF T
<1> HIDE DEF F
<1>8. /\ Sound(g[n], d) /\ Takes(s, g[n], t)
      /\ \A x, M : F /\ NoInv(s, x, M) => NoInv(g[n], x, M)
  BY <1>7
<1> QED
  BY <1>1, <1>8 DEF AllAcquired, F

-----------------------------------------------------------------------------
(* Nobody sleeps on objects that would let it go on, but for those that     *)
(* object o may still wake.                                                 *)
NoLost(s, o) ==
  \A t \in Threads :
    /\ s.status[t] = "WaitSynchAny" => \A x \in ToSet(s.waitObjs[t]) : x = o \/ ShouldWait(s, x, t)
    /\ s.status[t] = "WaitSynchAll" => \/ o \in ToSet(s.waitObjs[t])
                                       \/ \E x \in ToSet(s.waitObjs[t]) : ShouldWait(s, x, t)

(* The state between two steps of a handler that ends thread d and wakes    *)
(* the threads that wait for o.                                             *)
Mid(s, d, o) == Sound(s, d) /\ Waits(s, d) /\ NoLost(s, o) /\ NoInv(s, NoThread, {})

(* A live holder keeps its mutexes, those of M excepted. *)
Holding(s, u, M) ==
  \A m \in Mutexes, y \in Threads :
    s.holder[m] = y /\ m \notin M => u.holder[m] = y \/ u.status[y] = "Dead"

(* The dead stay dead. *)
Lasting(s, u) == \A y \in Threads : s.status[y] = "Dead" => u.status[y] = "Dead"

LEMMA HoldingSame ==
  ASSUME NEW s, NEW u, u.holder = s.holder
  PROVE  \A M : Holding(s, u, M)
BY DEF Holding

LEMMA HoldingTrans ==
  ASSUME NEW s, NEW u, NEW v, NEW M, Holding(s, u, M), Holding(u, v, M), Lasting(u, v)
  PROVE  Holding(s, v, M)
BY DEF Holding, Lasting

LEMMA HoldingBut ==
  ASSUME NEW s, NEW u, NEW M, Holding(s, u, {})
  PROVE  Holding(s, u, M)
BY DEF Holding

(* Threads woke up, and nothing happened to the one that ends. *)
Woke(s, u, d) ==
  /\ SameRest(s, u) /\ Holding(s, u, {})
  /\ \A y \in Threads : \/ u.status[y] = s.status[y]
                        \/ s.status[y] \in WaitSynch /\ u.status[y] = "Ready"
  /\ d \in Threads => /\ u.held[d] = s.held[d] /\ u.waitObjs[d] = s.waitObjs[d]
                      /\ \A m \in Mutexes : u.holder[m] = d <=> s.holder[m] = d

LEMMA WokeTrans ==
  ASSUME NEW s, NEW u, NEW v, NEW d, Woke(s, u, d), Woke(u, v, d)
  PROVE  Woke(s, v, d)
<1>1. SameRest(s, v)
  BY DEF Woke, SameRest
<1>2. \A y \in Threads : \/ v.status[y] = s.status[y]
                         \/ s.status[y] \in WaitSynch /\ v.status[y] = "Ready"
  BY DEF Woke
<1>3. Lasting(u, v)
  BY DEF Woke, Lasting, WaitSynch
<1>4. Holding(s, v, {})
  BY <1>3, HoldingTrans DEF Woke
<1> QED
  BY <1>1, <1>2, <1>4 DEF Woke

LEMMA WokeItself ==
  ASSUME NEW s, NEW d
  PROVE  Woke(s, s, d)
BY HoldingSame DEF Woke, SameRest

LEMMA WakeWaiterFacts ==
  ASSUME NEW s, NEW d, NEW o \in Objects, Mid(s, d, o), d \in Threads => o \notin ToSet(s.waitObjs[d]),
         NEW t \in ToSet(s.waiters[o]), Wakeable(s, o, t),
         \A y \in ToSet(s.waiters[o]) : Wakeable(s, o, y) => s.prio[t] <= s.prio[y]
  PROVE  /\ Mid(WakeWaiter(s, o, t), d, o) /\ Woke(s, WakeWaiter(s, o, t), d)
         /\ Len(WakeWaiter(s, o, t).waiters[o]) < Len(s.waiters[o])
<1> DEFINE objs == s.waitObjs[t]
           got == IF s.status[t] = "WaitSynchAll" THEN AcquireAll(s, objs, t) ELSE Acquire(s, o, t)
           v == LeaveObjects(got, t)
           u == ResumeFromWait(v, t)
<1>0. /\ s \in KStates /\ Sound(s, d) /\ Waits(s, d) /\ NoLost(s, o) /\ NoInv(s, NoThread, {})
      /\ Own(s, d)
  BY DEF Mid, Sound
<1>1. WakeWaiter(s, o, t) = u
  BY DEF WakeWaiter
<1>2. t \in Threads /\ objs \in Seq(Objects)
  <2>1. s.waiters[o] \in Seq(Threads)
    BY <1>0, StateTypes
  <2>2. t \in Threads
    BY <2>1 DEF ToSet
  <2> QED
    BY <2>2, <1>0, StateTypes
<1>3. o \in ToSet(objs) /\ t # d
  BY <1>0, <1>2 DEF Waits
<1>4. s.status[t] \in WaitSynch /\ Alive(s, t)
  <2>1. objs # <<>>
    BY <1>3 DEF ToSet
  <2>2. s.status[t] \in WaitSynch
    BY <1>0, <1>2, <1>3, <2>1 DEF Waits
  <2> QED
    BY <2>2 DEF WaitSynch, Alive
<1>5. ASSUME NEW m \in Mutexes \cap ToSet(objs) PROVE FairTo(s, m, t)
  <2> SUFFICES ASSUME s.holder[m] = NoThread, NEW y \in ToSet(s.waiters[m]),
                      s.status[y] = "WaitSynchAny"
               PROVE  s.prio[t] <= s.prio[y]
    BY DEF FairTo
  <2>1. m \in Objects /\ y \in Threads
    <3>1. m \in Objects
      BY DEF Objects
    <3>2. s.waiters[m] \in Seq(Threads)
      BY <1>0, <3>1, StateTypes
    <3> QED
      BY <3>1, <3>2 DEF ToSet
  <2>2. m \in ToSet(s.waitObjs[y])
    BY <1>0, <2>1 DEF Waits
  <2>3. ~ShouldWait(s, m, y)
    <3>1. ~(s.lock[m] > 0)
      BY <1>0 DEF Own
    <3> QED
      BY <2>1, <3>1, ShouldWaitIs
  <2>4. m = o
    BY <1>0, <2>1, <2>2, <2>3 DEF NoLost
  <2>5. Wakeable(s, o, y)
    BY <2>3, <2>4 DEF Wakeable
  <2> QED
    BY <2>4, <2>5
<1>6. Sound(got, d) /\ Takes(s, got, t) /\ NoInv(got, NoThread, {})
  <2>1. CASE s.status[t] = "WaitSynchAll"
    <3>1. \A i \in 1 .. Len(objs) : ~ShouldWait(s, objs[i], t)
      <4>1. \A i \in 1 .. Len(objs) : objs[i] \in ToSet(objs)
        BY <1>2 DEF ToSet
      <4> QED
        BY <2>1, <4>1 DEF Wakeable
    <3>2. Distinct(objs)
      BY <1>0, <1>2 DEF Waits
    <3>3. AllAcquired(s, AcquireAll(s, objs, t), d, t, objs)
      BY <1>0, <1>2, <1>3, <1>4, <3>1, <3>2, AcquireAllFacts
    <3>4. \A x, M : NoInv(s, x, M) => NoInv(AcquireAll(s, objs, t), x, M)
      BY <3>3, <1>5 DEF AllAcquired
    <3> QED
      BY <2>1, <3>3, <3>4, <1>0 DEF AllAcquired
  <2>2. CASE s.status[t] # "WaitSynchAll"
    <3>1. Acquired(s, Acquire(s, o, t), d, o, t)
      BY <1>0, <1>2, <1>3, <1>4, AcquireFacts DEF Wakeable
    <3>2. o \in Mutexes => FairTo(s, o, t)
      BY <1>3, <1>5
    <3> QED
      BY <2>2, <3>1, <3>2, <1>0 DEF Acquired
  <2> QED
    BY <2>1, <2>2
<1>7. got \in KStates
  BY <1>6 DEF Sound
<1> HIDE DEF got
<1>8. v \in KStates /\ Left(got, v, t)
  BY <1>2, <1>7, LeaveFacts
<1> HIDE DEF v
<1>9. Sound(v, d) /\ NoInv(v, NoThread, {})
  BY <1>6, <1>8 DEF Left, Calm
<1>10. Waits(got, d)
  BY <1>0, <1>6 DEF Waits, Takes, SameThreads, SameLists
<1>11. Waits(v, d)
  BY <1>2, <1>7, <1>8, <1>10, LeftWaits
<1>12. v.waitObjs[t] = <<>> /\ v.status = s.status
  BY <1>2, <1>6, <1>8 DEF Left, SameButLists, SameThreads, Takes
<1>13. Sound(u, d) /\ Resumed(v, u, t) /\ NoInv(u, NoThread, {})
  BY <1>2, <1>4, <1>9, <1>12, ResumeFacts
<1> HIDE DEF u
<1>14. Waits(u, d)
  <2>1. \A y \in Threads : y # t => u.status[y] = v.status[y]
    BY <1>13 DEF Resumed
  <2>2. u.waitObjs = v.waitObjs /\ u.waiters = v.waiters /\ u.pending = v.pending
    BY <1>13 DEF Resumed, SameLists
  <2>3. \A y \in Threads : y # d /\ u.waitObjs[y] # <<>> => u.status[y] \in WaitSynch
    BY <1>11, <1>12, <2>1, <2>2 DEF Waits
  <2> QED
    BY <1>11, <2>2, <2>3 DEF Waits
<1>15. \A y \in Threads : /\ y # t => u.status[y] = s.status[y] /\ u.waitObjs[y] = s.waitObjs[y]
                          /\ u.status[t] = "Ready"
  BY <1>2, <1>6, <1>8, <1>12, <1>13 DEF Resumed, Left, SameLists, Takes
<1>16. ASSUME NEW y \in Threads, y # t, NEW x \in Objects, ShouldWait(s, x, y)
       PROVE  ShouldWait(u, x, y)
  <2>1. ShouldWait(got, x, y)
    BY <1>6, <1>16 DEF Takes
  <2>2. u.lock = got.lock /\ u.holder = got.holder /\ u.count = got.count /\ u.signaled = got.signaled
    BY <1>8, <1>13 DEF Resumed, Left, SameButLists, SameOwners, SameSignals
  <2>3. \A z \in Threads : u.status[z] = "Dead" <=> got.status[z] = "Dead"
    <3>1. got.status = s.status
      BY <1>6 DEF Takes, SameThreads
    <3> QED
      BY <3>1, <1>15, <1>4 DEF WaitSynch
  <2>4. ShouldWait(u, x, y) <=> ShouldWait(got, x, y)
    BY <2>2, <2>3, SameAvailability
  <2> QED
    BY <2>1, <2>4
<1>17. NoLost(u, o)
  <2> SUFFICES ASSUME NEW y \in Threads
               PROVE  /\ u.status[y] = "WaitSynchAny" =>
                           \A x \in ToSet(u.waitObjs[y]) : x = o \/ ShouldWait(u, x, y)
                      /\ u.status[y] = "WaitSynchAll" =>
                           \/ o \in ToSet(u.waitObjs[y])
                           \/ \E x \in ToSet(u.waitObjs[y]) : ShouldWait(u, x, y)
    BY DEF NoLost
  <2>1. CASE y = t
    BY <1>15, <2>1
  <2>2. CASE y # t
    <3>1. s.waitObjs[y] \in Seq(Objects)
      BY <1>0, StateTypes
    <3>2. \A x \in ToSet(s.waitObjs[y]) : x \in Objects
      BY <3>1 DEF ToSet
    <3> QED
      BY <2>2, <3>2, <1>0, <1>15, <1>16 DEF NoLost
  <2> QED
    BY <2>1, <2>2
<1>18. Woke(s, u, d)
  <2>1. SameRest(s, u)
    BY <1>6, <1>8, <1>13 DEF Takes, Left, SameButLists, Resumed, SameRest
  <2>2. \A y \in Threads : \/ u.status[y] = s.status[y]
                           \/ s.status[y] \in WaitSynch /\ u.status[y] = "Ready"
    BY <1>4, <1>15
  <2>3. u.held = got.held /\ u.holder = got.holder
    BY <1>8, <1>13 DEF Left, SameButLists, Resumed, SameOwners
  <2>4. d \in Threads => /\ u.held[d] = s.held[d] /\ u.waitObjs[d] = s.waitObjs[d]
                         /\ \A m \in Mutexes : u.holder[m] = d <=> s.holder[m] = d
    BY <1>3, <1>6, <1>15, <2>3 DEF Takes
  <2>5. Holding(s, u, {})
    BY <1>6, <2>3 DEF Takes, Holding
  <2> QED
    BY <2>1, <2>2, <2>4, <2>5 DEF Woke
<1>19. Len(u.waiters[o]) < Len(s.waiters[o])
  <2>1. got.waiters = s.waiters /\ got.waitObjs = s.waitObjs /\ u.waiters = v.waiters
    BY <1>6, <1>13 DEF Takes, SameLists, Resumed
  <2> QED
    BY <1>3, <1>8, <2>1 DEF Left, ShorterBy
<1> QED
  BY <1>1, <1>13, <1>14, <1>17, <1>18, <1>19 DEF Mid

LEMMA BestWaiterFacts ==
  ASSUME NEW s, s \in KStates, NEW o \in Objects
  PROVE  /\ BestWaiter(s, o) = NoThread =>
              \A t \in ToSet(s.waiters[o]) : ~Wakeable(s, o, t)
         /\ BestWaiter(s, o) # NoThread =>
              /\ BestWaiter(s, o) \in ToSet(s.waiters[o]) /\ Wakeable(s, o, BestWaiter(s, o))
              /\ \A y \in ToSet(s.waiters[o]) :
                   Wakeable(s, o, y) => s.prio[BestWaiter(s, o)] <= s.prio[y]
<1> DEFINE w == s.waiters[o]
           I == {i \in DOMAIN w : Wakeable(s, o, w[i])}
           Q(i) == \A j \in I : \/ s.prio[w[i]] < s.prio[w[j]]
                                \/ s.prio[w[i]] = s.prio[w[j]] /\ i <= j
           t == BestWaiter(s, o)
           b == CHOOSE i \in I : Q(i)
<1>1. w \in Seq(Threads)
  BY StateTypes
<1>2. DOMAIN w \subseteq Nat /\ \A i \in DOMAIN w : w[i] \in Threads /\ s.prio[w[i]] \in Nat
  <2>1. \A i \in DOMAIN w : w[i] \in Threads /\ i \in Nat
    BY <1>1
  <2>2. \A y \in Threads : s.prio[y] \in Nat
    BY StateTypes, KernelAssumption
  <2> QED
    BY <2>1, <2>2
<1>3. t = IF I = {} THEN NoThread ELSE w[b]
  BY DEF BestWaiter
<1> HIDE DEF w, t
<1>4. CASE I = {}
  <2>1. \A y \in ToSet(w) : ~Wakeable(s, o, y)
    BY <1>4 DEF ToSet
  <2> QED
    BY <1>3, <1>4, <2>1 DEF t, w
<1>5. CASE I # {}
  <2> DEFINE P == {s.prio[w[i]] : i \in I}
  <2>1. P \in SUBSET Nat /\ P # {}
    BY <1>2, <1>5
  <2>2. PICK p \in P : \A r \in P : p <= r
    BY <2>1, Least
  <2> DEFINE J == {i \in I : s.prio[w[i]] = p}
  <2>3. J \in SUBSET Nat /\ J # {}
    BY <1>2, <2>2
  <2>4. PICK i \in J : \A j \in J : i <= j
    BY <2>3, Least
  <2>5. i \in I /\ s.prio[w[i]] = p /\ \A j \in I : s.prio[w[j]] = p => i <= j
    BY <2>4
  <2>6. \A j \in I : p <= s.prio[w[j]] /\ s.prio[w[j]] \in Nat /\ p \in Nat
    BY <1>2, <2>2, <2>1
  <2> HIDE DEF J, P, I
  <2>7. Q(i)
    BY <2>5, <2>6
  <2> HIDE DEF Q
  <2>8. b \in I /\ Q(b)
    BY <2>5, <2>7
  <2> HIDE DEF b
  <2>9. t = w[b]
    BY <1>3, <1>5
  <2>10. w[b] \in ToSet(w) /\ Wakeable(s, o, w[b]) /\ w[b] \in Threads
    BY <2>8, <1>2 DEF I, ToSet
  <2>11. ASSUME NEW y \in ToSet(w), Wakeable(s, o, y) PROVE s.prio[w[b]] <= s.prio[y]
    <3>1. PICK j \in DOMAIN w : w[j] = y
      BY DEF ToSet
    <3>2. j \in I
      BY <3>1, <2>11 DEF I
    <3>3. s.prio[w[b]] \in Nat /\ s.prio[w[j]] \in Nat
      BY <1>2, <2>8, <3>1 DEF I
    <3> QED
      BY <2>8, <3>1, <3>2, <3>3 DEF Q
  <2>12. t # NoThread
    BY <2>9, <2>10, Kinds
  <2> QED
    BY <2>9, <2>10, <2>11, <2>12 DEF t, w
<1> QED
  BY <1>4, <1>5

LEMMA WakeTurnType ==
  ASSUME NEW s, s \in KStates, NEW o \in Objects
  PROVE  WakeTurn(s, o) \in KStates
<1> DEFINE a == Asserted(s, \A t \in ToSet(s.waiters[o]) : s.status[t] \in WaitSynch)
           t == BestWaiter(a, o)
<1>1. a \in KStates
  BY AssertedType
<1>2. WakeTurn(s, o) = IF a.crashed \/ t = NoThread THEN a ELSE WakeWaiter(a, o, t)
  BY DEF WakeTurn
<1> HIDE DEF a
<1>3. a.waiters[o] \in Seq(Threads)
  BY <1>1, StateTypes
<1>4. t = NoThread \/ t \in ToSet(a.waiters[o])
  BY <1>1, BestWaiterFacts
<1> HIDE DEF t
<1>5. ASSUME t # NoThread PROVE WakeWaiter(a, o, t) \in KStates
  <2> DEFINE got == IF a.status[t] = "WaitSynchAll" THEN AcquireAll(a, a.waitObjs[t], t)
                    ELSE Acquire(a, o, t)
             left == LeaveObjects(got, t)
  <2>1. t \in Threads
    BY <1>3, <1>4, <1>5 DEF ToSet
  <2>2. a.waitObjs[t] \in Seq(Objects)
    BY <1>1, <2>1, StateTypes
  <2>3. AcquireAll(a, a.waitObjs[t], t) \in KStates
    <3> DEFINE objs == a.waitObjs[t]
    <3>0. objs \in Seq(Objects)
      BY <2>2
    <3> HIDE DEF objs
    <3>1. PICK g \in [0 .. Len(objs) -> KStates] :
            /\ g[0] = a /\ \A i \in 1 .. Len(objs) : g[i] = Acquire(g[i - 1], objs[i], t)
            /\ AcquireAll(a, objs, t) = g[Len(objs)]
      BY <1>1, <2>1, <3>0, AcquireAllLoop
    <3>2. Len(objs) \in 0 .. Len(objs)
      BY <3>0
    <3> QED
      BY <3>1, <3>2 DEF objs
  <2>4. got \in KStates
    BY <1>1, <2>1, <2>3, AcquireType
  <2>5. WakeWaiter(a, o, t) = ResumeFromWait(left, t)
    BY DEF WakeWaiter
  <2> HIDE DEF got
  <2>6. left \in KStates
    BY <2>1, <2>4, LeaveFacts
  <2> HIDE DEF left
  <2>7. ResumeFromWait(left, t) \in KStates
    BY <2>1, <2>6, ResumeType
  <2> QED
    BY <2>5, <2>7
<1> QED
  BY <1>1, <1>2, <1>5

LEMMA WakeTurnFacts ==
  ASSUME NEW s, NEW d, NEW o \in Objects, Mid(s, d, o), d \in Threads => o \notin ToSet(s.waitObjs[d])
  PROVE  /\ Mid(WakeTurn(s, o), d, o) /\ Woke(s, WakeTurn(s, o), d)
         /\ IF BestWaiter(s, o) = NoThread THEN WakeTurn(s, o) = s
            ELSE Len(WakeTurn(s, o).waiters[o]) < Len(s.waiters[o])
<1> DEFINE t == BestWaiter(s, o)
<1>0. s \in KStates /\ ~s.crashed /\ Waits(s, d)
  BY DEF Mid, Sound
<1>1. \A y \in ToSet(s.waiters[o]) : s.status[y] \in WaitSynch
  <2> TAKE y \in ToSet(s.waiters[o])
  <2>1. s.waiters[o] \in Seq(Threads)
    BY <1>0, StateTypes
  <2>2. y \in Threads
    BY <2>1 DEF ToSet
  <2>3. o \in ToSet(s.waitObjs[y])
    BY <1>0, <2>2 DEF Waits
  <2>4. y # d /\ s.waitObjs[y] # <<>>
    BY <2>2, <2>3 DEF ToSet
  <2> QED
    BY <1>0, <2>2, <2>4 DEF Waits
<1>2. Asserted(s, \A y \in ToSet(s.waiters[o]) : s.status[y] \in WaitSynch) = s
  BY <1>1 DEF Asserted
<1>3. WakeTurn(s, o) = IF t = NoThread THEN s ELSE WakeWaiter(s, o, t)
  BY <1>0, <1>2 DEF WakeTurn
<1>4. CASE t = NoThread
  <2>1. Woke(s, s, d)
    BY WokeItself
  <2> QED
    BY <1>3, <1>4, <2>1
<1>5. CASE t # NoThread
  <2>1. /\ t \in ToSet(s.waiters[o]) /\ Wakeable(s, o, t)
        /\ \A y \in ToSet(s.waiters[o]) : Wakeable(s, o, y) => s.prio[t] <= s.prio[y]
    BY <1>0, <1>5, BestWaiterFacts
  <2> HIDE DEF t
  <2>2. /\ Mid(WakeWaiter(s, o, t), d, o) /\ Woke(s, WakeWaiter(s, o, t), d)
        /\ Len(WakeWaiter(s, o, t).waiters[o]) < Len(s.waiters[o])
    BY <2>1, WakeWaiterFacts
  <2> QED
    BY <1>3, <1>5, <2>2 DEF t
<1> QED
  BY <1>4, <1>5

LEMMA WakeLoopLoop ==
  ASSUME NEW s, s \in KStates, NEW o \in Objects
  PROVE  LET n == Len(s.waiters[o]) + 1
         IN  \E g \in [0 .. n -> KStates] :
               /\ g[0] = s /\ \A i \in 1 .. n : g[i] = WakeTurn(g[i - 1], o)
               /\ WakeLoop(s, o) = g[n]
<1> DEFINE n == Len(s.waiters[o]) + 1
           Def(g) == g = [i \in 0 .. n |-> IF i = 0 THEN s ELSE WakeTurn(g[i - 1], o)]
           step == [w \in (1 .. n) \X KStates |-> WakeTurn(w[2], o)]
           g == CHOOSE g : Def(g)
<1>1. n \in Nat
  BY StateTypes
<1>10. WakeLoop(s, o) = g[n]
  BY DEF WakeLoop
<1> HIDE DEF n
<1>2. \A w \in KStates : WakeTurn(w, o) \in KStates
  BY WakeTurnType
<1>3. step \in [(1 .. n) \X KStates -> KStates]
  BY <1>2
<1>4. \A w \in KStates, i \in 1 .. n : step[<<i, w>>] = WakeTurn(w, o)
  OBVIOUS
<1> HIDE DEF step
<1>5. PICK f : IsLoop(f, n, KStates, s, step)
  BY <1>1, <1>3, LoopExists
<1>6. /\ f \in [0 .. n -> KStates]
      /\ f[0] = s /\ \A i \in 1 .. n : f[i] = step[<<i, f[i - 1]>>]
  BY <1>5 DEF IsLoop
<1>7. \A i \in 1 .. n : f[i] = WakeTurn(f[i - 1], o)
  <2> TAKE i \in 1 .. n
  <2>1. f[i - 1] \in KStates
    BY <1>1, <1>6
  <2> QED
    BY <2>1, <1>4, <1>6
<1>8. Def(f)
  BY <1>1, <1>6, <1>7
<1>9. Def(g)
  BY <1>8
<1> HIDE DEF g
<1>11. g[0] = s /\ \A i \in 1 .. n : g[i] = WakeTurn(g[i - 1], o)
  BY <1>1, <1>9
<1>12. g \in [0 .. n -> KStates]
  <2>1. \A i \in 0 .. n : g[i] \in KStates
    BY <1>1, <1>2, <1>11, LoopStays
  <2>2. g = [i \in 0 .. n |-> g[i]]
    BY <1>9
  <2> QED
    BY <2>1, <2>2
<1> QED
  BY <1>10, <1>11, <1>12 DEF n

LEMMA WakeLoopFacts ==
  ASSUME NEW s, NEW d, NEW o \in Objects, Mid(s, d, o), d \in Threads => o \notin ToSet(s.waitObjs[d])
  PROVE  Mid(WakeLoop(s, o), d, NoThread) /\ Woke(s, WakeLoop(s, o), d)
<1> DEFINE k0 == Len(s.waiters[o])
           n == k0 + 1
<1>0. s \in KStates
  BY DEF Mid, Sound
<1>1. PICK g \in [0 .. n -> KStates] :
        /\ g[0] = s /\ \A i \in 1 .. n : g[i] = WakeTurn(g[i - 1], o)
        /\ WakeLoop(s, o) = g[n]
  BY <1>0, WakeLoopLoop
<1>2. k0 \in Nat /\ n \in Nat /\ \A w \in KStates : Len(w.waiters[o]) \in Nat
  BY <1>0, StateTypes
<1> DEFINE Good(w, i) == /\ Mid(w, d, o) /\ Woke(s, w, d)
                         /\ BestWaiter(w, o) = NoThread \/ Len(w.waiters[o]) <= k0 - i
           T == {i \in 0 .. n : Good(g[i], i)}
<1>3. 0 \in T
  <2>1. Woke(s, s, d)
    BY WokeItself
  <2>2. Good(s, 0)
    BY <2>1, <1>2
  <2> HIDE DEF Good
  <2> QED
    BY <1>1, <1>2, <2>2
<1>4. ASSUME NEW i \in 1 .. n, i - 1 \in T PROVE i \in T
  <2> DEFINE w == g[i - 1]
             u == g[i]
  <2>0. i - 1 \in 0 .. n /\ i \in 0 .. n
    BY <1>2
  <2>a. Good(w, i - 1)
    BY <1>4
  <2>1. Good(w, i - 1) /\ w \in KStates /\ u = WakeTurn(w, o) /\ u \in KStates
    BY <1>1, <2>0, <2>a
  <2> HIDE DEF w, u, k0
  <2>2. /\ Mid(w, d, o) /\ Woke(s, w, d)
        /\ BestWaiter(w, o) = NoThread \/ Len(w.waiters[o]) <= k0 - (i - 1)
    BY <2>1
  <2>3. d \in Threads => o \notin ToSet(w.waitObjs[d])
    BY <2>2 DEF Woke
  <2>4. /\ Mid(u, d, o) /\ Woke(w, u, d)
        /\ IF BestWaiter(w, o) = NoThread THEN u = w
           ELSE Len(u.waiters[o]) < Len(w.waiters[o])
    BY <2>1, <2>2, <2>3, WakeTurnFacts
  <2>5. Woke(s, u, d)
    BY <2>2, <2>4, WokeTrans
  <2>6. BestWaiter(u, o) = NoThread \/ Len(u.waiters[o]) <= k0 - i
    <3>1. CASE BestWaiter(w, o) = NoThread
      BY <2>4, <3>1
    <3>2. CASE BestWaiter(w, o) # NoThread
      <4>1. /\ Len(u.waiters[o]) \in Nat /\ Len(w.waiters[o]) \in Nat /\ i \in Nat /\ k0 \in Nat
            /\ Len(u.waiters[o]) < Len(w.waiters[o]) /\ Len(w.waiters[o]) <= k0 - (i - 1)
        BY <1>2, <2>1, <2>2, <2>4, <3>2
      <4> QED
        BY <4>1
    <3> QED
      BY <3>1, <3>2
  <2>7. Good(u, i)
    BY <2>4, <2>5, <2>6
  <2> HIDE DEF Good
  <2> QED
    BY <2>7 DEF u
<1> HIDE DEF T
<1>5. n \in T
  BY <1>2, <1>3, <1>4, UpTo DEF Inductive
<1> DEFINE u == g[n]
<1>6. Good(u, n) /\ u \in KStates
  BY <1>2, <1>5 DEF T
<1> HIDE DEF u
<1>7. /\ Mid(u, d, o) /\ Woke(s, u, d) /\ BestWaiter(u, o) = NoThread
  <2>1. Len(u.waiters[o]) \in Nat /\ k0 \in Nat
    BY <1>2, <1>6
  <2> HIDE DEF k0
  <2> QED
    BY <1>6, <2>1
<1>8. \A y \in ToSet(u.waiters[o]) : ~Wakeable(u, o, y)
  BY <1>6, <1>7, BestWaiterFacts
<1>9. NoLost(u, NoThread)
  <2> SUFFICES ASSUME NEW y \in Threads
               PROVE  /\ u.status[y] = "WaitSynchAny" =>
                           \A x \in ToSet(u.waitObjs[y]) : ShouldWait(u, x, y)
                      /\ u.status[y] = "WaitSynchAll" =>
                           \E x \in ToSet(u.waitObjs[y]) : ShouldWait(u, x, y)
    BY DEF NoLost
  <2>1. NoLost(u, o) /\ (o \in ToSet(u.waitObjs[y]) => ~Wakeable(u, o, y))
    BY <1>7, <1>8 DEF Mid, Waits
  <2>2. u.status[y] = "WaitSynchAny" => \A x \in ToSet(u.waitObjs[y]) : ShouldWait(u, x, y)
    BY <2>1 DEF NoLost, Wakeable
  <2>3. u.status[y] = "WaitSynchAll" => \E x \in ToSet(u.waitObjs[y]) : ShouldWait(u, x, y)
    BY <2>1 DEF NoLost, Wakeable
  <2> QED
    BY <2>2, <2>3
<1> QED
  BY <1>1, <1>7, <1>9 DEF Mid, u

LEMMA LessSignalled ==
  ASSUME NEW s, NEW d, Mid(s, d, NoThread), NEW e \in Events \cup Timers
  PROVE  /\ Mid(SignalSet(s, e, FALSE), d, NoThread) /\ Woke(s, SignalSet(s, e, FALSE), d)
         /\ SignalSet(s, e, FALSE) \in KStates
<1> DEFINE u == SignalSet(s, e, FALSE)
<1>0. s \in KStates /\ e \in Objects
  BY DEF Mid, Sound, Objects
<1>1. /\ u \in KStates /\ Same(s, u) /\ u.count = s.count
      /\ u.signaled = [s.signaled EXCEPT ![e] = FALSE]
  BY <1>0, SignalUpdate
<1> HIDE DEF u
<1>2. Sound(u, d) /\ NoInv(u, NoThread, {})
  BY <1>1, SameSound DEF Mid
<1>3. Waits(u, d)
  BY <1>1 DEF Mid, Waits, Same, SameThreads, SameLists
<1>4. Woke(s, u, d)
  BY <1>1, HoldingSame DEF Woke, Same, SameThreads, SameLists, SameOwners
<1>5. \A x \in Objects : \A y : ShouldWait(s, x, y) => ShouldWait(u, x, y)
  <2> TAKE x \in Objects
  <2> TAKE y
  <2>1. CASE x = e
    <3>1. ~u.signaled[e]
      BY <1>0, <1>1 DEF KStates
    <3> QED
      BY <2>1, <3>1, ShouldWaitIs
  <2>2. CASE x # e
    <3>1. x \in Events \cup Timers => u.signaled[x] = s.signaled[x]
      BY <1>0, <1>1, <2>2 DEF KStates
    <3>2. ShouldWait(u, x, y) <=> ShouldWait(s, x, y)
      BY <1>1, <3>1, SameAvailability DEF Same, SameThreads, SameOwners
    <3> QED
      BY <3>2
  <2> QED
    BY <2>1, <2>2
<1>6. \A y \in Threads : \A x \in ToSet(s.waitObjs[y]) : x \in Objects
  <2> TAKE y \in Threads
  <2>1. s.waitObjs[y] \in Seq(Objects)
    BY <1>0, StateTypes
  <2> QED
    BY <2>1 DEF ToSet
<1>7. NoLost(u, NoThread)
  BY <1>1, <1>5, <1>6 DEF Mid, NoLost, Same, SameThreads, SameLists
<1> QED
  BY <1>1, <1>2, <1>3, <1>4, <1>7 DEF Mid, u

LEMMA WakeupFacts ==
  ASSUME NEW s, NEW d, NEW o \in Objects, Mid(s, d, o), d \in Threads => o \notin ToSet(s.waitObjs[d])
  PROVE  Mid(WakeupAllWaitingThreads(s, o), d, NoThread) /\ Woke(s, WakeupAllWaitingThreads(s, o), d)
<1> DEFINE w == WakeLoop(s, o)
<1>1. Mid(w, d, NoThread) /\ Woke(s, w, d)
  BY WakeLoopFacts
<1>2. WakeupAllWaitingThreads(s, o) =
        IF o \in Events \cup Timers /\ ResetOf[o] = "Pulse" THEN SignalSet(w, o, FALSE) ELSE w
  BY DEF WakeupAllWaitingThreads, SignalSet
<1> HIDE DEF w
<1>3. CASE o \in Events \cup Timers /\ ResetOf[o] = "Pulse"
  <2>1. Mid(SignalSet(w, o, FALSE), d, NoThread) /\ Woke(w, SignalSet(w, o, FALSE), d)
    BY <1>1, <1>3, LessSignalled
  <2>2. Woke(s, SignalSet(w, o, FALSE), d)
    BY <1>1, <2>1, WokeTrans
  <2> QED
    BY <1>2, <1>3, <2>1, <2>2
<1>4. CASE ~(o \in Events \cup Timers /\ ResetOf[o] = "Pulse")
  BY <1>1, <1>2, <1>4
<1> QED
  BY <1>3, <1>4

LEMMA WakeupType ==
  ASSUME NEW s, s \in KStates, NEW o \in Objects
  PROVE  WakeupAllWaitingThreads(s, o) \in KStates
<1> DEFINE w == WakeLoop(s, o)
           n == Len(s.waiters[o]) + 1
<1>1. w \in KStates
  <2>1. n \in 0 .. n
    BY StateTypes
  <2>2. PICK g \in [0 .. n -> KStates] : WakeLoop(s, o) = g[n]
    BY WakeLoopLoop
  <2> QED
    BY <2>1, <2>2
<1>2. WakeupAllWaitingThreads(s, o) =
        IF o \in Events \cup Timers /\ ResetOf[o] = "Pulse" THEN SignalSet(w, o, FALSE) ELSE w
  BY DEF WakeupAllWaitingThreads, SignalSet
<1> HIDE DEF w
<1>3. o \in Events \cup Timers => SignalSet(w, o, FALSE) \in KStates
  BY <1>1, SignalUpdate
<1> QED
  BY <1>1, <1>2, <1>3

-----------------------------------------------------------------------------
(* The end of a thread. *)

FreeSet(s, m) == [s EXCEPT !.lock[m] = 0, !.holder[m] = NoThread]

SameButOwners(s, u) ==
  /\ SameRest(s, u) /\ SameThreads(s, u) /\ SameLists(s, u) /\ SameSignals(s, u)
  /\ u.prio = s.prio /\ u.mprio = s.mprio /\ u.ready = s.ready /\ u.levels = s.levels
  /\ u.crashed = s.crashed

LEMMA FreeUpdate ==
  ASSUME NEW s, s \in KStates, NEW m \in Mutexes
  PROVE  /\ FreeSet(s, m) \in KStates /\ SameButOwners(s, FreeSet(s, m))
         /\ FreeSet(s, m).held = s.held
         /\ \A x \in Mutexes : /\ FreeSet(s, m).lock[x] = IF x = m THEN 0 ELSE s.lock[x]
                               /\ FreeSet(s, m).holder[x] = IF x = m THEN NoThread ELSE s.holder[x]
<1> DEFINE u == FreeSet(s, m)
           f == [s.lock EXCEPT ![m] = 0]
           h == [s.holder EXCEPT ![m] = NoThread]
<1>1. f \in [Mutexes -> Nat] /\ h \in [Mutexes -> Threads \cup {NoThread}]
  BY DEF KStates
<1>2. \A x \in Mutexes : /\ f[x] = IF x = m THEN 0 ELSE s.lock[x]
                         /\ h[x] = IF x = m THEN NoThread ELSE s.holder[x]
  BY DEF KStates
<1>3. u = [s EXCEPT !.lock = f, !.holder = h]
  BY DEF KStates, FreeSet
<1> HIDE DEF f, h, u
<1>4. u \in KStates /\ u.lock = f /\ u.holder = h /\ u.held = s.held
  BY <1>1, <1>3 DEF KStates
<1>5. SameButOwners(s, u)
  BY <1>3 DEF KStates, SameButOwners, SameRest, SameThreads, SameLists, SameSignals
<1> QED
  BY <1>2, <1>4, <1>5 DEF u

LEMMA FreeType ==
  ASSUME NEW s, s \in KStates, NEW m \in Mutexes
  PROVE  FreeMutex(s, m) \in KStates
<1>1. m \in Objects
  BY DEF Objects
<1>2. FreeSet(s, m) \in KStates
  BY FreeUpdate
<1>3. FreeMutex(s, m) = WakeupAllWaitingThreads(FreeSet(s, m), m)
  BY DEF FreeMutex, FreeSet
<1> HIDE DEF FreeSet
<1>4. WakeupAllWaitingThreads(FreeSet(s, m), m) \in KStates
  BY <1>1, <1>2, WakeupType
<1> QED
  BY <1>3, <1>4

(* The thread that ends gives up a mutex to those who wait for it. *)
LEMMA FreeFacts ==
  ASSUME NEW s, NEW d \in Threads, NEW m \in Mutexes, Mid(s, d, NoThread), s.holder[m] = d,
         s.waitObjs[d] = <<>>
  PROVE  /\ Mid(FreeMutex(s, m), d, NoThread) /\ Woke(s, FreeMutex(s, m), NoThread)
         /\ FreeMutex(s, m).held[d] = s.held[d] /\ FreeMutex(s, m).waitObjs[d] = <<>>
         /\ \A x \in Mutexes : FreeMutex(s, m).holder[x] = d <=> s.holder[x] = d /\ x # m
<1> DEFINE v == FreeSet(s, m)
           u == WakeupAllWaitingThreads(v, m)
<1>0. FreeMutex(s, m) = u
  BY DEF FreeMutex, FreeSet
<1>1. m \in Objects /\ s \in KStates /\ Sound(s, d) /\ Waits(s, d) /\ NoLost(s, NoThread)
  BY DEF Objects, Mid, Sound
<1>2. /\ v \in KStates /\ SameButOwners(s, v) /\ v.held = s.held
      /\ \A x \in Mutexes : /\ v.lock[x] = IF x = m THEN 0 ELSE s.lock[x]
                            /\ v.holder[x] = IF x = m THEN NoThread ELSE s.holder[x]
  BY <1>1, FreeUpdate
<1> HIDE DEF v
<1>3. v.status = s.status /\ v.waitObjs = s.waitObjs /\ v.count = s.count /\ v.signaled = s.signaled
  BY <1>2 DEF SameButOwners, SameThreads, SameLists, SameSignals
<1>4. Own(v, d)
  <2>1. \A x \in Mutexes : v.lock[x] > 0 <=> v.holder[x] # NoThread
    BY <1>1, <1>2 DEF Sound, Own
  <2>2. ASSUME NEW x \in Mutexes, NEW y \in Threads
        PROVE  /\ v.holder[x] = y => x \in v.held[y] /\ (y # d => Alive(v, y))
               /\ x \in v.held[y] /\ y # d => v.holder[x] = y
    <3>0. Alive(v, y) <=> Alive(s, y)
      BY <1>3 DEF Alive
    <3>1. CASE x = m
      <4>1. v.holder[x] # y
        BY <1>2, <3>1, Kinds
      <4>2. y # d => m \notin s.held[y]
        BY <1>1 DEF Sound, Own
      <4> QED
        BY <1>2, <3>1, <4>1, <4>2
    <3>2. CASE x # m
      BY <1>1, <1>2, <3>0, <3>2 DEF Sound, Own
    <3> QED
      BY <3>1, <3>2
  <2> QED
    BY <1>1, <1>3, <2>1, <2>2 DEF Sound, Own
<1>5. Sound(v, d)
  <2>1. Inherit(v)
    BY <1>1, <1>2 DEF Sound, Inherit, Alive, Best, SameButOwners, SameRest, SameThreads
  <2>2. Queue(v) /\ Levelled(v) /\ Timed(v)
    BY <1>1, <1>2 DEF Sound, Queue, QueuesDistinct, QueuedRight, Levelled, Timed,
                      SameButOwners, SameThreads
  <2> QED
    BY <1>1, <1>2, <1>4, <2>1, <2>2 DEF Sound, SameButOwners
<1>6. Waits(v, d)
  BY <1>1, <1>2 DEF Waits, SameButOwners, SameThreads, SameLists
<1>7. NoInv(v, NoThread, {})
  BY <1>2 DEF Mid, NoInv, NoInvAt, Pressing, SameButOwners, SameThreads, SameLists
<1>8. NoLost(v, m)
  <2>1. \A x \in Objects, y \in Threads : x # m => (ShouldWait(v, x, y) <=> ShouldWait(s, x, y))
    BY <1>2, <1>3, SameAvailability
  <2>2. \A y \in Threads : \A x \in ToSet(s.waitObjs[y]) : x \in Objects
    <3> TAKE y \in Threads
    <3>1. s.waitObjs[y] \in Seq(Objects)
      BY <1>1, StateTypes
    <3> QED
      BY <3>1 DEF ToSet
  <2>3. NoThread \notin Objects
    BY Kinds
  <2> QED
    BY <1>1, <1>3, <2>1, <2>2, <2>3 DEF NoLost
<1>9. Mid(v, d, m)
  BY <1>5, <1>6, <1>7, <1>8 DEF Mid
<1>10. m \notin ToSet(v.waitObjs[d])
  BY <1>3 DEF ToSet
<1>11. Mid(u, d, NoThread) /\ Woke(v, u, d)
  BY <1>1, <1>9, <1>10, WakeupFacts
<1> HIDE DEF u
<1>12. Woke(s, u, NoThread)
  <2>1. SameRest(s, u)
    BY <1>2, <1>11 DEF Woke, SameButOwners, SameRest
  <2>2. u.status[d] = "Dead"
    BY <1>11 DEF Mid, Sound, Own
  <2>3. Holding(s, v, {m})
    BY <1>2 DEF Holding
  <2>4. Holding(s, u, {m})
    <3>1. Holding(v, u, {m}) /\ Lasting(v, u)
      BY <1>11, HoldingBut DEF Woke, Lasting, WaitSynch
    <3> QED
      BY <2>3, <3>1, HoldingTrans
  <2>5. Holding(s, u, {})
    BY <2>2, <2>4 DEF Holding
  <2> QED
    BY <1>3, <1>11, <2>1, <2>5, Kinds DEF Woke
<1>13. u.held[d] = s.held[d] /\ u.waitObjs[d] = <<>>
  BY <1>2, <1>3, <1>11 DEF Woke
<1>14. \A x \in Mutexes : u.holder[x] = d <=> s.holder[x] = d /\ x # m
  BY <1>2, <1>11, Kinds DEF Woke
<1> QED
  BY <1>0, <1>11, <1>12, <1>13, <1>14

LEMMA InOrderFacts ==
  ASSUME NEW S \in SUBSET Mutexes
  PROVE  InOrder(S) \in Seq(Mutexes) /\ ToSet(InOrder(S)) = S /\ Distinct(InOrder(S))
<1>1. MutexOrder \in Seq(Mutexes) /\ ToSet(MutexOrder) = Mutexes /\ Distinct(MutexOrder)
  BY KernelAssumption
<1>2. /\ Filter(MutexOrder, S) \in Seq(Mutexes)
      /\ ToSet(Filter(MutexOrder, S)) = ToSet(MutexOrder) \cap S
      /\ Distinct(MutexOrder) => Distinct(Filter(MutexOrder, S))
  BY <1>1, FilterFacts
<1> QED
  BY <1>1, <1>2 DEF InOrder

HeldSet(s, t, S) == [s EXCEPT !.held[t] = S]

LEMMA HeldUpdate ==
  ASSUME NEW s, s \in KStates, NEW t \in Threads, NEW S \in SUBSET Mutexes
  PROVE  /\ HeldSet(s, t, S) \in KStates /\ SameButOwners(s, HeldSet(s, t, S))
         /\ HeldSet(s, t, S).lock = s.lock /\ HeldSet(s, t, S).holder = s.holder
         /\ \A y \in Threads : HeldSet(s, t, S).held[y] = IF y = t THEN S ELSE s.held[y]
<1> DEFINE u == HeldSet(s, t, S)
           f == [s.held EXCEPT ![t] = S]
<1>1. f \in [Threads -> SUBSET Mutexes] /\ \A y \in Threads : f[y] = IF y = t THEN S ELSE s.held[y]
  BY DEF KStates
<1>2. u = [s EXCEPT !.held = f]
  BY DEF KStates, HeldSet
<1> HIDE DEF f, u
<1>3. u \in KStates /\ u.held = f /\ u.lock = s.lock /\ u.holder = s.holder
  BY <1>1, <1>2 DEF KStates
<1>4. SameButOwners(s, u)
  BY <1>2 DEF KStates, SameButOwners, SameRest, SameThreads, SameLists, SameSignals
<1> QED
  BY <1>1, <1>3, <1>4 DEF u

LEMMA ReleaseLoop ==
  ASSUME NEW s, s \in KStates, NEW t \in Threads
  PROVE  LET ms == InOrder(s.held[t])
         IN  \E g \in [0 .. Len(ms) -> KStates] :
               /\ g[0] = s /\ \A i \in 1 .. Len(ms) : g[i] = FreeMutex(g[i - 1], ms[i])
               /\ ReleaseThreadMutexes(s, t) = HeldSet(g[Len(ms)], t, {})
<1> DEFINE ms == InOrder(s.held[t])
           n == Len(ms)
           Def(g) == g = [i \in 0 .. n |-> IF i = 0 THEN s ELSE FreeMutex(g[i - 1], ms[i])]
           step == [w \in (1 .. n) \X KStates |-> FreeMutex(w[2], ms[w[1]])]
           g == CHOOSE g : Def(g)
<1>0. ms \in Seq(Mutexes)
  <2>1. s.held[t] \in SUBSET Mutexes
    BY StateTypes
  <2> QED
    BY <2>1, InOrderFacts
<1>10. ReleaseThreadMutexes(s, t) = HeldSet(g[n], t, {})
  BY DEF ReleaseThreadMutexes, HeldSet
<1> HIDE DEF ms
<1>1. n \in Nat /\ \A i \in 1 .. n : ms[i] \in Mutexes
  BY <1>0
<1> HIDE DEF n
<1>2. \A w \in KStates, i \in 1 .. n : FreeMutex(w, ms[i]) \in KStates
  BY <1>1, FreeType
<1>3. step \in [(1 .. n) \X KStates -> KStates]
  BY <1>2
<1>4. \A w \in KStates, i \in 1 .. n : step[<<i, w>>] = FreeMutex(w, ms[i])
  OBVIOUS
<1> HIDE DEF step
<1>5. PICK f : IsLoop(f, n, KStates, s, step)
  BY <1>1, <1>3, LoopExists
<1>6. /\ f \in [0 .. n -> KStates]
      /\ f[0] = s /\ \A i \in 1 .. n : f[i] = step[<<i, f[i - 1]>>]
  BY <1>5 DEF IsLoop
<1>7. \A i \in 1 .. n : f[i] = FreeMutex(f[i - 1], ms[i])
  <2> TAKE i \in 1 .. n
  <2>1. f[i - 1] \in KStates
    BY <1>1, <1>6
  <2> QED
    BY <2>1, <1>4, <1>6
<1>8. Def(f)
  BY <1>1, <1>6, <1>7
<1>9. Def(g)
  BY <1>8
<1> HIDE DEF g
<1>11. g[0] = s /\ \A i \in 1 .. n : g[i] = FreeMutex(g[i - 1], ms[i])
  BY <1>1, <1>9
<1>12. g \in [0 .. n -> KStates]
  <2>1. \A i \in 0 .. n : g[i] \in KStates
    BY <1>1, <1>2, <1>11, LoopStays
  <2>2. g = [i \in 0 .. n |-> g[i]]
    BY <1>9
  <2> QED
    BY <2>1, <2>2
<1> QED
  BY <1>10, <1>11, <1>12 DEF n, ms

LEMMA ReleaseType ==
  ASSUME NEW s, s \in KStates, NEW t \in Threads
  PROVE  ReleaseThreadMutexes(s, t) \in KStates
<1> DEFINE ms == InOrder(s.held[t])
           n == Len(ms)
<1>1. PICK g \in [0 .. n -> KStates] : ReleaseThreadMutexes(s, t) = HeldSet(g[n], t, {})
  BY ReleaseLoop
<1>2. s.held[t] \in SUBSET Mutexes
  BY StateTypes
<1>3. n \in Nat
  BY <1>2, InOrderFacts
<1> HIDE DEF n
<1>4. g[n] \in KStates
  BY <1>1, <1>3
<1>5. HeldSet(g[n], t, {}) \in KStates
  BY <1>4, HeldUpdate
<1> QED
  BY <1>1, <1>5

LEMMA ReleaseFacts ==
  ASSUME NEW s, NEW d \in Threads, Mid(s, d, NoThread), s.waitObjs[d] = <<>>,
         \A m \in Mutexes : s.holder[m] = d <=> m \in s.held[d]
  PROVE  /\ Mid(ReleaseThreadMutexes(s, d), NoThread, NoThread)
         /\ Woke(s, ReleaseThreadMutexes(s, d), NoThread)
<1> DEFINE ms == InOrder(s.held[d])
           n == Len(ms)
<1>0. s \in KStates /\ s.held[d] \in SUBSET Mutexes
  BY StateTypes DEF Mid, Sound
<1>1. PICK g \in [0 .. n -> KStates] :
        /\ g[0] = s /\ \A i \in 1 .. n : g[i] = FreeMutex(g[i - 1], ms[i])
        /\ ReleaseThreadMutexes(s, d) = HeldSet(g[n], d, {})
  BY <1>0, ReleaseLoop
<1>2. ms \in Seq(Mutexes) /\ ToSet(ms) = s.held[d] /\ Distinct(ms)
  BY <1>0, InOrderFacts
<1> HIDE DEF ms
<1>3. /\ n \in Nat /\ DOMAIN ms = 1 .. n
      /\ \A i \in 1 .. n : ms[i] \in Mutexes /\ ms[i] \in s.held[d]
      /\ \A i, j \in 1 .. n : ms[i] = ms[j] => i = j
  BY <1>2 DEF Distinct, ToSet
<1> HIDE DEF n
<1> DEFINE First(i) == {ms[j] : j \in 1 .. i}
           Good(w, i) == /\ Mid(w, d, NoThread) /\ Woke(s, w, NoThread)
                         /\ w.held[d] = s.held[d] /\ w.waitObjs[d] = <<>>
                         /\ \A m \in Mutexes : w.holder[m] = d <=> m \in s.held[d] /\ m \notin First(i)
           T == {i \in 0 .. n : Good(g[i], i)}
<1>4. 0 \in T
  <2>1. First(0) = {}
    OBVIOUS
  <2> HIDE DEF First
  <2>2. Woke(s, s, NoThread)
    BY WokeItself
  <2>3. Good(s, 0)
    BY <2>1, <2>2
  <2> HIDE DEF Good
  <2> QED
    BY <1>1, <1>3, <2>3
<1>5. ASSUME NEW i \in 1 .. n, i - 1 \in T PROVE i \in T
  <2> DEFINE w == g[i - 1]
             u == g[i]
             m == ms[i]
  <2>0. i - 1 \in 0 .. n /\ i \in 0 .. n
    BY <1>3
  <2>a. Good(w, i - 1)
    BY <1>5
  <2>1. w \in KStates /\ u = FreeMutex(w, m) /\ m \in Mutexes /\ m \in s.held[d]
    BY <1>1, <1>3, <2>0
  <2>2. First(i) = First(i - 1) \cup {m}
    <3>1. 1 .. i = (1 .. i - 1) \cup {i}
      BY <1>3
    <3> QED
      BY <3>1
  <2>3. m \notin First(i - 1)
    BY <1>3
  <2> HIDE DEF w, u, m, First
  <2>4. /\ Mid(w, d, NoThread) /\ Woke(s, w, NoThread)
        /\ w.held[d] = s.held[d] /\ w.waitObjs[d] = <<>>
        /\ \A x \in Mutexes : w.holder[x] = d <=> x \in s.held[d] /\ x \notin First(i - 1)
    BY <2>a
  <2>5. /\ Mid(u, d, NoThread) /\ Woke(w, u, NoThread)
        /\ u.held[d] = w.held[d] /\ u.waitObjs[d] = <<>>
        /\ \A x \in Mutexes : u.holder[x] = d <=> w.holder[x] = d /\ x # m
    BY <2>1, <2>3, <2>4, FreeFacts
  <2>6. Woke(s, u, NoThread)
    BY <2>4, <2>5, WokeTrans
  <2>7. Good(u, i)
    BY <2>2, <2>4, <2>5, <2>6
  <2> HIDE DEF Good
  <2> QED
    BY <2>0, <2>7 DEF u
<1> HIDE DEF T
<1>6. n \in T
  BY <1>3, <1>4, <1>5, UpTo DEF Inductive
<1>7. First(n) = s.held[d]
  BY <1>2, <1>3 DEF ToSet
<1> DEFINE w == g[n]
           u == HeldSet(w, d, {})
<1>8. Good(w, n)
  BY <1>6 DEF T
<1> HIDE DEF First, w
<1>9. /\ Mid(w, d, NoThread) /\ Woke(s, w, NoThread) /\ w.held[d] = s.held[d]
      /\ w.waitObjs[d] = <<>> /\ \A m \in Mutexes : w.holder[m] # d
  BY <1>7, <1>8
<1>10. w \in KStates
  BY <1>9 DEF Mid, Sound
<1>11. /\ u \in KStates /\ SameButOwners(w, u) /\ u.lock = w.lock /\ u.holder = w.holder
       /\ \A y \in Threads : u.held[y] = IF y = d THEN {} ELSE w.held[y]
  BY <1>10, HeldUpdate
<1>12. ReleaseThreadMutexes(s, d) = u
  BY <1>1 DEF w
<1> HIDE DEF u
<1>13. u.status = w.status /\ w.status[d] = "Dead"
  BY <1>9, <1>11 DEF Mid, Sound, Own, SameButOwners, SameThreads
<1>14. Own(u, NoThread)
  <2>1. Own(w, d) /\ NoThread \notin Threads
    BY <1>9, Kinds DEF Mid, Sound
  <2> QED
    BY <2>1, <1>9, <1>11, <1>13 DEF Own, Alive
<1>15. Inherit(u)
  <2>1. \A y \in Threads : Alive(u, y) => y # d /\ Alive(w, y)
    BY <1>13 DEF Alive
  <2>2. u.nominal = w.nominal /\ u.prio = w.prio /\ u.mprio = w.mprio
    BY <1>11 DEF SameButOwners, SameRest
  <2> QED
    BY <2>1, <2>2, <1>9, <1>11 DEF Mid, Sound, Inherit, Best
<1>16. Sound(u, NoThread)
  <2>1. Queue(u) /\ Levelled(u) /\ Timed(u)
    BY <1>9, <1>11 DEF Mid, Sound, Queue, QueuesDistinct, QueuedRight, Levelled, Timed,
                       SameButOwners, SameThreads
  <2> QED
    BY <1>9, <1>11, <1>14, <1>15, <2>1 DEF Mid, Sound, SameButOwners
<1>17. Waits(u, NoThread)
  BY <1>9, <1>11 DEF Mid, Waits, SameButOwners, SameThreads, SameLists
<1>18. NoLost(u, NoThread)
  <2>1. \A y \in Threads, x \in Objects : ShouldWait(u, x, y) <=> ShouldWait(w, x, y)
    BY <1>11, SameAvailability DEF SameButOwners, SameThreads, SameSignals
  <2>2. \A y \in Threads : \A x \in ToSet(w.waitObjs[y]) : x \in Objects
    <3> TAKE y \in Threads
    <3>1. w.waitObjs[y] \in Seq(Objects)
      BY <1>10, StateTypes
    <3> QED
      BY <3>1 DEF ToSet
  <2> QED
    BY <1>9, <1>11, <1>13, <2>1, <2>2 DEF Mid, NoLost, SameButOwners, SameLists
<1>19. NoInv(u, NoThread, {})
  BY <1>9, <1>11, <1>13 DEF Mid, NoInv, NoInvAt, Pressing, SameButOwners, SameLists
<1>20. Woke(s, u, NoThread)
  <2>1. Holding(s, u, {})
    BY <1>9, <1>11, <1>13 DEF Woke, Holding
  <2> QED
    BY <1>9, <1>11, <2>1, Kinds DEF Woke, SameButOwners, SameRest, SameThreads
<1> QED
  BY <1>12, <1>16, <1>17, <1>18, <1>19, <1>20 DEF Mid

DeadSet(s, t, n) ==
  [s EXCEPT !.timer[t] = 0, !.status[t] = "Dead", !.used[ProcOf[t]] = n]

(* Everything but the count of threads. *)
SameSetup(s, u) ==
  /\ u.nominal = s.nominal /\ u.canSched = s.canSched /\ u.cur = s.cur /\ u.armed = s.armed
  /\ u.periodic = s.periodic /\ u.exited = s.exited /\ u.runsOn = s.runsOn

LEMMA DeadUpdate ==
  ASSUME NEW s, s \in KStates, NEW t \in Threads, NEW n \in Int
  PROVE  LET u == DeadSet(s, t, n)
         IN  /\ u \in KStates /\ SameSetup(s, u) /\ SameLists(s, u) /\ SameOwners(s, u)
             /\ SameSignals(s, u) /\ u.prio = s.prio /\ u.mprio = s.mprio /\ u.ready = s.ready
             /\ u.levels = s.levels /\ u.crashed = s.crashed /\ u.callback = s.callback
             /\ u.used = [s.used EXCEPT ![ProcOf[t]] = n]
             /\ \A y \in Threads : /\ u.status[y] = IF y = t THEN "Dead" ELSE s.status[y]
                                   /\ u.timer[y] = IF y = t THEN 0 ELSE s.timer[y]
<1> DEFINE u == DeadSet(s, t, n)
           f == [s.timer EXCEPT ![t] = 0]
           g == [s.status EXCEPT ![t] = "Dead"]
           h == [s.used EXCEPT ![ProcOf[t]] = n]
<1>1. /\ f \in [Threads -> Nat] /\ g \in [Threads -> Status]
      /\ \A y \in Threads : /\ g[y] = IF y = t THEN "Dead" ELSE s.status[y]
                            /\ f[y] = IF y = t THEN 0 ELSE s.timer[y]
  BY DEF KStates, Status
<1>2. h \in [Procs -> Int]
  BY DEF KStates
<1>3. u = [s EXCEPT !.timer = f, !.status = g, !.used = h]
  BY DEF KStates, DeadSet
<1> HIDE DEF f, g, h, u
<1>4. u \in KStates /\ u.timer = f /\ u.status = g /\ u.used = h
  BY <1>1, <1>2, <1>3 DEF KStates
<1>5. /\ SameSetup(s, u) /\ SameLists(s, u) /\ SameOwners(s, u)
      /\ SameSignals(s, u) /\ u.prio = s.prio /\ u.mprio = s.mprio /\ u.ready = s.ready
      /\ u.levels = s.levels /\ u.crashed = s.crashed /\ u.callback = s.callback
  BY <1>3 DEF KStates, SameSetup, SameLists, SameOwners, SameSignals
<1> QED
  BY <1>1, <1>4, <1>5 DEF u, h

LEMMA UsedType ==
  ASSUME NEW s, s \in KStates, NEW t \in Threads
  PROVE  s.used[ProcOf[t]] \in Int
<1>1. ProcOf[t] \in Procs
  BY StateTypes
<1>2. s.used \in [Procs -> Int]
  BY DEF KStates
<1> QED
  BY <1>1, <1>2

(* Thread::Stop up to the first wakeup. *)
Ended(s, t) ==
  LET u == IF s.status[t] = "Ready" THEN Unqueue(s, t) ELSE s
  IN  DeadSet(u, t, u.used[ProcOf[t]] - 1)

LEMMA StopIs ==
  ASSUME NEW s, s \in KStates, NEW t \in Threads
  PROVE  Stop(s, t) =
           ReleaseThreadMutexes(LeaveObjects(WakeupAllWaitingThreads(Ended(s, t), t), t), t)
BY DEF Stop, Ended, DeadSet

LEMMA StopType ==
  ASSUME NEW s, s \in KStates, NEW t \in Threads
  PROVE  Stop(s, t) \in KStates
<1> DEFINE u == IF s.status[t] = "Ready" THEN Unqueue(s, t) ELSE s
           e == Ended(s, t)
           w == WakeupAllWaitingThreads(e, t)
           v == LeaveObjects(w, t)
           n == u.used[ProcOf[t]] - 1
<1>1. u \in KStates
  BY UnqueueFacts
<1>2. e = DeadSet(u, t, n)
  BY DEF Ended
<1> HIDE DEF u, e
<1>3. n \in Int
  BY <1>1, UsedType
<1> HIDE DEF n
<1>4. e \in KStates
  BY <1>1, <1>2, <1>3, DeadUpdate
<1>5. t \in Objects
  BY DEF Objects
<1>6. w \in KStates
  BY <1>4, <1>5, WakeupType
<1> HIDE DEF w
<1>7. v \in KStates
  BY <1>6, LeaveFacts
<1> HIDE DEF v
<1>8. ReleaseThreadMutexes(v, t) \in KStates
  BY <1>7, ReleaseType
<1> QED
  BY <1>8, StopIs DEF v, w, e

LEMMA WaitObjsIn ==
  ASSUME NEW s, s \in KStates
  PROVE  \A y \in Threads : \A x \in ToSet(s.waitObjs[y]) : x \in Objects
<1> TAKE y \in Threads
<1>1. s.waitObjs[y] \in Seq(Objects)
  BY StateTypes
<1> QED
  BY <1>1 DEF ToSet

(* The thread is dead, and those who wait for its end have not been woken. *)
LEMMA EndedFacts ==
  ASSUME NEW s, NEW t \in Threads, Mid(s, NoThread, NoThread), s.status[t] # "Dormant"
  PROVE  LET e == Ended(s, t)
         IN  /\ Mid(e, t, t) /\ SameSetup(s, e) /\ SameLists(s, e) /\ SameOwners(s, e)
             /\ e.used = [s.used EXCEPT ![ProcOf[t]] = @ - 1]
             /\ \A y \in Threads : e.status[y] = IF y = t THEN "Dead" ELSE s.status[y]
<1> DEFINE u == IF s.status[t] = "Ready" THEN Unqueue(s, t) ELSE s
           n == u.used[ProcOf[t]] - 1
           e == Ended(s, t)
<1>0. s \in KStates /\ Queue(s) /\ t # NoThread /\ NoThread \notin Threads /\ NoThread \notin Objects
  BY Kinds DEF Mid, Sound
<1>1. u \in KStates /\ SameButPrio(s, u) /\ u.prio = s.prio /\ u.mprio = s.mprio /\ u.levels = s.levels
  <2>1. SameButPrio(s, s)
    BY DEF SameButPrio, SameRest, SameThreads, SameLists, SameOwners, SameSignals
  <2> QED
    BY <1>0, <2>1, UnqueueFacts
<1>2. QueueBut(u, t)
  <2>1. CASE s.status[t] = "Ready"
    BY <1>0, <2>1, UnqueueFacts
  <2>2. CASE s.status[t] # "Ready"
    BY <1>0, <2>2 DEF Queue, QueueBut, NotQueued, QueuedRight
  <2> QED
    BY <2>1, <2>2
<1>3. e = DeadSet(u, t, n)
  BY DEF Ended
<1> HIDE DEF u, e
<1>4. n \in Int
  BY <1>1, UsedType
<1>5. u.used = s.used /\ n = s.used[ProcOf[t]] - 1
  BY <1>1 DEF SameButPrio, SameRest
<1> HIDE DEF n
<1>6. /\ e \in KStates /\ SameSetup(u, e) /\ SameLists(u, e) /\ SameOwners(u, e)
      /\ SameSignals(u, e) /\ e.prio = u.prio /\ e.mprio = u.mprio /\ e.ready = u.ready
      /\ e.levels = u.levels /\ e.crashed = u.crashed /\ e.callback = u.callback
      /\ e.used = [u.used EXCEPT ![ProcOf[t]] = n]
      /\ \A y \in Threads : /\ e.status[y] = IF y = t THEN "Dead" ELSE u.status[y]
                            /\ e.timer[y] = IF y = t THEN 0 ELSE u.timer[y]
  BY <1>1, <1>3, <1>4, DeadUpdate
<1>7. /\ SameSetup(s, e) /\ SameLists(s, e) /\ SameOwners(s, e) /\ SameSignals(s, e)
      /\ e.prio = s.prio /\ e.mprio = s.mprio /\ e.levels = s.levels /\ e.crashed = s.crashed
      /\ e.callback = s.callback
      /\ \A y \in Threads : /\ e.status[y] = IF y = t THEN "Dead" ELSE s.status[y]
                            /\ e.timer[y] = IF y = t THEN 0 ELSE s.timer[y]
  BY <1>1, <1>6 DEF SameButPrio, SameRest, SameSetup, SameLists, SameOwners, SameSignals, SameThreads
<1>8. Own(e, t)
  <2>1. Own(s, NoThread)
    BY DEF Mid, Sound
  <2>2. \A y \in Threads : y # t => (Alive(e, y) <=> Alive(s, y))
    BY <1>7 DEF Alive
  <2> QED
    BY <1>0, <1>7, <2>1, <2>2 DEF Own, SameOwners
<1>9. Inherit(e)
  <2>1. \A y \in Threads : Alive(e, y) => Alive(s, y)
    BY <1>7 DEF Alive
  <2>2. e.nominal = s.nominal /\ e.held = s.held
    BY <1>7 DEF SameSetup, SameOwners
  <2> QED
    BY <1>7, <2>1, <2>2 DEF Mid, Sound, Inherit, Best
<1>10. Queue(e)
  <2>1. QueuesDistinct(e)
    BY <1>2, <1>6 DEF QueueBut, QueuesDistinct
  <2>2. ASSUME NEW y \in Threads PROVE QueuedRight(e, y)
    <3>1. CASE y = t
      BY <1>2, <1>6, <3>1 DEF QueueBut, NotQueued, QueuedRight
    <3>2. CASE y # t
      BY <1>2, <1>6, <3>2 DEF QueueBut, QueuedRight
    <3> QED
      BY <3>1, <3>2
  <2> QED
    BY <2>1, <2>2 DEF Queue
<1>11. Levelled(e)
  BY <1>7 DEF Mid, Sound, Levelled
<1>12. Timed(e)
  BY <1>7 DEF Mid, Sound, Timed
<1>13. Sound(e, t)
  BY <1>6, <1>7, <1>8, <1>9, <1>10, <1>11, <1>12 DEF Mid, Sound
<1>14. Waits(e, t)
  BY <1>0, <1>7 DEF Mid, Waits, SameLists
<1>15. NoLost(e, t)
  <2>1. ASSUME NEW x \in Objects, NEW y \in Threads, x # t
        PROVE  ShouldWait(e, x, y) <=> ShouldWait(s, x, y)
    <3>1. e.lock = s.lock /\ e.holder = s.holder /\ e.count = s.count /\ e.signaled = s.signaled
      BY <1>7 DEF SameOwners, SameSignals
    <3>2. x \in Threads => e.status[x] = s.status[x]
      BY <1>7, <2>1
    <3> QED
      BY <3>1, <3>2, SameAvailability
  <2>2. \A y \in Threads : \A x \in ToSet(s.waitObjs[y]) : x \in Objects
    BY <1>0, WaitObjsIn
  <2>3. e.waitObjs = s.waitObjs /\ NoLost(s, NoThread)
    BY <1>7 DEF SameLists, Mid
  <2>4. ASSUME NEW y \in Threads
        PROVE  /\ e.status[y] = "WaitSynchAny" =>
                    \A x \in ToSet(e.waitObjs[y]) : x = t \/ ShouldWait(e, x, y)
               /\ e.status[y] = "WaitSynchAll" =>
                    \/ t \in ToSet(e.waitObjs[y])
                    \/ \E x \in ToSet(e.waitObjs[y]) : ShouldWait(e, x, y)
    <3>1. /\ s.status[y] = "WaitSynchAny" =>
                  \A x \in ToSet(s.waitObjs[y]) : x = NoThread \/ ShouldWait(s, x, y)
          /\ s.status[y] = "WaitSynchAll" =>
                  \/ NoThread \in ToSet(s.waitObjs[y])
                  \/ \E x \in ToSet(s.waitObjs[y]) : ShouldWait(s, x, y)
      BY <2>3 DEF NoLost
    <3>2. e.status[y] \in {"WaitSynchAny", "WaitSynchAll"} => e.status[y] = s.status[y]
      BY <1>7
    <3> QED
      BY <1>0, <2>1, <2>2, <2>3, <3>1, <3>2
  <2> QED
    BY <2>4 DEF NoLost
<1>16. NoInv(e, NoThread, {})
  <2>1. \A m \in Mutexes, y \in Threads : Pressing(e, m, y) => Pressing(s, m, y)
    BY <1>7 DEF Pressing, SameOwners, SameLists
  <2> QED
    BY <1>7, <2>1 DEF Mid, NoInv, NoInvAt
<1>17. Mid(e, t, t)
  BY <1>13, <1>14, <1>15, <1>16 DEF Mid
<1>18. e.used = [s.used EXCEPT ![ProcOf[t]] = @ - 1]
  BY <1>5, <1>6
<1> QED
  BY <1>7, <1>17, <1>18 DEF e

(* Thread t ended, and threads that waited for it or its mutexes woke up. *)
Stopped(s, u, t) ==
  /\ SameSetup(s, u) /\ Holding(s, u, {}) /\ u.used = [s.used EXCEPT ![ProcOf[t]] = @ - 1]
  /\ u.status[t] = "Dead"
  /\ \A y \in Threads : y # t => \/ u.status[y] = s.status[y]
                                 \/ s.status[y] \in WaitSynch /\ u.status[y] = "Ready"

LEMMA StopFacts ==
  ASSUME NEW s, NEW t \in Threads, Mid(s, NoThread, NoThread), s.status[t] # "Dormant"
  PROVE  Mid(Stop(s, t), NoThread, NoThread) /\ Stopped(s, Stop(s, t), t)
<1> DEFINE e == Ended(s, t)
           w == WakeupAllWaitingThreads(e, t)
           v == LeaveObjects(w, t)
           u == ReleaseThreadMutexes(v, t)
<1>0. /\ s \in KStates /\ t # NoThread /\ NoThread \notin Threads /\ t \in Objects
      /\ NoThread \notin Objects
  BY Kinds DEF Mid, Sound, Objects
<1>1. Stop(s, t) = u
  BY <1>0, StopIs
<1>2. /\ Mid(e, t, t) /\ SameSetup(s, e) /\ SameLists(s, e) /\ SameOwners(s, e)
      /\ e.used = [s.used EXCEPT ![ProcOf[t]] = @ - 1]
      /\ \A y \in Threads : e.status[y] = IF y = t THEN "Dead" ELSE s.status[y]
  BY EndedFacts
<1> HIDE DEF e
<1>3. t \notin ToSet(e.waitObjs[t])
  BY <1>2 DEF Mid, Waits
<1>4. Mid(w, t, NoThread) /\ Woke(e, w, t)
  BY <1>0, <1>2, <1>3, WakeupFacts
<1> HIDE DEF w
<1>5. w \in KStates /\ Sound(w, t) /\ Waits(w, t)
  BY <1>4 DEF Mid, Sound
<1>6. v \in KStates /\ Left(w, v, t)
  BY <1>5, LeaveFacts
<1> HIDE DEF v
<1>7. Waits(v, t)
  BY <1>5, <1>6, LeftWaits
<1>8. Sound(v, t) /\ NoInv(v, NoThread, {})
  BY <1>4, <1>5, <1>6 DEF Left, Calm, Mid
<1>9. v.status[t] = "Dead"
  BY <1>8 DEF Sound, Own
<1>10. NoLost(v, NoThread)
  <2>1. \A y \in Threads, x \in Objects : ShouldWait(v, x, y) <=> ShouldWait(w, x, y)
    BY <1>6, SameAvailability DEF Left, SameButLists, SameThreads, SameOwners, SameSignals
  <2>2. \A y \in Threads : \A x \in ToSet(w.waitObjs[y]) : x \in Objects
    BY <1>5, WaitObjsIn
  <2>3. v.status = w.status /\ \A y \in Threads : y # t => v.waitObjs[y] = w.waitObjs[y]
    BY <1>6 DEF Left, SameButLists, SameThreads
  <2> QED
    BY <1>0, <1>4, <1>9, <2>1, <2>2, <2>3 DEF Mid, NoLost
<1>11. Mid(v, t, NoThread)
  BY <1>7, <1>8, <1>10 DEF Mid
<1>12. v.waitObjs[t] = <<>>
  BY <1>6 DEF Left
<1>13. \A m \in Mutexes : v.holder[m] = t <=> m \in v.held[t]
  <2>1. \A m \in Mutexes : s.holder[m] = t <=> m \in s.held[t]
    BY <1>0 DEF Mid, Sound, Own
  <2>2. \A m \in Mutexes : e.holder[m] = t <=> m \in e.held[t]
    BY <1>2, <2>1 DEF SameOwners
  <2>3. \A m \in Mutexes : w.holder[m] = t <=> m \in w.held[t]
    BY <1>4, <2>2 DEF Woke
  <2> QED
    BY <1>6, <2>3 DEF Left, SameButLists, SameOwners
<1>14. Mid(u, NoThread, NoThread) /\ Woke(v, u, NoThread)
  BY <1>11, <1>12, <1>13, ReleaseFacts
<1> HIDE DEF u
<1>15. v.status = w.status /\ SameRest(w, v)
  BY <1>6 DEF Left, SameButLists, SameThreads
<1>16. SameRest(e, u)
  BY <1>4, <1>14, <1>15 DEF Woke, SameRest
<1>17. SameSetup(s, u) /\ u.used = [s.used EXCEPT ![ProcOf[t]] = @ - 1]
  BY <1>2, <1>16 DEF SameRest, SameSetup
<1>18. \A y \in Threads : \/ u.status[y] = e.status[y]
                          \/ e.status[y] \in WaitSynch /\ u.status[y] = "Ready"
  BY <1>4, <1>14, <1>15 DEF Woke, WaitSynch
<1>19. u.status[t] = "Dead"
  BY <1>2, <1>18 DEF WaitSynch
<1>20. Holding(s, u, {})
  <2>1. Holding(s, e, {}) /\ Holding(e, w, {}) /\ Holding(w, v, {}) /\ Holding(v, u, {})
    <3>1. e.holder = s.holder /\ v.holder = w.holder
      BY <1>2, <1>6 DEF SameOwners, Left, SameButLists
    <3> QED
      BY <1>4, <1>14, <3>1, HoldingSame DEF Woke
  <2>2. Lasting(e, w) /\ Lasting(w, v) /\ Lasting(v, u)
    BY <1>4, <1>14, <1>15 DEF Woke, Lasting, WaitSynch
  <2>3. Holding(s, w, {})
    BY <2>1, <2>2, HoldingTrans
  <2>4. Holding(s, v, {})
    BY <2>1, <2>2, <2>3, HoldingTrans
  <2> QED
    BY <2>1, <2>2, <2>4, HoldingTrans
<1> QED
  BY <1>1, <1>2, <1>14, <1>17, <1>18, <1>19, <1>20 DEF Stopped

(* Stopping the threads of a list, one after the other. *)
StopAll(s, ts) ==
  LET u[i \in 0 .. Len(ts)] == IF i = 0 THEN s ELSE Stop(u[i - 1], ts[i])
  IN  u[Len(ts)]

LEMMA StopAllLoop ==
  ASSUME NEW s, s \in KStates, NEW ts \in Seq(Threads)
  PROVE  \E g \in [0 .. Len(ts) -> KStates] :
           /\ g[0] = s /\ \A i \in 1 .. Len(ts) : g[i] = Stop(g[i - 1], ts[i])
           /\ StopAll(s, ts) = g[Len(ts)]
<1> DEFINE n == Len(ts)
           Def(g) == g = [i \in 0 .. n |-> IF i = 0 THEN s ELSE Stop(g[i - 1], ts[i])]
           step == [w \in (1 .. n) \X KStates |-> Stop(w[2], ts[w[1]])]
           g == CHOOSE g : Def(g)
<1>1. n \in Nat /\ \A i \in 1 .. n : ts[i] \in Threads
  OBVIOUS
<1> HIDE DEF n
<1>2. \A w \in KStates, i \in 1 .. n : Stop(w, ts[i]) \in KStates
  BY <1>1, StopType
<1>3. step \in [(1 .. n) \X KStates -> KStates]
  BY <1>2
<1>4. \A w \in KStates, i \in 1 .. n : step[<<i, w>>] = Stop(w, ts[i])
  OBVIOUS
<1> HIDE DEF step
<1>5. PICK f : IsLoop(f, n, KStates, s, step)
  BY <1>1, <1>3, LoopExists
<1>6. /\ f \in [0 .. n -> KStates]
      /\ f[0] = s /\ \A i \in 1 .. n : f[i] = step[<<i, f[i - 1]>>]
  BY <1>5 DEF IsLoop
<1>7. \A i \in 1 .. n : f[i] = Stop(f[i - 1], ts[i])
  <2> TAKE i \in 1 .. n
  <2>1. f[i - 1] \in KStates
    BY <1>1, <1>6
  <2> QED
    BY <2>1, <1>4, <1>6
<1>8. Def(f)
  BY <1>1, <1>6, <1>7
<1>9. Def(g)
  BY <1>8
<1>10. StopAll(s, ts) = g[n]
  BY DEF StopAll, n
<1> HIDE DEF g
<1>11. g[0] = s /\ \A i \in 1 .. n : g[i] = Stop(g[i - 1], ts[i])
  BY <1>1, <1>9
<1>12. g \in [0 .. n -> KStates]
  <2>1. \A i \in 0 .. n : g[i] \in KStates
    BY <1>1, <1>2, <1>11, LoopStays
  <2>2. g = [i \in 0 .. n |-> g[i]]
    BY <1>9
  <2> QED
    BY <2>1, <2>2
<1> QED
  BY <1>10, <1>11, <1>12 DEF n

LEMMA StopAllType ==
  ASSUME NEW s, s \in KStates, NEW ts \in Seq(Threads)
  PROVE  StopAll(s, ts) \in KStates
<1> DEFINE n == Len(ts)
<1>1. PICK g \in [0 .. n -> KStates] : StopAll(s, ts) = g[n]
  BY StopAllLoop
<1>2. n \in 0 .. n
  OBVIOUS
<1> HIDE DEF n
<1> QED
  BY <1>1, <1>2

(* The threads that a process still has. *)
LiveOf(s, p) == {t \in Threads : Alive(s, t) /\ ProcOf[t] = p}

(* The count of the resource limit moved with the threads. *)
SameDrift(s, u) == \A p \in Procs : Drift(u, p) = Drift(s, p)

LEMMA DriftIs ==
  ASSUME NEW s, NEW p
  PROVE  Drift(s, p) = s.used[p] - Cardinality(LiveOf(s, p))
<1>1. LiveOf(s, p) = {t \in Threads : s.status[t] \notin {"Dormant", "Dead"} /\ ProcOf[t] = p}
  BY DEF LiveOf, Alive
<1> QED
  BY <1>1 DEF Drift

LEMMA DriftSame ==
  ASSUME NEW s, NEW u, u.used = s.used, \A y \in Threads : Alive(u, y) <=> Alive(s, y)
  PROVE  SameDrift(s, u)
<1>1. \A p : LiveOf(u, p) = LiveOf(s, p)
  BY DEF LiveOf
<1> QED
  BY <1>1, DriftIs DEF SameDrift

LEMMA DriftTrans ==
  ASSUME NEW s, NEW u, NEW v, SameDrift(s, u), SameDrift(u, v)
  PROVE  SameDrift(s, v)
BY DEF SameDrift

LEMMA StopCounts ==
  ASSUME NEW s, s \in KStates, NEW u, NEW t \in Threads, Stopped(s, u, t), Alive(s, t)
  PROVE  SameDrift(s, u)
<1>0. IsFiniteSet(Threads) /\ ProcOf[t] \in Procs /\ s.used \in [Procs -> Int]
  BY KernelAssumption, StateTypes DEF KStates
<1>1. \A y \in Threads : Alive(u, y) <=> Alive(s, y) /\ y # t
  BY DEF Stopped, Alive, WaitSynch
<1>2. SUFFICES ASSUME NEW p \in Procs PROVE Drift(u, p) = Drift(s, p)
  BY DEF SameDrift
<1>3. LiveOf(u, p) = LiveOf(s, p) \ {t}
  BY <1>1 DEF LiveOf
<1>4. IsFiniteSet(LiveOf(s, p))
  <2>1. LiveOf(s, p) \subseteq Threads
    BY DEF LiveOf
  <2> QED
    BY <1>0, <2>1, FS_Subset
<1>5. Cardinality(LiveOf(s, p) \ {t}) =
        IF t \in LiveOf(s, p) THEN Cardinality(LiveOf(s, p)) - 1 ELSE Cardinality(LiveOf(s, p))
  BY <1>4, FS_RemoveElement
<1>6. t \in LiveOf(s, p) <=> p = ProcOf[t]
  BY DEF LiveOf
<1>7. u.used[p] = IF p = ProcOf[t] THEN s.used[p] - 1 ELSE s.used[p]
  BY <1>0 DEF Stopped
<1>8. Cardinality(LiveOf(s, p)) \in Int /\ s.used[p] \in Int
  BY <1>0, <1>4, FS_CardinalityType
<1> DEFINE a == Cardinality(LiveOf(s, p))
           b == Cardinality(LiveOf(u, p))
<1>9. Drift(s, p) = s.used[p] - a /\ Drift(u, p) = u.used[p] - b
  BY DriftIs
<1>10. b = IF p = ProcOf[t] THEN a - 1 ELSE a
  BY <1>3, <1>5, <1>6
<1> HIDE DEF a, b
<1>11. a \in Int
  BY <1>8 DEF a
<1> QED
  BY <1>7, <1>8, <1>9, <1>10, <1>11

(* The threads F ended, and others woke up. *)
Ends(s, u, F) ==
  /\ SameSetup(s, u) /\ Holding(s, u, {})
  /\ \A y \in Threads : /\ y \in F => u.status[y] = "Dead"
                        /\ y \notin F => \/ u.status[y] = s.status[y]
                                         \/ s.status[y] \in WaitSynch /\ u.status[y] = "Ready"

LEMMA EndsOneMore ==
  ASSUME NEW s, NEW w, NEW u, NEW F, Ends(s, w, F), NEW t \in Threads, Stopped(w, u, t)
  PROVE  Ends(s, u, F \cup {t})
<1>1. SameSetup(s, u)
  BY DEF Ends, Stopped, SameSetup
<1>2. ASSUME NEW y \in Threads
      PROVE  /\ y \in F \cup {t} => u.status[y] = "Dead"
             /\ y \notin F \cup {t} => \/ u.status[y] = s.status[y]
                                       \/ s.status[y] \in WaitSynch /\ u.status[y] = "Ready"
  BY DEF Ends, Stopped, WaitSynch
<1>3. Lasting(w, u)
  BY DEF Stopped, Lasting, WaitSynch
<1>4. Holding(s, u, {})
  BY <1>3, HoldingTrans DEF Ends, Stopped
<1> QED
  BY <1>1, <1>2, <1>4 DEF Ends

LEMMA StopAllFacts ==
  ASSUME NEW s, Mid(s, NoThread, NoThread), NEW ts \in Seq(Threads),
         \A t \in ToSet(ts) : s.status[t] # "Dormant"
  PROVE  /\ Mid(StopAll(s, ts), NoThread, NoThread) /\ Ends(s, StopAll(s, ts), ToSet(ts))
         /\ Distinct(ts) /\ (\A t \in ToSet(ts) : Alive(s, t)) => SameDrift(s, StopAll(s, ts))
<1> DEFINE n == Len(ts)
           Proper == Distinct(ts) /\ \A t \in ToSet(ts) : Alive(s, t)
<1>0. s \in KStates
  BY DEF Mid, Sound
<1>1. PICK g \in [0 .. n -> KStates] :
        /\ g[0] = s /\ \A i \in 1 .. n : g[i] = Stop(g[i - 1], ts[i])
        /\ StopAll(s, ts) = g[n]
  BY <1>0, StopAllLoop
<1>2. /\ n \in Nat /\ DOMAIN ts = 1 .. n
      /\ \A i \in 1 .. n : ts[i] \in Threads /\ ts[i] \in ToSet(ts)
  BY DEF ToSet
<1>3. Distinct(ts) => \A i, j \in 1 .. n : ts[i] = ts[j] => i = j
  BY <1>2 DEF Distinct
<1> HIDE DEF n
<1> DEFINE First(i) == {ts[j] : j \in 1 .. i}
           Good(w, i) == Mid(w, NoThread, NoThread) /\ Ends(s, w, First(i)) /\ (Proper => SameDrift(s, w))
           T == {i \in 0 .. n : Good(g[i], i)}
<1> HIDE DEF Proper
<1>4. 0 \in T
  <2>1. First(0) = {}
    OBVIOUS
  <2> HIDE DEF First
  <2>2. Ends(s, s, {})
    BY HoldingSame DEF Ends, SameSetup
  <2>3. Good(s, 0)
    BY <2>1, <2>2 DEF SameDrift
  <2> HIDE DEF Good
  <2> QED
    BY <1>1, <1>2, <2>3
<1>5. ASSUME NEW i \in 1 .. n, i - 1 \in T PROVE i \in T
  <2> DEFINE w == g[i - 1]
             u == g[i]
             t == ts[i]
  <2>0. i - 1 \in 0 .. n /\ i \in 0 .. n
    BY <1>2
  <2>a. Good(w, i - 1)
    BY <1>5
  <2>1. w \in KStates /\ u = Stop(w, t) /\ t \in Threads /\ t \in ToSet(ts)
    BY <1>1, <1>2, <2>0
  <2>2. First(i) = First(i - 1) \cup {t}
    <3>1. 1 .. i = (1 .. i - 1) \cup {i}
      BY <1>2
    <3> QED
      BY <3>1
  <2>3. Proper => t \notin First(i - 1)
    <3>1. \A j \in 1 .. i - 1 : j \in 1 .. n /\ j # i
      BY <1>2
    <3> QED
      BY <1>3, <3>1 DEF Proper
  <2> HIDE DEF w, u, t, First
  <2>4. Mid(w, NoThread, NoThread) /\ Ends(s, w, First(i - 1)) /\ (Proper => SameDrift(s, w))
    BY <2>a
  <2>5. w.status[t] # "Dormant"
    BY <2>1, <2>4 DEF Ends
  <2>6. Mid(u, NoThread, NoThread) /\ Stopped(w, u, t)
    BY <2>1, <2>4, <2>5, StopFacts
  <2>7. Ends(s, u, First(i))
    BY <2>1, <2>2, <2>4, <2>6, EndsOneMore
  <2>8. Proper => SameDrift(s, u)
    <3> HAVE Proper
    <3>1. Alive(s, t)
      BY <2>1 DEF Proper
    <3>2. Alive(w, t)
      BY <2>1, <2>3, <2>4, <3>1 DEF Ends, Alive
    <3> QED
      BY <2>1, <2>4, <2>6, <3>2, StopCounts, DriftTrans
  <2>9. Good(u, i)
    BY <2>6, <2>7, <2>8
  <2> HIDE DEF Good
  <2> QED
    BY <2>0, <2>9 DEF u
<1> HIDE DEF T
<1>6. n \in T
  BY <1>2, <1>4, <1>5, UpTo DEF Inductive
<1>7. First(n) = ToSet(ts)
  BY <1>2 DEF ToSet
<1>8. Good(g[n], n)
  BY <1>6 DEF T
<1> HIDE DEF First
<1> QED
  BY <1>1, <1>7, <1>8 DEF Proper

OthersOf(s, p, c) ==
  {t \in Threads : /\ ProcOf[t] = p /\ CoreOf[t] = c /\ t # s.cur[c]
                   /\ s.status[t] \notin {"Dead", "Dormant"}}

LEMMA OrderFacts ==
  ASSUME NEW S \in SUBSET Threads
  PROVE  /\ Filter(ThreadOrder, S) \in Seq(Threads) /\ ToSet(Filter(ThreadOrder, S)) = S
         /\ Distinct(Filter(ThreadOrder, S))
<1>1. ThreadOrder \in Seq(Threads) /\ ToSet(ThreadOrder) = Threads /\ Distinct(ThreadOrder)
  BY KernelAssumption
<1>2. /\ Filter(ThreadOrder, S) \in Seq(Threads)
      /\ ToSet(Filter(ThreadOrder, S)) = ToSet(ThreadOrder) \cap S
      /\ Distinct(ThreadOrder) => Distinct(Filter(ThreadOrder, S))
  BY <1>1, FilterFacts
<1> QED
  BY <1>1, <1>2

LEMMA TerminateThreadsIs ==
  ASSUME NEW s, NEW p, NEW c
  PROVE  TerminateProcessThreads(s, p, c) =
           LET all == StopAll(s, Filter(ThreadOrder, OthersOf(s, p, c)))
           IN  IF s.cur[c] # NoThread /\ ProcOf[s.cur[c]] = p THEN Stop(all, s.cur[c]) ELSE all
BY DEF TerminateProcessThreads, StopAll, OthersOf

LEMMA TerminateThreadsType ==
  ASSUME NEW s, s \in KStates, NEW p, NEW c \in Cores
  PROVE  TerminateProcessThreads(s, p, c) \in KStates
<1> DEFINE S == OthersOf(s, p, c)
           ts == Filter(ThreadOrder, S)
           all == StopAll(s, ts)
           t == s.cur[c]
<1>1. S \in SUBSET Threads
  BY DEF OthersOf
<1>2. TerminateProcessThreads(s, p, c) = IF t # NoThread /\ ProcOf[t] = p THEN Stop(all, t) ELSE all
  BY TerminateThreadsIs
<1> HIDE DEF S
<1>3. ts \in Seq(Threads)
  BY <1>1, OrderFacts
<1> HIDE DEF ts
<1>4. all \in KStates
  BY <1>3, StopAllType
<1>5. t \in Threads \cup {NoThread}
  BY StateTypes
<1> HIDE DEF all, t
<1>6. t # NoThread => Stop(all, t) \in KStates
  BY <1>4, <1>5, StopType
<1> QED
  BY <1>2, <1>4, <1>6

(* Threads ended or woke up; none was created. *)
Fewer(s, u) ==
  /\ SameSetup(s, u) /\ Holding(s, u, {})
  /\ \A y \in Threads : \/ u.status[y] = s.status[y]
                        \/ s.status[y] \in WaitSynch /\ u.status[y] = "Ready"
                        \/ s.status[y] # "Dormant" /\ u.status[y] = "Dead"

LEMMA FewerTrans ==
  ASSUME NEW s, NEW u, NEW v, Fewer(s, u), Fewer(u, v)
  PROVE  Fewer(s, v)
<1>1. SameSetup(s, v)
  BY DEF Fewer, SameSetup
<1>2. \A y \in Threads : \/ v.status[y] = s.status[y]
                         \/ s.status[y] \in WaitSynch /\ v.status[y] = "Ready"
                         \/ s.status[y] # "Dormant" /\ v.status[y] = "Dead"
  BY DEF Fewer, WaitSynch
<1>3. Lasting(u, v)
  BY DEF Fewer, Lasting, WaitSynch
<1>4. Holding(s, v, {})
  BY <1>3, HoldingTrans DEF Fewer
<1> QED
  BY <1>1, <1>2, <1>4 DEF Fewer

(* The current thread of a core exists. *)
CurExists(s, c) == s.cur[c] # NoThread => s.status[s.cur[c]] # "Dormant"

LEMMA TerminateThreadsFacts ==
  ASSUME NEW s, Mid(s, NoThread, NoThread), NEW p, NEW c \in Cores, CurExists(s, c)
  PROVE  LET u == TerminateProcessThreads(s, p, c)
         IN  /\ Mid(u, NoThread, NoThread) /\ Fewer(s, u)
             /\ (s.cur[c] # NoThread /\ ProcOf[s.cur[c]] = p => Alive(s, s.cur[c])) => SameDrift(s, u)
             /\ \A y \in Threads : Alive(s, y) /\ CoreOf[y] # c /\ y # s.cur[c] => Alive(u, y)
<1> DEFINE S == OthersOf(s, p, c)
           ts == Filter(ThreadOrder, S)
           all == StopAll(s, ts)
           t == s.cur[c]
           u == TerminateProcessThreads(s, p, c)
<1>0. s \in KStates
  BY DEF Mid, Sound
<1>1. S \in SUBSET Threads /\ t \notin S /\ \A y \in S : Alive(s, y) /\ CoreOf[y] = c
  BY DEF OthersOf, Alive
<1>2. u = IF t # NoThread /\ ProcOf[t] = p THEN Stop(all, t) ELSE all
  BY TerminateThreadsIs
<1>3. t \in Threads \cup {NoThread}
  BY <1>0, StateTypes
<1>c. (t # NoThread => s.status[t] # "Dormant") /\ t = s.cur[c]
  BY DEF CurExists
<1> HIDE DEF S, t
<1>4. ts \in Seq(Threads) /\ ToSet(ts) = S /\ Distinct(ts)
  BY <1>1, OrderFacts
<1> HIDE DEF ts
<1>5. \A y \in ToSet(ts) : s.status[y] # "Dormant" /\ Alive(s, y)
  BY <1>1, <1>4 DEF Alive
<1>6. /\ Mid(all, NoThread, NoThread) /\ Ends(s, all, ToSet(ts))
      /\ SameDrift(s, all)
  BY <1>4, <1>5, StopAllFacts
<1> HIDE DEF all, u
<1>7. /\ Fewer(s, all)
      /\ \A y \in Threads : Alive(s, y) /\ y \notin S => Alive(all, y)
  <2>1. Fewer(s, all)
    BY <1>5, <1>6 DEF Ends, Fewer
  <2>2. \A y \in Threads : Alive(s, y) /\ y \notin S => Alive(all, y)
    BY <1>4, <1>6 DEF Ends, Alive
  <2> QED
    BY <2>1, <2>2
<1>8. CASE t # NoThread /\ ProcOf[t] = p
  <2>1. t \in Threads /\ all \in KStates
    BY <1>3, <1>6, <1>8 DEF Mid, Sound
  <2>2. all.status[t] # "Dormant"
    BY <1>c, <1>6, <1>8, <2>1 DEF Ends
  <2>3. Mid(u, NoThread, NoThread) /\ Stopped(all, u, t)
    BY <1>2, <1>6, <1>8, <2>1, <2>2, StopFacts
  <2>4. Fewer(all, u)
    BY <2>2, <2>3 DEF Stopped, Fewer
  <2>5. Fewer(s, u)
    BY <1>7, <2>4, FewerTrans
  <2>6. ASSUME Alive(s, t) PROVE SameDrift(s, u)
    <3>1. Alive(all, t)
      BY <1>1, <1>7, <2>1, <2>6
    <3> QED
      BY <1>6, <2>1, <2>3, <3>1, StopCounts, DriftTrans
  <2>7. \A y \in Threads : Alive(s, y) /\ CoreOf[y] # c /\ y # t => Alive(u, y)
    BY <1>1, <1>7, <2>3 DEF Stopped, Alive
  <2> QED
    BY <1>c, <1>8, <2>3, <2>5, <2>6, <2>7 DEF u
<1>9. CASE ~(t # NoThread /\ ProcOf[t] = p)
  <2>1. u = all
    BY <1>2, <1>9
  <2> QED
    BY <1>1, <1>c, <1>6, <1>7, <2>1 DEF u
<1> QED
  BY <1>8, <1>9

(* KernelSystem::TerminateProcess: the cores one after the other. *)
TerminateAll(s, p) ==
  LET u[i \in 0 .. NumCores] ==
        IF i = 0 THEN s ELSE TerminateProcessThreads(u[i - 1], p, i - 1)
  IN  u[NumCores]

LEMMA TerminateLoop ==
  ASSUME NEW s, s \in KStates, NEW p
  PROVE  \E g \in [0 .. NumCores -> KStates] :
           /\ g[0] = s /\ \A i \in 1 .. NumCores : g[i] = TerminateProcessThreads(g[i - 1], p, i - 1)
           /\ TerminateAll(s, p) = g[NumCores]
<1> DEFINE n == NumCores
           Def(g) == g = [i \in 0 .. n |-> IF i = 0 THEN s ELSE TerminateProcessThreads(g[i - 1], p, i - 1)]
           step == [w \in (1 .. n) \X KStates |-> TerminateProcessThreads(w[2], p, w[1] - 1)]
           g == CHOOSE g : Def(g)
<1>1. n \in Nat /\ \A i \in 1 .. n : i - 1 \in Cores
  BY KernelAssumption DEF Cores
<1> HIDE DEF n
<1>2. \A w \in KStates, i \in 1 .. n : TerminateProcessThreads(w, p, i - 1) \in KStates
  BY <1>1, TerminateThreadsType
<1>3. step \in [(1 .. n) \X KStates -> KStates]
  BY <1>2
<1>4. \A w \in KStates, i \in 1 .. n : step[<<i, w>>] = TerminateProcessThreads(w, p, i - 1)
  OBVIOUS
<1> HIDE DEF step
<1>5. PICK f : IsLoop(f, n, KStates, s, step)
  BY <1>1, <1>3, LoopExists
<1>6. /\ f \in [0 .. n -> KStates]
      /\ f[0] = s /\ \A i \in 1 .. n : f[i] = step[<<i, f[i - 1]>>]
  BY <1>5 DEF IsLoop
<1>7. \A i \in 1 .. n : f[i] = TerminateProcessThreads(f[i - 1], p, i - 1)
  <2> TAKE i \in 1 .. n
  <2>1. f[i - 1] \in KStates
    BY <1>1, <1>6
  <2> QED
    BY <2>1, <1>4, <1>6
<1>8. Def(f)
  BY <1>1, <1>6, <1>7
<1>9. Def(g)
  BY <1>8
<1>10. TerminateAll(s, p) = g[n]
  BY DEF TerminateAll, n
<1> HIDE DEF g
<1>11. g[0] = s /\ \A i \in 1 .. n : g[i] = TerminateProcessThreads(g[i - 1], p, i - 1)
  BY <1>1, <1>9
<1>12. g \in [0 .. n -> KStates]
  <2>1. \A i \in 0 .. n : g[i] \in KStates
    BY <1>1, <1>2, <1>11, LoopStays
  <2>2. g = [i \in 0 .. n |-> g[i]]
    BY <1>9
  <2> QED
    BY <2>1, <2>2
<1> QED
  BY <1>10, <1>11, <1>12 DEF n

LEMMA TerminateAllType ==
  ASSUME NEW s, s \in KStates, NEW p
  PROVE  TerminateAll(s, p) \in KStates
<1> DEFINE n == NumCores
<1>1. PICK g \in [0 .. n -> KStates] : TerminateAll(s, p) = g[n]
  BY TerminateLoop
<1>2. n \in 0 .. n
  BY KernelAssumption
<1> HIDE DEF n
<1> QED
  BY <1>1, <1>2

(* No current thread of the process has ended. *)
CurAlive(s, p) ==
  \A c \in Cores : s.cur[c] # NoThread => /\ CoreOf[s.cur[c]] = c
                                          /\ ProcOf[s.cur[c]] = p => Alive(s, s.cur[c])

LEMMA TerminateAllFacts ==
  ASSUME NEW s, Mid(s, NoThread, NoThread), NEW p, \A c \in Cores : CurExists(s, c)
  PROVE  /\ Mid(TerminateAll(s, p), NoThread, NoThread) /\ Fewer(s, TerminateAll(s, p))
         /\ CurAlive(s, p) => SameDrift(s, TerminateAll(s, p))
<1> DEFINE n == NumCores
<1>0. s \in KStates
  BY DEF Mid, Sound
<1>1. PICK g \in [0 .. n -> KStates] :
        /\ g[0] = s /\ \A i \in 1 .. n : g[i] = TerminateProcessThreads(g[i - 1], p, i - 1)
        /\ TerminateAll(s, p) = g[n]
  BY <1>0, TerminateLoop
<1>2. n \in Nat /\ Cores = 0 .. n - 1
  BY KernelAssumption DEF Cores
<1>3. \A i \in 1 .. n : i - 1 \in Cores
  BY <1>2
<1> HIDE DEF n
<1> DEFINE Later(w, i) == \A d \in Cores : d >= i /\ s.cur[d] # NoThread /\ ProcOf[s.cur[d]] = p
                                           => Alive(w, s.cur[d])
           Good(w, i) == /\ Mid(w, NoThread, NoThread) /\ Fewer(s, w)
                         /\ CurAlive(s, p) => SameDrift(s, w) /\ Later(w, i)
           T == {i \in 0 .. n : Good(g[i], i)}
<1>4. 0 \in T
  <2>1. Fewer(s, s)
    BY HoldingSame DEF Fewer, SameSetup
  <2>2. Good(s, 0)
    BY <2>1 DEF SameDrift, CurAlive
  <2> HIDE DEF Good
  <2> QED
    BY <1>1, <1>2, <2>2
<1>5. ASSUME NEW i \in 1 .. n, i - 1 \in T PROVE i \in T
  <2> DEFINE w == g[i - 1]
             u == g[i]
             c == i - 1
  <2>0. i - 1 \in 0 .. n /\ i \in 0 .. n
    BY <1>2
  <2>a. Good(w, i - 1)
    BY <1>5
  <2>1. w \in KStates /\ u = TerminateProcessThreads(w, p, c) /\ c \in Cores
    BY <1>1, <1>3, <2>0
  <2>b. /\ c >= i - 1 /\ i \in Int
        /\ \A d \in Cores : d >= i => d >= i - 1 /\ d # c
    BY <1>2
  <2> HIDE DEF w, u, c
  <2>2. Mid(w, NoThread, NoThread) /\ Fewer(s, w) /\ w.cur = s.cur
    BY <2>a DEF Fewer, SameSetup
  <2>3. CurExists(w, c)
    <3>1. w.cur[c] = s.cur[c]
      BY <2>2 DEF Fewer, SameSetup
    <3>2. s.cur[c] # NoThread => s.cur[c] \in Threads
      BY <1>0, <2>1, StateTypes
    <3>3. CurExists(s, c)
      BY <2>1
    <3> QED
      BY <2>2, <3>1, <3>2, <3>3 DEF Fewer, CurExists
  <2>4. /\ Mid(u, NoThread, NoThread) /\ Fewer(w, u)
        /\ (s.cur[c] # NoThread /\ ProcOf[s.cur[c]] = p => Alive(w, s.cur[c])) => SameDrift(w, u)
        /\ \A y \in Threads : Alive(w, y) /\ CoreOf[y] # c /\ y # s.cur[c] => Alive(u, y)
    BY <2>1, <2>2, <2>3, TerminateThreadsFacts
  <2>5. Fewer(s, u)
    BY <2>2, <2>4, FewerTrans
  <2>6. ASSUME CurAlive(s, p) PROVE SameDrift(s, u) /\ Later(u, i)
    <3>1. SameDrift(s, w) /\ Later(w, i - 1)
      BY <2>a, <2>6
    <3>2. s.cur[c] # NoThread /\ ProcOf[s.cur[c]] = p => Alive(w, s.cur[c])
      BY <2>1, <2>b, <3>1
    <3>3. SameDrift(s, u)
      BY <2>4, <3>1, <3>2, DriftTrans
    <3>4. ASSUME NEW d \in Cores, d >= i, s.cur[d] # NoThread, ProcOf[s.cur[d]] = p
          PROVE  Alive(u, s.cur[d])
      <4>1. Alive(w, s.cur[d]) /\ d # c
        BY <2>b, <3>1, <3>4
      <4>2. s.cur[d] \in Threads /\ CoreOf[s.cur[d]] # c
        BY <1>0, <2>6, <3>4, <4>1, StateTypes DEF CurAlive
      <4>3. s.cur[d] # s.cur[c]
        BY <2>1, <2>6, <3>4, <4>2 DEF CurAlive
      <4> QED
        BY <2>4, <4>1, <4>2, <4>3
    <3> QED
      BY <3>3, <3>4
  <2>7. Good(u, i)
    BY <2>4, <2>5, <2>6
  <2> HIDE DEF Good
  <2> QED
    BY <2>0, <2>7 DEF u
<1> HIDE DEF T
<1>6. n \in T
  BY <1>2, <1>4, <1>5, UpTo DEF Inductive
<1>7. Good(g[n], n)
  BY <1>6 DEF T
<1> QED
  BY <1>1, <1>7

-----------------------------------------------------------------------------
(* The system calls.  Between two handlers no thread is about to end. *)

CurCore(s) ==
  \A c \in Cores : s.cur[c] # NoThread => /\ CoreOf[s.cur[c]] = c
                                          /\ s.status[s.cur[c]] # "Dormant"

KInv(s) == Mid(s, NoThread, NoThread) /\ CurCore(s) /\ s.runsOn = {}

(* A handler that creates and ends no thread, counts none and takes no      *)
(* mutex from its holder, but for those of M.                               *)
HandledBut(s, u, M) ==
  /\ Mid(u, NoThread, NoThread) /\ u.cur = s.cur /\ u.runsOn = s.runsOn /\ u.used = s.used
  /\ \A y \in Threads : /\ u.status[y] = "Dormant" <=> s.status[y] = "Dormant"
                        /\ u.status[y] = "Dead" <=> s.status[y] = "Dead"
  /\ Holding(s, u, M)

Handled(s, u) == HandledBut(s, u, {})

LEMMA HandledInv ==
  ASSUME NEW s, KInv(s), NEW u, NEW M, HandledBut(s, u, M)
  PROVE  KInv(u) /\ SameDrift(s, u)
<1>1. s \in KStates /\ \A c \in Cores : s.cur[c] # NoThread => s.cur[c] \in Threads
  BY StateTypes DEF KInv, Mid, Sound
<1>2. CurCore(u)
  BY <1>1 DEF KInv, HandledBut, CurCore
<1>3. SameDrift(s, u)
  BY DriftSame DEF HandledBut, Alive
<1> QED
  BY <1>2, <1>3 DEF KInv, HandledBut

LEMMA WokeHandled ==
  ASSUME NEW s, NEW u, Mid(u, NoThread, NoThread), Woke(s, u, NoThread)
  PROVE  Handled(s, u)
BY DEF Handled, HandledBut, Woke, SameRest, WaitSynch

LEMMA SameHandled ==
  ASSUME NEW s, NEW u, Mid(u, NoThread, NoThread), SameRest(s, u), u.status = s.status,
         Holding(s, u, {})
  PROVE  Handled(s, u)
BY DEF Handled, HandledBut, SameRest

(* The caller takes what is free: nobody pressing waits for a free mutex. *)
LEMMA FreeIsFair ==
  ASSUME NEW s, Mid(s, NoThread, NoThread), NEW m \in Mutexes, NEW t \in Threads
  PROVE  FairTo(s, m, t)
<1>0. m \in Objects /\ NoThread \notin Objects /\ Waits(s, NoThread) /\ s \in KStates
  BY Kinds DEF Objects, Mid, Sound
<1>1. SUFFICES ASSUME s.holder[m] = NoThread, NEW y \in ToSet(s.waiters[m]),
                      s.status[y] = "WaitSynchAny"
               PROVE  FALSE
  BY DEF FairTo
<1>2. y \in Threads
  <2>1. s.waiters[m] \in Seq(Threads)
    BY <1>0, StateTypes
  <2> QED
    BY <1>1, <2>1 DEF ToSet
<1>3. m \in ToSet(s.waitObjs[y])
  BY <1>0, <1>1, <1>2 DEF Waits
<1>4. ShouldWait(s, m, y)
  BY <1>0, <1>1, <1>2, <1>3 DEF Mid, NoLost
<1>5. s.lock[m] > 0
  BY <1>0, <1>4, ShouldWaitIs
<1> QED
  BY <1>1, <1>5 DEF Mid, Sound, Own

LEMMA TakesHandled ==
  ASSUME NEW s, Mid(s, NoThread, NoThread), NEW t \in Threads, s.status[t] = "Running",
         NEW u, Takes(s, u, t), Sound(u, NoThread), NoInv(u, NoThread, {})
  PROVE  Handled(s, u)
<1>1. s \in KStates /\ NoThread \notin Objects
  BY Kinds DEF Mid, Sound
<1>2. SameRest(s, u) /\ SameThreads(s, u) /\ SameLists(s, u)
  BY DEF Takes
<1>3. Waits(u, NoThread)
  BY <1>2 DEF Mid, Waits, SameThreads, SameLists
<1>4. NoLost(u, NoThread)
  <2>1. \A y \in Threads : \A x \in ToSet(s.waitObjs[y]) : x \in Objects
    BY <1>1, WaitObjsIn
  <2>2. \A y \in Threads : \A x \in Objects : y # t /\ ShouldWait(s, x, y) => ShouldWait(u, x, y)
    BY DEF Takes
  <2>3. \A y \in Threads : y = t => u.status[y] = "Running"
    BY <1>2 DEF SameThreads
  <2> QED
    BY <1>1, <1>2, <2>1, <2>2, <2>3 DEF Mid, NoLost, SameThreads, SameLists
<1>5. Mid(u, NoThread, NoThread)
  BY <1>3, <1>4 DEF Mid
<1>6. Holding(s, u, {})
  BY DEF Takes, Holding
<1> QED
  BY <1>2, <1>5, <1>6, SameHandled DEF SameThreads

LEMMA AcquireHandled ==
  ASSUME NEW s, Mid(s, NoThread, NoThread), NEW t \in Threads, s.status[t] = "Running",
         NEW o \in Objects, ~ShouldWait(s, o, t)
  PROVE  Handled(s, Acquire(s, o, t))
<1> DEFINE u == Acquire(s, o, t)
<1>1. Sound(s, NoThread) /\ t # NoThread /\ Alive(s, t) /\ NoInv(s, NoThread, {})
  BY Kinds DEF Mid, Alive
<1>2. Acquired(s, u, NoThread, o, t)
  BY <1>1, AcquireFacts
<1>3. o \in Mutexes => FairTo(s, o, t)
  BY FreeIsFair
<1> HIDE DEF u
<1>4. Sound(u, NoThread) /\ Takes(s, u, t) /\ NoInv(u, NoThread, {})
  BY <1>1, <1>2, <1>3 DEF Acquired
<1>5. Handled(s, u)
  BY <1>4, TakesHandled
<1> QED
  BY <1>5 DEF u

LEMMA AcquireAllHandled ==
  ASSUME NEW s, Mid(s, NoThread, NoThread), NEW t \in Threads, s.status[t] = "Running",
         NEW objs \in Seq(Objects), Distinct(objs),
         \A i \in 1 .. Len(objs) : ~ShouldWait(s, objs[i], t)
  PROVE  Handled(s, AcquireAll(s, objs, t))
<1> DEFINE u == AcquireAll(s, objs, t)
<1>1. Sound(s, NoThread) /\ t # NoThread /\ Alive(s, t) /\ NoInv(s, NoThread, {})
  BY Kinds DEF Mid, Alive
<1>2. AllAcquired(s, u, NoThread, t, objs)
  BY <1>1, AcquireAllFacts
<1>3. \A m \in Mutexes : FairTo(s, m, t)
  BY FreeIsFair
<1> HIDE DEF u
<1>4. Sound(u, NoThread) /\ Takes(s, u, t) /\ NoInv(u, NoThread, {})
  BY <1>1, <1>2, <1>3 DEF AllAcquired
<1>5. Handled(s, u)
  BY <1>4, TakesHandled
<1> QED
  BY <1>5 DEF u

LEMMA AcquireAllType ==
  ASSUME NEW s, s \in KStates, NEW objs \in Seq(Objects), NEW t \in Threads
  PROVE  AcquireAll(s, objs, t) \in KStates
<1> DEFINE n == Len(objs)
<1>1. PICK g \in [0 .. n -> KStates] : AcquireAll(s, objs, t) = g[n]
  BY AcquireAllLoop
<1>2. n \in 0 .. n
  OBVIOUS
<1> HIDE DEF n
<1> QED
  BY <1>1, <1>2

-----------------------------------------------------------------------------
(* Going to sleep. *)

StatusSet(s, t, x) == [s EXCEPT !.status[t] = x]

LEMMA StatusUpdate ==
  ASSUME NEW s, s \in KStates, NEW t \in Threads, NEW x \in Status
  PROVE  LET u == StatusSet(s, t, x)
         IN  /\ u \in KStates /\ SameRest(s, u) /\ SameLists(s, u) /\ SameOwners(s, u)
             /\ SameSignals(s, u) /\ u.callback = s.callback /\ u.timer = s.timer
             /\ u.prio = s.prio /\ u.mprio = s.mprio /\ u.ready = s.ready /\ u.levels = s.levels
             /\ u.crashed = s.crashed
             /\ \A y \in Threads : u.status[y] = IF y = t THEN x ELSE s.status[y]
<1> DEFINE u == StatusSet(s, t, x)
           f == [s.status EXCEPT ![t] = x]
<1>1. f \in [Threads -> Status] /\ \A y \in Threads : f[y] = IF y = t THEN x ELSE s.status[y]
  BY DEF KStates
<1>2. u = [s EXCEPT !.status = f]
  BY DEF KStates, StatusSet
<1> HIDE DEF f, u
<1>3. u \in KStates /\ u.status = f
  BY <1>1, <1>2 DEF KStates
<1>4. /\ SameRest(s, u) /\ SameLists(s, u) /\ SameOwners(s, u)
      /\ SameSignals(s, u) /\ u.callback = s.callback /\ u.timer = s.timer
      /\ u.prio = s.prio /\ u.mprio = s.mprio /\ u.ready = s.ready /\ u.levels = s.levels
      /\ u.crashed = s.crashed
  BY <1>2 DEF KStates, SameRest, SameLists, SameOwners, SameSignals
<1> QED
  BY <1>1, <1>3, <1>4 DEF u

(* A running thread that stops running keeps the state sound. *)
LEMMA StatusSound ==
  ASSUME NEW s, Sound(s, NoThread), NEW t \in Threads, s.status[t] = "Running",
         NEW x \in WaitSynch \cup {"WaitSleep"}
  PROVE  Sound(StatusSet(s, t, x), NoThread)
<1> DEFINE u == StatusSet(s, t, x)
<1>0. s \in KStates /\ x \in Status /\ x \notin {"Ready", "Running", "Dormant", "Dead"}
  BY DEF Sound, Status, WaitSynch
<1>1. /\ u \in KStates /\ SameRest(s, u) /\ SameLists(s, u) /\ SameOwners(s, u)
      /\ SameSignals(s, u) /\ u.callback = s.callback /\ u.timer = s.timer
      /\ u.prio = s.prio /\ u.mprio = s.mprio /\ u.ready = s.ready /\ u.levels = s.levels
      /\ u.crashed = s.crashed
      /\ \A y \in Threads : u.status[y] = IF y = t THEN x ELSE s.status[y]
  BY <1>0, StatusUpdate
<1> HIDE DEF u
<1>2. \A y \in Threads : Alive(u, y) <=> Alive(s, y)
  BY <1>0, <1>1 DEF Alive
<1>3. Own(u, NoThread)
  BY <1>1, <1>2, Kinds DEF Sound, Own, SameOwners
<1>4. Inherit(u)
  BY <1>1, <1>2 DEF Sound, Inherit, Best, SameRest, SameOwners
<1>5. Queue(u)
  BY <1>0, <1>1 DEF Sound, Queue, QueuesDistinct, QueuedRight
<1>6. Levelled(u) /\ Timed(u)
  BY <1>0, <1>1 DEF Sound, Levelled, Timed
<1> QED
  BY <1>1, <1>3, <1>4, <1>5, <1>6 DEF Sound, u

Listed(s, objs, t) ==
  LET u[i \in 0 .. Len(objs)] == IF i = 0 THEN s ELSE AddWaitingThread(u[i - 1], objs[i], t)
  IN  u[Len(objs)]

LEMMA ListedLoop ==
  ASSUME NEW s, s \in KStates, NEW objs \in Seq(Objects), NEW t \in Threads
  PROVE  \E g \in [0 .. Len(objs) -> KStates] :
           /\ g[0] = s /\ \A i \in 1 .. Len(objs) : g[i] = AddWaitingThread(g[i - 1], objs[i], t)
           /\ Listed(s, objs, t) = g[Len(objs)]
<1> DEFINE n == Len(objs)
           Def(g) == g = [i \in 0 .. n |-> IF i = 0 THEN s ELSE AddWaitingThread(g[i - 1], objs[i], t)]
           step == [w \in (1 .. n) \X KStates |-> AddWaitingThread(w[2], objs[w[1]], t)]
           g == CHOOSE g : Def(g)
<1>1. n \in Nat /\ \A i \in 1 .. n : objs[i] \in Objects
  OBVIOUS
<1> HIDE DEF n
<1>2. \A w \in KStates, i \in 1 .. n : AddWaitingThread(w, objs[i], t) \in KStates
  BY <1>1, AddFacts
<1>3. step \in [(1 .. n) \X KStates -> KStates]
  BY <1>2
<1>4. \A w \in KStates, i \in 1 .. n : step[<<i, w>>] = AddWaitingThread(w, objs[i], t)
  OBVIOUS
<1> HIDE DEF step
<1>5. PICK f : IsLoop(f, n, KStates, s, step)
  BY <1>1, <1>3, LoopExists
<1>6. /\ f \in [0 .. n -> KStates]
      /\ f[0] = s /\ \A i \in 1 .. n : f[i] = step[<<i, f[i - 1]>>]
  BY <1>5 DEF IsLoop
<1>7. \A i \in 1 .. n : f[i] = AddWaitingThread(f[i - 1], objs[i], t)
  <2> TAKE i \in 1 .. n
  <2>1. f[i - 1] \in KStates
    BY <1>1, <1>6
  <2> QED
    BY <2>1, <1>4, <1>6
<1>8. Def(f)
  BY <1>1, <1>6, <1>7
<1>9. Def(g)
  BY <1>8
<1>10. Listed(s, objs, t) = g[n]
  BY DEF Listed, n
<1> HIDE DEF g
<1>11. g[0] = s /\ \A i \in 1 .. n : g[i] = AddWaitingThread(g[i - 1], objs[i], t)
  BY <1>1, <1>9
<1>12. g \in [0 .. n -> KStates]
  <2>1. \A i \in 0 .. n : g[i] \in KStates
    BY <1>1, <1>2, <1>11, LoopStays
  <2>2. g = [i \in 0 .. n |-> g[i]]
    BY <1>9
  <2> QED
    BY <2>1, <2>2
<1> QED
  BY <1>10, <1>11, <1>12 DEF n

LEMMA ListedType ==
  ASSUME NEW s, s \in KStates, NEW objs \in Seq(Objects), NEW t \in Threads
  PROVE  Listed(s, objs, t) \in KStates
<1> DEFINE n == Len(objs)
<1>1. PICK g \in [0 .. n -> KStates] : Listed(s, objs, t) = g[n]
  BY ListedLoop
<1>2. n \in 0 .. n
  OBVIOUS
<1> HIDE DEF n
<1> QED
  BY <1>1, <1>2

(* Thread t was put on the lists of the objects F. *)
OnLists(s, w, t, F) ==
  /\ SameButLists(s, w) /\ w.waitObjs = s.waitObjs
  /\ Sound(w, NoThread) /\ NoInv(w, NoThread, {})
  /\ \A x \in Objects :
       /\ x \in F => ToSet(w.waiters[x]) = ToSet(s.waiters[x]) \cup {t} /\ Distinct(w.waiters[x])
       /\ x \notin F => w.waiters[x] = s.waiters[x]
  /\ \A y \in Threads : w.pending[y] = IF y = t THEN Mutexes \cap F ELSE s.pending[y]

LEMMA OnListsStep ==
  ASSUME NEW s, s \in KStates, NEW w, w \in KStates, NEW t \in Threads, NEW o \in Objects, NEW F,
         OnLists(s, w, t, F), o \notin F, t \notin ToSet(s.waiters[o]), Distinct(s.waiters[o])
  PROVE  OnLists(s, AddWaitingThread(w, o, t), t, F \cup {o})
<1> DEFINE u == AddWaitingThread(w, o, t)
           q == IF t \in ToSet(w.waiters[o]) THEN w.waiters[o] ELSE Append(w.waiters[o], t)
           M == w.pending[t] \cup (Mutexes \cap {o})
<1>1. u \in KStates /\ Calm(w, u) /\ Relisted(w, u, o, t, q, M)
  BY AddFacts
<1>2. w.waiters[o] = s.waiters[o] /\ w.pending[t] = Mutexes \cap F
  BY DEF OnLists
<1>3. q = Append(s.waiters[o], t)
  BY <1>2
<1>4. M = Mutexes \cap (F \cup {o})
  BY <1>2
<1> HIDE DEF u, q, M
<1>5. ToSet(q) = ToSet(s.waiters[o]) \cup {t} /\ Distinct(q)
  <2>1. s.waiters[o] \in Seq(Threads)
    BY StateTypes
  <2> QED
    BY <1>3, <2>1, AppendFacts
<1>6. Sound(u, NoThread) /\ NoInv(u, NoThread, {})
  BY <1>1 DEF Calm, OnLists
<1>7. SameButLists(s, u) /\ u.waitObjs = s.waitObjs
  <2>1. SameButLists(s, w) /\ SameButLists(w, u) /\ w.waitObjs = s.waitObjs /\ u.waitObjs = w.waitObjs
    BY <1>1 DEF OnLists, Relisted
  <2> QED
    BY <2>1 DEF SameButLists, SameRest, SameThreads, SameOwners, SameSignals
<1>8. ASSUME NEW x \in Objects
      PROVE  /\ x \in F \cup {o} => /\ ToSet(u.waiters[x]) = ToSet(s.waiters[x]) \cup {t}
                                    /\ Distinct(u.waiters[x])
             /\ x \notin F \cup {o} => u.waiters[x] = s.waiters[x]
  <2>1. u.waiters[x] = IF x = o THEN q ELSE w.waiters[x]
    BY <1>1 DEF Relisted
  <2> QED
    BY <1>5, <2>1 DEF OnLists
<1>9. \A y \in Threads : u.pending[y] = IF y = t THEN Mutexes \cap (F \cup {o}) ELSE s.pending[y]
  BY <1>1, <1>4 DEF Relisted, OnLists
<1> QED
  BY <1>6, <1>7, <1>8, <1>9 DEF OnLists, u

LEMMA ListedFacts ==
  ASSUME NEW s, Sound(s, NoThread), NoInv(s, NoThread, {}), NEW t \in Threads,
         NEW objs \in Seq(Objects), Distinct(objs), s.pending[t] = {},
         \A x \in Objects : Distinct(s.waiters[x]) /\ t \notin ToSet(s.waiters[x])
  PROVE  OnLists(s, Listed(s, objs, t), t, ToSet(objs))
<1> DEFINE n == Len(objs)
<1>0. s \in KStates
  BY DEF Sound
<1>1. PICK g \in [0 .. n -> KStates] :
        /\ g[0] = s /\ \A i \in 1 .. n : g[i] = AddWaitingThread(g[i - 1], objs[i], t)
        /\ Listed(s, objs, t) = g[n]
  BY <1>0, ListedLoop
<1>2. /\ n \in Nat /\ DOMAIN objs = 1 .. n /\ \A i \in 1 .. n : objs[i] \in Objects
      /\ \A i, j \in 1 .. n : objs[i] = objs[j] => i = j
  BY DEF Distinct
<1> HIDE DEF n
<1> DEFINE First(i) == {objs[j] : j \in 1 .. i}
           T == {i \in 0 .. n : OnLists(s, g[i], t, First(i))}
<1>3. 0 \in T
  <2>1. First(0) = {}
    OBVIOUS
  <2>2. OnLists(s, s, t, {})
    BY DEF OnLists, SameButLists, SameRest, SameThreads, SameOwners, SameSignals
  <2> HIDE DEF First
  <2> QED
    BY <1>1, <1>2, <2>1, <2>2, SMTT(30)
<1>4. ASSUME NEW i \in 1 .. n, i - 1 \in T PROVE i \in T
  <2> DEFINE w == g[i - 1]
             u == g[i]
             o == objs[i]
  <2>0. i - 1 \in 0 .. n /\ i \in 0 .. n
    BY <1>2
  <2>a. OnLists(s, w, t, First(i - 1))
    BY <1>4
  <2>1. w \in KStates /\ u = AddWaitingThread(w, o, t) /\ o \in Objects
    BY <1>1, <1>2, <2>0
  <2>2. First(i) = First(i - 1) \cup {o}
    <3>1. 1 .. i = (1 .. i - 1) \cup {i}
      BY <1>2
    <3> QED
      BY <3>1
  <2>3. o \notin First(i - 1)
    <3>1. \A j \in 1 .. i - 1 : j \in 1 .. n /\ j # i
      BY <1>2
    <3> QED
      BY <1>2, <3>1
  <2> HIDE DEF w, u, o, First
  <2>4. OnLists(s, u, t, First(i - 1) \cup {o})
    BY <1>0, <2>a, <2>1, <2>3, OnListsStep
  <2> QED
    BY <2>0, <2>2, <2>4 DEF u
<1> HIDE DEF T
<1>5. n \in T
  BY <1>2, <1>3, <1>4, UpTo DEF Inductive
<1>6. First(n) = ToSet(objs)
  BY <1>2 DEF ToSet
<1> QED
  BY <1>1, <1>5, <1>6 DEF T

BlockSet(s, t, objs, n) == [s EXCEPT !.waitObjs[t] = objs, !.timer[t] = n, !.callback[t] = TRUE]

LEMMA BlockUpdate ==
  ASSUME NEW s, s \in KStates, NEW t \in Threads, NEW objs \in Seq(Objects), NEW n \in Nat
  PROVE  LET u == BlockSet(s, t, objs, n)
         IN  /\ u \in KStates /\ SameRest(s, u) /\ SameOwners(s, u) /\ SameSignals(s, u)
             /\ u.status = s.status /\ u.pending = s.pending /\ u.waiters = s.waiters
             /\ u.prio = s.prio /\ u.mprio = s.mprio /\ u.ready = s.ready /\ u.levels = s.levels
             /\ u.crashed = s.crashed
             /\ \A y \in Threads : /\ u.waitObjs[y] = IF y = t THEN objs ELSE s.waitObjs[y]
                                   /\ u.timer[y] = IF y = t THEN n ELSE s.timer[y]
                                   /\ y # t => u.callback[y] = s.callback[y]
<1> DEFINE u == BlockSet(s, t, objs, n)
           f == [s.waitObjs EXCEPT ![t] = objs]
           g == [s.timer EXCEPT ![t] = n]
           h == [s.callback EXCEPT ![t] = TRUE]
<1>1. /\ f \in [Threads -> Seq(Objects)] /\ g \in [Threads -> Nat] /\ h \in [Threads -> BOOLEAN]
      /\ \A y \in Threads : /\ f[y] = IF y = t THEN objs ELSE s.waitObjs[y]
                            /\ g[y] = IF y = t THEN n ELSE s.timer[y]
                            /\ y # t => h[y] = s.callback[y]
  BY DEF KStates
<1>2. u = [s EXCEPT !.waitObjs = f, !.timer = g, !.callback = h]
  BY DEF KStates, BlockSet
<1> HIDE DEF f, g, h, u
<1>3. u \in KStates /\ u.waitObjs = f /\ u.timer = g /\ u.callback = h
  BY <1>1, <1>2 DEF KStates
<1>4. /\ SameRest(s, u) /\ SameOwners(s, u) /\ SameSignals(s, u)
      /\ u.status = s.status /\ u.pending = s.pending /\ u.waiters = s.waiters
      /\ u.prio = s.prio /\ u.mprio = s.mprio /\ u.ready = s.ready /\ u.levels = s.levels
      /\ u.crashed = s.crashed
  BY <1>2 DEF KStates, SameRest, SameOwners, SameSignals
<1> QED
  BY <1>1, <1>3, <1>4 DEF u

LEMMA BlockIs ==
  ASSUME NEW s, NEW t, NEW objs, NEW how, NEW timeout
  PROVE  LET w == Listed(StatusSet(s, t, how), objs, t)
         IN  Block(s, t, objs, how, timeout) =
               BlockSet(w, t, objs, IF timeout = "timed" THEN w.timer[t] + 1 ELSE w.timer[t])
BY DEF Block, Listed, StatusSet, BlockSet

LEMMA BlockType ==
  ASSUME NEW s, s \in KStates, NEW t \in Threads, NEW objs \in Seq(Objects), NEW how \in WaitSynch,
         NEW timeout
  PROVE  Block(s, t, objs, how, timeout) \in KStates
<1> DEFINE a == StatusSet(s, t, how)
           w == Listed(a, objs, t)
           n == IF timeout = "timed" THEN w.timer[t] + 1 ELSE w.timer[t]
<1>1. how \in Status
  BY DEF WaitSynch, Status
<1>2. a \in KStates
  BY <1>1, StatusUpdate
<1>3. Block(s, t, objs, how, timeout) = BlockSet(w, t, objs, n)
  BY BlockIs
<1> HIDE DEF a
<1>4. w \in KStates
  BY <1>2, ListedType
<1> HIDE DEF w
<1>5. n \in Nat
  BY <1>4, StateTypes
<1> HIDE DEF n
<1>6. BlockSet(w, t, objs, n) \in KStates
  BY <1>4, <1>5, BlockUpdate
<1> QED
  BY <1>3, <1>6

(* A thread goes to sleep on objects that do not let it go on. *)
LEMMA BlockHandled ==
  ASSUME NEW s, Mid(s, NoThread, NoThread), NEW t \in Threads, s.status[t] = "Running",
         NEW objs \in Seq(Objects), Distinct(objs), t \notin ToSet(objs),
         NEW how \in WaitSynch, NEW timeout,
         how = "WaitSynchAny" => \A x \in ToSet(objs) : ShouldWait(s, x, t),
         how = "WaitSynchAll" => \E x \in ToSet(objs) : ShouldWait(s, x, t)
  PROVE  Handled(s, Block(s, t, objs, how, timeout))
<1> DEFINE a == StatusSet(s, t, how)
           w == Listed(a, objs, t)
           n == IF timeout = "timed" THEN w.timer[t] + 1 ELSE w.timer[t]
           u == BlockSet(w, t, objs, n)
<1>0. /\ s \in KStates /\ how \in Status /\ Sound(s, NoThread) /\ Waits(s, NoThread)
      /\ NoLost(s, NoThread) /\ NoInv(s, NoThread, {}) /\ t # NoThread
      /\ NoThread \notin Objects /\ NoThread \notin Threads /\ t \in Objects
  BY Kinds DEF Mid, Sound, WaitSynch, Status, Objects
<1>1. Block(s, t, objs, how, timeout) = u
  BY BlockIs
<1>2. /\ a \in KStates /\ SameRest(s, a) /\ SameLists(s, a) /\ SameOwners(s, a)
      /\ SameSignals(s, a) /\ a.callback = s.callback /\ a.timer = s.timer
      /\ a.prio = s.prio /\ a.mprio = s.mprio
      /\ \A y \in Threads : a.status[y] = IF y = t THEN how ELSE s.status[y]
  BY <1>0, StatusUpdate
<1>3. Sound(a, NoThread)
  BY <1>0, StatusSound
<1> HIDE DEF a
<1>4. s.waitObjs[t] = <<>>
  BY <1>0 DEF Waits, WaitSynch
<1>5. \A x \in Objects : Distinct(a.waiters[x]) /\ t \notin ToSet(a.waiters[x])
  <2>1. ToSet(s.waitObjs[t]) = {}
    BY <1>4 DEF ToSet
  <2> QED
    BY <1>0, <1>2, <2>1 DEF Waits, SameLists
<1>6. a.pending[t] = {}
  BY <1>0, <1>2, <1>4 DEF Waits, SameLists, ToSet
<1>7. NoInv(a, NoThread, {})
  <2>1. ASSUME NEW m \in Mutexes, NEW y \in Threads, Pressing(a, m, y) PROVE Pressing(s, m, y)
    <3>1. m \in Objects
      BY DEF Objects
    <3>2. y # t
      BY <1>5, <2>1, <3>1 DEF Pressing
    <3> QED
      BY <1>2, <2>1, <3>2 DEF Pressing, SameLists, SameOwners
  <2> QED
    BY <1>0, <1>2, <2>1 DEF NoInv, NoInvAt
<1>8. OnLists(a, w, t, ToSet(objs))
  BY <1>3, <1>5, <1>6, <1>7, ListedFacts
<1> HIDE DEF w
<1>9. w \in KStates /\ Sound(w, NoThread) /\ NoInv(w, NoThread, {}) /\ SameButLists(a, w)
  BY <1>8 DEF OnLists, Sound
<1>10. w.status = a.status /\ w.timer = s.timer /\ w.callback = s.callback /\ SameRest(s, w)
  BY <1>2, <1>9 DEF SameButLists, SameThreads, SameRest
<1>11. s.timer[t] = 0
  BY <1>0 DEF Sound, Timed
<1>12. n \in Nat /\ n <= 1
  BY <1>10, <1>11
<1> HIDE DEF n
<1>13. /\ u \in KStates /\ SameRest(w, u) /\ SameOwners(w, u) /\ SameSignals(w, u)
       /\ u.status = w.status /\ u.pending = w.pending /\ u.waiters = w.waiters
       /\ u.prio = w.prio /\ u.mprio = w.mprio /\ u.ready = w.ready /\ u.levels = w.levels
       /\ u.crashed = w.crashed
       /\ \A y \in Threads : /\ u.waitObjs[y] = IF y = t THEN objs ELSE w.waitObjs[y]
                             /\ u.timer[y] = IF y = t THEN n ELSE w.timer[y]
                             /\ y # t => u.callback[y] = w.callback[y]
  BY <1>9, <1>12, BlockUpdate
<1> HIDE DEF u
<1>14. \A y \in Threads : u.status[y] = IF y = t THEN how ELSE s.status[y]
  BY <1>2, <1>10, <1>13
<1>15. Sound(u, NoThread)
  <2>1. Own(u, NoThread) /\ Inherit(u)
    BY <1>9, <1>13 DEF Sound, Own, Inherit, Best, Alive, SameOwners, SameRest
  <2>2. Queue(u) /\ Levelled(u)
    BY <1>9, <1>13 DEF Sound, Queue, QueuesDistinct, QueuedRight, Levelled
  <2>3. Timed(u)
    BY <1>9, <1>12, <1>13, <1>14 DEF Sound, Timed, WaitSynch
  <2> QED
    BY <1>9, <1>13, <2>1, <2>2, <2>3 DEF Sound
<1>16. NoInv(u, NoThread, {})
  BY <1>9, <1>13 DEF NoInv, NoInvAt, Pressing, SameOwners
<1>17. \A y \in Threads : u.waitObjs[y] = IF y = t THEN objs ELSE s.waitObjs[y]
  BY <1>2, <1>8, <1>13 DEF OnLists, SameLists
<1>18. Waits(u, NoThread)
  <2>1. ASSUME NEW y \in Threads, NEW x \in Objects
        PROVE  y \in ToSet(u.waiters[x]) <=> x \in ToSet(u.waitObjs[y])
    <3>1. y \in ToSet(s.waiters[x]) <=> x \in ToSet(s.waitObjs[y])
      BY <1>0 DEF Waits
    <3>2. /\ x \in ToSet(objs) => ToSet(u.waiters[x]) = ToSet(s.waiters[x]) \cup {t}
          /\ x \notin ToSet(objs) => u.waiters[x] = s.waiters[x]
      BY <1>2, <1>8, <1>13 DEF OnLists, SameLists
    <3>3. t \notin ToSet(s.waiters[x])
      BY <1>2, <1>5 DEF SameLists
    <3> QED
      BY <1>17, <3>1, <3>2, <3>3
  <2>2. \A x \in Objects : Distinct(u.waiters[x])
    BY <1>5, <1>8, <1>13 DEF OnLists
  <2>3. ASSUME NEW y \in Threads
        PROVE  /\ Distinct(u.waitObjs[y]) /\ y \notin ToSet(u.waitObjs[y])
               /\ u.pending[y] = Mutexes \cap ToSet(u.waitObjs[y])
               /\ y # NoThread /\ u.waitObjs[y] # <<>> => u.status[y] \in WaitSynch
    <3>1. u.pending[y] = IF y = t THEN Mutexes \cap ToSet(objs) ELSE s.pending[y]
      BY <1>2, <1>8, <1>13 DEF OnLists, SameLists
    <3> QED
      BY <1>0, <1>14, <1>17, <3>1 DEF Waits
  <2> QED
    BY <2>1, <2>2, <2>3 DEF Waits
<1>19. \A x \in Objects, y \in Threads : ShouldWait(u, x, y) <=> ShouldWait(s, x, y)
  <2>1. u.lock = s.lock /\ u.holder = s.holder /\ u.count = s.count /\ u.signaled = s.signaled
    BY <1>2, <1>9, <1>13 DEF SameOwners, SameSignals, SameButLists
  <2>2. \A x \in Threads : u.status[x] = "Dead" <=> s.status[x] = "Dead"
    BY <1>14 DEF WaitSynch
  <2> QED
    BY <2>1, <2>2, SameAvailability
<1>20. NoLost(u, NoThread)
  <2>1. \A y \in Threads : \A x \in ToSet(u.waitObjs[y]) : x \in Objects
    BY <1>13, WaitObjsIn
  <2>2. ASSUME NEW y \in Threads
        PROVE  /\ u.status[y] = "WaitSynchAny" =>
                    \A x \in ToSet(u.waitObjs[y]) : x = NoThread \/ ShouldWait(u, x, y)
               /\ u.status[y] = "WaitSynchAll" =>
                    \/ NoThread \in ToSet(u.waitObjs[y])
                    \/ \E x \in ToSet(u.waitObjs[y]) : ShouldWait(u, x, y)
    <3>1. CASE y = t
      BY <1>14, <1>17, <1>19, <2>1, <3>1
    <3>2. CASE y # t
      <4>1. u.status[y] = s.status[y] /\ u.waitObjs[y] = s.waitObjs[y]
        BY <1>14, <1>17, <3>2
      <4> QED
        BY <1>0, <1>19, <2>1, <4>1 DEF NoLost
    <3> QED
      BY <3>1, <3>2
  <2> QED
    BY <2>2 DEF NoLost
<1>21. Mid(u, NoThread, NoThread)
  BY <1>15, <1>16, <1>18, <1>20 DEF Mid
<1>22. SameRest(s, u)
  BY <1>10, <1>13 DEF SameRest
<1>23. Holding(s, u, {})
  <2>1. u.holder = s.holder
    BY <1>2, <1>9, <1>13 DEF SameOwners, SameButLists
  <2> QED
    BY <2>1, HoldingSame
<1>24. Handled(s, u)
  BY <1>14, <1>21, <1>22, <1>23 DEF Handled, HandledBut, SameRest, WaitSynch
<1> QED
  BY <1>1, <1>24

(* A guest that waits for no thread twice or for itself, and that ends no   *)
(* process twice or under the feet of another core.                         *)
ProperGuest == GuestFaults \subseteq {"invalid_entry"} /\ \A h \in HandleLists : Distinct(h)

LEMMA CallerType ==
  ASSUME k \in KStates, NEW c \in Cores, Calls(c)
  PROVE  Caller(c) \in Threads
BY StateTypes DEF Calls, Caller

LEMMA CallerRuns ==
  ASSUME KInv(k), NEW c \in Cores, Calls(c)
  PROVE  /\ Caller(c) \in Threads /\ k.status[Caller(c)] = "Running" /\ k \in KStates
         /\ Mid(k, NoThread, NoThread)
<1>1. k \in KStates /\ Mid(k, NoThread, NoThread) /\ k.runsOn = {}
  BY DEF KInv, Mid, Sound
<1> QED
  BY <1>1, CallerType DEF Calls

LEMMA HandlesAreObjects ==
  /\ \A h \in HandleLists : h \in Seq(Objects)
  /\ \A o \in Objects : <<o>> \in Seq(Objects) /\ Distinct(<<o>>) /\ ToSet(<<o>>) = {o}
<1>1. \A h \in HandleLists : h \in Seq(Objects)
  BY KernelAssumption
<1>2. ASSUME NEW o \in Objects PROVE <<o>> \in Seq(Objects) /\ Distinct(<<o>>) /\ ToSet(<<o>>) = {o}
  BY DEF Distinct, ToSet
<1> QED
  BY <1>1, <1>2

LEMMA NotItself ==
  ASSUME ProperGuest, NEW t \in Threads, NEW objs, Waitable(t, objs)
  PROVE  t \notin ToSet(objs)
BY DEF ProperGuest, Waitable

LEMMA NothingHandled ==
  ASSUME NEW s, Mid(s, NoThread, NoThread)
  PROVE  Handled(s, s)
BY HoldingSame DEF Handled, HandledBut

LEMMA Wait1Type ==
  ASSUME k \in KStates, NEW c \in Cores, NEW o \in Objects, NEW timeout,
         WaitSynchronization1(c, o, timeout)
  PROVE  k' \in KStates
<1> DEFINE t == Caller(c)
<1>1. t \in Threads
  BY CallerType DEF WaitSynchronization1
<1>2. k' = IF ~ShouldWait(k, o, t) THEN Acquire(k, o, t)
           ELSE IF timeout = "zero" THEN k
           ELSE Block(k, t, <<o>>, "WaitSynchAny", timeout)
  BY DEF WaitSynchronization1
<1> HIDE DEF t
<1>3. Acquire(k, o, t) \in KStates
  BY <1>1, AcquireType
<1>4. Block(k, t, <<o>>, "WaitSynchAny", timeout) \in KStates
  BY <1>1, HandlesAreObjects, BlockType DEF WaitSynch
<1> QED
  BY <1>2, <1>3, <1>4

LEMMA Wait1Handled ==
  ASSUME ProperGuest, KInv(k), NEW c \in Cores, NEW o \in Objects, NEW timeout,
         WaitSynchronization1(c, o, timeout)
  PROVE  Handled(k, k')
<1> DEFINE t == Caller(c)
<1>1. t \in Threads /\ k.status[t] = "Running" /\ k \in KStates /\ Mid(k, NoThread, NoThread)
  BY CallerRuns DEF WaitSynchronization1
<1>2. k' = IF ~ShouldWait(k, o, t) THEN Acquire(k, o, t)
           ELSE IF timeout = "zero" THEN k
           ELSE Block(k, t, <<o>>, "WaitSynchAny", timeout)
  BY DEF WaitSynchronization1
<1>3. Waitable(t, <<o>>)
  BY DEF WaitSynchronization1
<1> HIDE DEF t
<1>4. CASE ~ShouldWait(k, o, t)
  BY <1>1, <1>2, <1>4, AcquireHandled
<1>5. CASE ShouldWait(k, o, t) /\ timeout = "zero"
  BY <1>1, <1>2, <1>5, NothingHandled
<1>6. CASE ShouldWait(k, o, t) /\ timeout # "zero"
  <2>1. <<o>> \in Seq(Objects) /\ Distinct(<<o>>) /\ ToSet(<<o>>) = {o}
    BY HandlesAreObjects
  <2>2. t \notin ToSet(<<o>>)
    BY <1>1, <1>3, NotItself
  <2>3. "WaitSynchAny" \in WaitSynch /\ \A x \in ToSet(<<o>>) : ShouldWait(k, x, t)
    BY <1>6, <2>1 DEF WaitSynch
  <2>4. Handled(k, Block(k, t, <<o>>, "WaitSynchAny", timeout))
    BY <1>1, <2>1, <2>2, <2>3, BlockHandled
  <2> QED
    BY <1>2, <1>6, <2>4
<1> QED
  BY <1>4, <1>5, <1>6

FreeAmong(s, objs, t) == {i \in DOMAIN objs : ~ShouldWait(s, objs[i], t)}

LEMMA WaitNIs ==
  ASSUME NEW c, NEW objs, NEW waitAll \in BOOLEAN, NEW timeout,
         WaitSynchronizationN(c, objs, waitAll, timeout)
  PROVE  LET t == Caller(c)
             free == FreeAmong(k, objs, t)
         IN  /\ waitAll /\ free = DOMAIN objs => k' = AcquireAll(k, objs, t)
             /\ ~waitAll /\ free # {} => k' = Acquire(k, objs[Min(free)], t)
             /\ ~(waitAll /\ free = DOMAIN objs) /\ ~(~waitAll /\ free # {}) =>
                  \/ k' = k
                  \/ waitAll /\ k' = Block(k, t, objs, "WaitSynchAll", timeout)
                  \/ ~waitAll /\ k' = Block(k, t, objs, "WaitSynchAny", timeout)
BY DEF WaitSynchronizationN, FreeAmong

LEMMA FreeAmongFacts ==
  ASSUME NEW s, NEW objs \in Seq(Objects), NEW t
  PROVE  LET free == FreeAmong(s, objs, t)
         IN  /\ free # {} => /\ objs[Min(free)] \in Objects
                             /\ ~ShouldWait(s, objs[Min(free)], t)
             /\ free = DOMAIN objs => \A i \in 1 .. Len(objs) : ~ShouldWait(s, objs[i], t)
             /\ free = {} => \A x \in ToSet(objs) : ShouldWait(s, x, t)
             /\ free # DOMAIN objs => \E x \in ToSet(objs) : ShouldWait(s, x, t)
<1> DEFINE free == FreeAmong(s, objs, t)
<1>1. DOMAIN objs = 1 .. Len(objs) /\ Len(objs) \in Nat
  OBVIOUS
<1>2. /\ \A i \in free : i \in 1 .. Len(objs) /\ ~ShouldWait(s, objs[i], t)
      /\ \A i \in 1 .. Len(objs) : i \notin free => ShouldWait(s, objs[i], t)
  BY <1>1 DEF FreeAmong
<1>3. \A x \in ToSet(objs) : \E i \in 1 .. Len(objs) : x = objs[i]
  BY <1>1 DEF ToSet
<1>4. \A i \in 1 .. Len(objs) : objs[i] \in ToSet(objs) /\ objs[i] \in Objects
  BY <1>1 DEF ToSet
<1> HIDE DEF free
<1>5. free # {} => Min(free) \in free
  <2>1. free \in SUBSET Nat
    BY <1>1, <1>2
  <2> QED
    BY <2>1, MinNat
<1>6. free # {} => objs[Min(free)] \in Objects /\ ~ShouldWait(s, objs[Min(free)], t)
  BY <1>2, <1>4, <1>5
<1>7. free = DOMAIN objs => \A i \in 1 .. Len(objs) : ~ShouldWait(s, objs[i], t)
  BY <1>1, <1>2
<1>8. free = {} => \A x \in ToSet(objs) : ShouldWait(s, x, t)
  BY <1>2, <1>3
<1>9. free # DOMAIN objs => \E x \in ToSet(objs) : ShouldWait(s, x, t)
  BY <1>1, <1>2, <1>4
<1> QED
  BY <1>6, <1>7, <1>8, <1>9 DEF free

LEMMA WaitNType ==
  ASSUME k \in KStates, NEW c \in Cores, NEW objs \in HandleLists, NEW waitAll \in BOOLEAN,
         NEW timeout, WaitSynchronizationN(c, objs, waitAll, timeout)
  PROVE  k' \in KStates
<1> DEFINE t == Caller(c)
           free == FreeAmong(k, objs, t)
<1>1. t \in Threads
  BY CallerType DEF WaitSynchronizationN
<1>2. objs \in Seq(Objects)
  BY HandlesAreObjects
<1>3. /\ waitAll /\ free = DOMAIN objs => k' = AcquireAll(k, objs, t)
      /\ ~waitAll /\ free # {} => k' = Acquire(k, objs[Min(free)], t)
      /\ ~(waitAll /\ free = DOMAIN objs) /\ ~(~waitAll /\ free # {}) =>
           \/ k' = k
           \/ waitAll /\ k' = Block(k, t, objs, "WaitSynchAll", timeout)
           \/ ~waitAll /\ k' = Block(k, t, objs, "WaitSynchAny", timeout)
  BY WaitNIs
<1> HIDE DEF t
<1>4. AcquireAll(k, objs, t) \in KStates
  BY <1>1, <1>2, AcquireAllType
<1>5. free # {} => objs[Min(free)] \in Objects
  BY <1>2, FreeAmongFacts
<1> HIDE DEF free
<1>6. free # {} => Acquire(k, objs[Min(free)], t) \in KStates
  BY <1>1, <1>5, AcquireType
<1>7. /\ Block(k, t, objs, "WaitSynchAll", timeout) \in KStates
      /\ Block(k, t, objs, "WaitSynchAny", timeout) \in KStates
  BY <1>1, <1>2, BlockType DEF WaitSynch
<1> QED
  BY <1>3, <1>4, <1>6, <1>7

LEMMA WaitNHandled ==
  ASSUME ProperGuest, KInv(k), NEW c \in Cores, NEW objs \in HandleLists, NEW waitAll \in BOOLEAN,
         NEW timeout, WaitSynchronizationN(c, objs, waitAll, timeout)
  PROVE  Handled(k, k')
<1> DEFINE t == Caller(c)
           free == FreeAmong(k, objs, t)
<1>1. t \in Threads /\ k.status[t] = "Running" /\ k \in KStates /\ Mid(k, NoThread, NoThread)
  BY CallerRuns DEF WaitSynchronizationN
<1>2. objs \in Seq(Objects) /\ Distinct(objs)
  BY HandlesAreObjects DEF ProperGuest
<1>3. /\ waitAll /\ free = DOMAIN objs => k' = AcquireAll(k, objs, t)
      /\ ~waitAll /\ free # {} => k' = Acquire(k, objs[Min(free)], t)
      /\ ~(waitAll /\ free = DOMAIN objs) /\ ~(~waitAll /\ free # {}) =>
           \/ k' = k
           \/ waitAll /\ k' = Block(k, t, objs, "WaitSynchAll", timeout)
           \/ ~waitAll /\ k' = Block(k, t, objs, "WaitSynchAny", timeout)
  BY WaitNIs
<1>4. t \notin ToSet(objs)
  <2>1. Waitable(t, objs)
    BY DEF WaitSynchronizationN
  <2> HIDE DEF t
  <2> QED
    BY <1>1, <2>1, NotItself
<1> HIDE DEF t
<1>5. /\ free # {} => /\ objs[Min(free)] \in Objects
                      /\ ~ShouldWait(k, objs[Min(free)], t)
      /\ free = DOMAIN objs => \A i \in 1 .. Len(objs) : ~ShouldWait(k, objs[i], t)
      /\ free = {} => \A x \in ToSet(objs) : ShouldWait(k, x, t)
      /\ free # DOMAIN objs => \E x \in ToSet(objs) : ShouldWait(k, x, t)
  BY <1>2, FreeAmongFacts
<1> HIDE DEF free
<1>6. CASE waitAll /\ free = DOMAIN objs
  <2>1. Handled(k, AcquireAll(k, objs, t))
    BY <1>1, <1>2, <1>5, <1>6, AcquireAllHandled
  <2> QED
    BY <1>3, <1>6, <2>1
<1>7. CASE ~waitAll /\ free # {}
  <2>1. Handled(k, Acquire(k, objs[Min(free)], t))
    BY <1>1, <1>5, <1>7, AcquireHandled
  <2> QED
    BY <1>3, <1>7, <2>1
<1>8. CASE waitAll /\ free # DOMAIN objs
  <2>1. Handled(k, k)
    BY <1>1, NothingHandled
  <2>2. "WaitSynchAll" \in WaitSynch /\ \E x \in ToSet(objs) : ShouldWait(k, x, t)
    BY <1>5, <1>8 DEF WaitSynch
  <2>3. Handled(k, Block(k, t, objs, "WaitSynchAll", timeout))
    BY <1>1, <1>2, <1>4, <2>2, BlockHandled
  <2> QED
    BY <1>3, <1>8, <2>1, <2>3
<1>9. CASE ~waitAll /\ free = {}
  <2>1. Handled(k, k)
    BY <1>1, NothingHandled
  <2>2. "WaitSynchAny" \in WaitSynch /\ \A x \in ToSet(objs) : ShouldWait(k, x, t)
    BY <1>5, <1>9 DEF WaitSynch
  <2>3. Handled(k, Block(k, t, objs, "WaitSynchAny", timeout))
    BY <1>1, <1>2, <1>4, <2>2, BlockHandled
  <2> QED
    BY <1>3, <1>9, <2>1, <2>3
<1> QED
  BY <1>6, <1>7, <1>8, <1>9

(* The recursion depth of a mutex that stays locked. *)
LEMMA LockKeepHandled ==
  ASSUME NEW s, Mid(s, NoThread, NoThread), NEW m \in Mutexes, s.lock[m] > 0, NEW n \in Nat, n > 0
  PROVE  Handled(s, LockSet(s, m, n))
<1> DEFINE u == LockSet(s, m, n)
<1>0. s \in KStates /\ Sound(s, NoThread)
  BY DEF Mid, Sound
<1>1. u \in KStates /\ SameButLock(s, u) /\ u.lock = [s.lock EXCEPT ![m] = n]
  BY <1>0, LockUpdate
<1> HIDE DEF u
<1>2. \A x \in Mutexes : u.lock[x] > 0 <=> s.lock[x] > 0
  BY <1>0, <1>1 DEF KStates
<1>3. /\ SameRest(s, u) /\ SameThreads(s, u) /\ SameLists(s, u) /\ SameSignals(s, u)
      /\ u.held = s.held /\ u.holder = s.holder /\ u.prio = s.prio /\ u.mprio = s.mprio
      /\ u.ready = s.ready /\ u.levels = s.levels /\ u.crashed = s.crashed
  BY <1>1 DEF SameButLock
<1>4. Own(u, NoThread)
  BY <1>0, <1>2, <1>3, Kinds DEF Sound, Own, Alive, SameThreads
<1>5. Inherit(u)
  BY <1>0, <1>3 DEF Sound, Inherit, Best, Alive, SameThreads, SameRest
<1>6. Queue(u) /\ Levelled(u) /\ Timed(u)
  BY <1>0, <1>3 DEF Sound, Queue, QueuesDistinct, QueuedRight, Levelled, Timed, SameThreads
<1>7. Sound(u, NoThread)
  BY <1>0, <1>1, <1>3, <1>4, <1>5, <1>6 DEF Sound
<1>8. Waits(u, NoThread)
  BY <1>3 DEF Mid, Waits, SameThreads, SameLists
<1>9. NoInv(u, NoThread, {})
  BY <1>3 DEF Mid, NoInv, NoInvAt, Pressing, SameThreads, SameLists
<1>10. NoLost(u, NoThread)
  <2>1. \A y \in Threads : \A x \in ToSet(s.waitObjs[y]) : x \in Objects
    BY <1>0, WaitObjsIn
  <2>2. \A x \in Objects, y \in Threads : ShouldWait(u, x, y) <=> ShouldWait(s, x, y)
    BY <1>2, <1>3, SameAvailability DEF SameSignals, SameThreads
  <2> QED
    BY <1>3, <2>1, <2>2 DEF Mid, NoLost, SameThreads, SameLists
<1>11. Mid(u, NoThread, NoThread)
  BY <1>7, <1>8, <1>9, <1>10 DEF Mid
<1>12. Handled(s, u)
  BY <1>3, <1>11, HoldingSame, SameHandled DEF SameThreads
<1> QED
  BY <1>12 DEF u

(* Mutex::Release up to the wakeup. *)
Unlocked(s, m, t) == [s EXCEPT !.lock[m] = 0, !.held[t] = @ \ {m}]
HolderSet(s, m, x) == [s EXCEPT !.holder[m] = x]

LEMMA UnlockUpdate ==
  ASSUME NEW s, s \in KStates, NEW m \in Mutexes, NEW t \in Threads
  PROVE  LET u == Unlocked(s, m, t)
         IN  /\ u \in KStates /\ SameButOwners(s, u) /\ u.holder = s.holder
             /\ \A x \in Mutexes : u.lock[x] = IF x = m THEN 0 ELSE s.lock[x]
             /\ u.held[t] = s.held[t] \ {m} /\ \A y \in Threads : y # t => u.held[y] = s.held[y]
<1> DEFINE u == Unlocked(s, m, t)
           f == [s.lock EXCEPT ![m] = 0]
           g == [s.held EXCEPT ![t] = @ \ {m}]
<1>1. /\ f \in [Mutexes -> Nat] /\ g \in [Threads -> SUBSET Mutexes]
      /\ \A x \in Mutexes : f[x] = IF x = m THEN 0 ELSE s.lock[x]
      /\ \A y \in Threads : g[y] = IF y = t THEN s.held[t] \ {m} ELSE s.held[y]
  BY DEF KStates
<1>2. u = [s EXCEPT !.lock = f, !.held = g]
  BY DEF KStates, Unlocked
<1> HIDE DEF f, g, u
<1>3. u \in KStates /\ u.lock = f /\ u.held = g /\ u.holder = s.holder
  BY <1>1, <1>2 DEF KStates
<1>4. SameButOwners(s, u)
  BY <1>2 DEF KStates, SameButOwners, SameRest, SameThreads, SameLists, SameSignals
<1> QED
  BY <1>1, <1>3, <1>4 DEF u

LEMMA HolderUpdate ==
  ASSUME NEW s, s \in KStates, NEW m \in Mutexes, NEW x \in Threads \cup {NoThread}
  PROVE  LET u == HolderSet(s, m, x)
         IN  /\ u \in KStates /\ SameButOwners(s, u) /\ u.held = s.held /\ u.lock = s.lock
             /\ \A z \in Mutexes : u.holder[z] = IF z = m THEN x ELSE s.holder[z]
<1> DEFINE u == HolderSet(s, m, x)
           f == [s.holder EXCEPT ![m] = x]
<1>1. /\ f \in [Mutexes -> Threads \cup {NoThread}]
      /\ \A z \in Mutexes : f[z] = IF z = m THEN x ELSE s.holder[z]
  BY DEF KStates
<1>2. u = [s EXCEPT !.holder = f]
  BY DEF KStates, HolderSet
<1> HIDE DEF f, u
<1>3. u \in KStates /\ u.holder = f /\ u.held = s.held /\ u.lock = s.lock
  BY <1>1, <1>2 DEF KStates
<1>4. SameButOwners(s, u)
  BY <1>2 DEF KStates, SameButOwners, SameRest, SameThreads, SameLists, SameSignals
<1> QED
  BY <1>1, <1>3, <1>4 DEF u

LEMMA GiveUpType ==
  ASSUME NEW s, s \in KStates, NEW m \in Mutexes, NEW t \in Threads
  PROVE  HolderSet(UpdatePriority(Unlocked(s, m, t), t), m, NoThread) \in KStates
<1> DEFINE a == Unlocked(s, m, t)
           b == UpdatePriority(a, t)
<1>1. a \in KStates
  BY UnlockUpdate
<1> HIDE DEF a
<1>2. b \in KStates
  BY <1>1, UpdateFacts
<1> HIDE DEF b
<1>3. HolderSet(b, m, NoThread) \in KStates
  BY <1>2, HolderUpdate
<1> QED
  BY <1>3 DEF a, b

LEMMA GiveUpFacts ==
  ASSUME NEW s, Mid(s, NoThread, NoThread), NEW m \in Mutexes, NEW t \in Threads,
         s.status[t] = "Running", s.holder[m] = t
  PROVE  LET v == HolderSet(UpdatePriority(Unlocked(s, m, t), t), m, NoThread)
         IN  /\ Mid(v, NoThread, m) /\ SameRest(s, v) /\ v.status = s.status
             /\ Holding(s, v, {m})
<1> DEFINE a == Unlocked(s, m, t)
           b == UpdatePriority(a, t)
           v == HolderSet(b, m, NoThread)
<1>0. /\ s \in KStates /\ Sound(s, NoThread) /\ m \in Objects /\ NoThread \notin Objects
      /\ NoThread \notin Threads /\ t # NoThread
  BY Kinds DEF Mid, Sound, Objects
<1>1. /\ a \in KStates /\ SameButOwners(s, a) /\ a.holder = s.holder
      /\ \A x \in Mutexes : a.lock[x] = IF x = m THEN 0 ELSE s.lock[x]
      /\ a.held[t] = s.held[t] \ {m} /\ \A y \in Threads : y # t => a.held[y] = s.held[y]
  BY <1>0, UnlockUpdate
<1> HIDE DEF a
<1>2. Queue(a) /\ Levelled(a)
  BY <1>0, <1>1 DEF Sound, Queue, QueuesDistinct, QueuedRight, Levelled, SameButOwners, SameThreads
<1>3. /\ b \in KStates /\ SameButPrio(a, b) /\ b.mprio = a.mprio
      /\ b.prio = [a.prio EXCEPT ![t] = Best(a, t)] /\ Queue(b) /\ Levelled(b)
  BY <1>1, <1>2, UpdateFacts
<1> HIDE DEF b
<1>4. /\ v \in KStates /\ SameButOwners(b, v) /\ v.held = b.held /\ v.lock = b.lock
      /\ \A z \in Mutexes : v.holder[z] = IF z = m THEN NoThread ELSE b.holder[z]
  BY <1>3, HolderUpdate
<1> HIDE DEF v
<1>5. SameRest(s, v) /\ SameThreads(s, v) /\ SameLists(s, v) /\ SameSignals(s, v) /\ v.crashed = s.crashed
  BY <1>1, <1>3, <1>4 DEF SameButOwners, SameButPrio, SameRest, SameThreads, SameLists, SameSignals
<1>6. /\ \A z \in Mutexes : /\ v.holder[z] = IF z = m THEN NoThread ELSE s.holder[z]
                            /\ v.lock[z] = IF z = m THEN 0 ELSE s.lock[z]
      /\ v.held[t] = s.held[t] \ {m} /\ \A y \in Threads : y # t => v.held[y] = s.held[y]
  BY <1>1, <1>3, <1>4 DEF SameButPrio, SameOwners
<1>7. /\ v.mprio = s.mprio
      /\ \A y \in Threads : v.prio[y] = IF y = t THEN Best(a, t) ELSE s.prio[y]
  <2>1. v.mprio = b.mprio /\ v.prio = b.prio /\ a.mprio = s.mprio /\ a.prio = s.prio
    BY <1>1, <1>4 DEF SameButOwners
  <2>2. s.prio \in [Threads -> Prios]
    BY <1>0 DEF KStates
  <2> QED
    BY <1>3, <2>1, <2>2
<1>8. Own(v, NoThread)
  <2>1. \A y \in Threads : Alive(v, y) <=> Alive(s, y)
    BY <1>5 DEF Alive, SameThreads
  <2>2. Own(s, NoThread)
    BY <1>0 DEF Sound
  <2>3. \A z \in Mutexes : v.lock[z] > 0 <=> v.holder[z] # NoThread
    BY <1>6, <2>2 DEF Own
  <2>4. ASSUME NEW z \in Mutexes, NEW y \in Threads
        PROVE  /\ v.holder[z] = y => z \in v.held[y] /\ (y # NoThread => Alive(v, y))
               /\ z \in v.held[y] /\ y # NoThread => v.holder[z] = y
    <3>1. CASE z = m
      <4>1. \A x \in Threads : m \in s.held[x] => x = t
        BY <1>0, <2>2 DEF Own
      <4> QED
        BY <1>0, <1>6, <3>1, <4>1
    <3>2. CASE z # m
      BY <1>6, <2>1, <2>2, <3>2 DEF Own
    <3> QED
      BY <3>1, <3>2
  <2> QED
    BY <1>0, <2>3, <2>4 DEF Own
<1>9. Inherit(v)
  <2>1. v.nominal = s.nominal /\ a.nominal = s.nominal /\ a.mprio = s.mprio
    BY <1>1, <1>5 DEF SameRest, SameButOwners
  <2>2. Best(a, t) = Best(v, t)
    BY <1>1, <1>6, <1>7, <2>1 DEF Best
  <2>3. ASSUME NEW y \in Threads, y # t PROVE Best(v, y) = Best(s, y)
    <3>1. v.held[y] = s.held[y]
      BY <1>6, <2>3
    <3> QED
      BY <1>7, <2>1, <3>1 DEF Best
  <2>4. \A y \in Threads : Alive(v, y) <=> Alive(s, y)
    BY <1>5 DEF Alive, SameThreads
  <2> QED
    BY <1>0, <1>7, <2>2, <2>3, <2>4 DEF Sound, Inherit
<1>10. Queue(v) /\ Levelled(v)
  BY <1>3, <1>4 DEF Queue, QueuesDistinct, QueuedRight, Levelled, SameButOwners, SameThreads
<1>11. Timed(v)
  BY <1>0, <1>5 DEF Sound, Timed, SameThreads
<1>12. Sound(v, NoThread)
  BY <1>0, <1>4, <1>5, <1>8, <1>9, <1>10, <1>11 DEF Sound
<1>13. Waits(v, NoThread)
  BY <1>5 DEF Mid, Waits, SameThreads, SameLists
<1>14. NoInv(v, NoThread, {})
  <2>1. ASSUME NEW z \in Mutexes, NEW y \in Threads, Pressing(v, z, y)
        PROVE  v.mprio[z] <= v.prio[y]
    <3>1. v.status[y] = "WaitSynchAny" /\ v.status = s.status /\ v.waiters = s.waiters
      BY <1>5, <2>1 DEF Pressing, SameThreads, SameLists
    <3>2. y # t
      BY <3>1
    <3>3. z # m
      BY <1>6, <2>1 DEF Pressing
    <3>4. Pressing(s, z, y)
      BY <1>6, <2>1, <3>1, <3>2, <3>3 DEF Pressing
    <3> QED
      BY <1>7, <3>2, <3>4 DEF Mid, NoInv, NoInvAt
  <2> QED
    BY <2>1 DEF NoInv, NoInvAt
<1>15. NoLost(v, m)
  <2>1. \A y \in Threads : \A x \in ToSet(s.waitObjs[y]) : x \in Objects
    BY <1>0, WaitObjsIn
  <2>2. \A x \in Objects, y \in Threads : x # m => (ShouldWait(v, x, y) <=> ShouldWait(s, x, y))
    BY <1>5, <1>6, SameAvailability DEF SameSignals, SameThreads
  <2> QED
    BY <1>0, <1>5, <2>1, <2>2 DEF Mid, NoLost, SameThreads, SameLists
<1>16. Mid(v, NoThread, m)
  BY <1>12, <1>13, <1>14, <1>15 DEF Mid
<1>17. v.status = s.status
  BY <1>5 DEF SameThreads
<1>18. Holding(s, v, {m})
  BY <1>6 DEF Holding
<1> QED
  BY <1>5, <1>16, <1>17, <1>18 DEF a, b, v

(* What became free wakes those who wait for it. *)
LEMMA WakeHandled ==
  ASSUME NEW s, NEW v, NEW o \in Objects, Mid(v, NoThread, o), SameRest(s, v), v.status = s.status,
         NEW M, Holding(s, v, M)
  PROVE  HandledBut(s, WakeupAllWaitingThreads(v, o), M)
<1> DEFINE u == WakeupAllWaitingThreads(v, o)
<1>1. NoThread \notin Threads
  BY Kinds
<1>2. Mid(u, NoThread, NoThread) /\ Woke(v, u, NoThread)
  BY <1>1, WakeupFacts
<1> HIDE DEF u
<1>3. Holding(s, u, M)
  <2>1. Holding(v, u, M) /\ Lasting(v, u)
    BY <1>2, HoldingBut DEF Woke, Lasting, WaitSynch
  <2> QED
    BY <2>1, HoldingTrans
<1>4. HandledBut(s, u, M)
  BY <1>2, <1>3 DEF HandledBut, Woke, SameRest, WaitSynch
<1> QED
  BY <1>4 DEF u

LEMMA ReleaseMutexIs ==
  ASSUME NEW c, NEW m, ReleaseMutex(c, m)
  PROVE  LET t == Caller(c)
         IN  \/ k' = k
             \/ k.holder[m] = t /\ k.lock[m] > 1 /\ k' = LockSet(k, m, k.lock[m] - 1)
             \/ /\ k.holder[m] = t /\ ~(k.lock[m] <= 0) /\ ~(k.lock[m] > 1)
                /\ k' = WakeupAllWaitingThreads(
                          HolderSet(UpdatePriority(Unlocked(k, m, t), t), m, NoThread), m)
BY DEF ReleaseMutex, LockSet, HolderSet, Unlocked

LEMMA ReleaseMutexType ==
  ASSUME k \in KStates, NEW c \in Cores, NEW m \in Mutexes, ReleaseMutex(c, m)
  PROVE  k' \in KStates
<1> DEFINE t == Caller(c)
           v == HolderSet(UpdatePriority(Unlocked(k, m, t), t), m, NoThread)
<1>1. t \in Threads /\ m \in Objects /\ k.lock[m] \in Nat
  BY CallerType, StateTypes DEF ReleaseMutex, Objects
<1>2. \/ k' = k
      \/ k.lock[m] > 1 /\ k' = LockSet(k, m, k.lock[m] - 1)
      \/ k' = WakeupAllWaitingThreads(v, m)
  BY ReleaseMutexIs
<1> HIDE DEF t
<1>3. v \in KStates
  BY <1>1, GiveUpType
<1> HIDE DEF v
<1>4. WakeupAllWaitingThreads(v, m) \in KStates
  BY <1>1, <1>3, WakeupType
<1>5. k.lock[m] > 1 => LockSet(k, m, k.lock[m] - 1) \in KStates
  <2> HAVE k.lock[m] > 1
  <2>1. k.lock[m] - 1 \in Nat
    BY <1>1
  <2> QED
    BY <2>1, LockUpdate
<1> QED
  BY <1>2, <1>4, <1>5

LEMMA ReleaseMutexHandled ==
  ASSUME KInv(k), NEW c \in Cores, NEW m \in Mutexes, ReleaseMutex(c, m)
  PROVE  \/ Handled(k, k')
         \/ HandledBut(k, k', {m}) /\ k.holder[m] = Caller(c) /\ k.lock[m] = 1
<1> DEFINE t == Caller(c)
           v == HolderSet(UpdatePriority(Unlocked(k, m, t), t), m, NoThread)
<1>1. t \in Threads /\ k.status[t] = "Running" /\ k \in KStates /\ Mid(k, NoThread, NoThread)
  BY CallerRuns DEF ReleaseMutex
<1>2. \/ k' = k
      \/ k.holder[m] = t /\ k.lock[m] > 1 /\ k' = LockSet(k, m, k.lock[m] - 1)
      \/ /\ k.holder[m] = t /\ ~(k.lock[m] <= 0) /\ ~(k.lock[m] > 1)
         /\ k' = WakeupAllWaitingThreads(v, m)
  BY ReleaseMutexIs
<1>3. m \in Objects /\ k.lock[m] \in Nat
  BY <1>1, StateTypes DEF Objects
<1>t. t = Caller(c)
  OBVIOUS
<1> HIDE DEF t
<1>4. CASE k' = k
  BY <1>1, <1>4, NothingHandled
<1>5. CASE k.lock[m] > 1 /\ k' = LockSet(k, m, k.lock[m] - 1)
  <2>1. k.lock[m] - 1 \in Nat /\ k.lock[m] - 1 > 0 /\ k.lock[m] > 0
    BY <1>3, <1>5
  <2>2. Handled(k, LockSet(k, m, k.lock[m] - 1))
    BY <1>1, <2>1, LockKeepHandled
  <2> QED
    BY <1>5, <2>2
<1>6. CASE /\ k.holder[m] = t /\ ~(k.lock[m] <= 0) /\ ~(k.lock[m] > 1)
           /\ k' = WakeupAllWaitingThreads(v, m)
  <2>1. Mid(v, NoThread, m) /\ SameRest(k, v) /\ v.status = k.status /\ Holding(k, v, {m})
    BY <1>1, <1>6, GiveUpFacts
  <2> HIDE DEF v
  <2>2. HandledBut(k, WakeupAllWaitingThreads(v, m), {m})
    BY <1>3, <2>1, WakeHandled
  <2>3. k.lock[m] = 1
    BY <1>3, <1>6
  <2> QED
    BY <1>t, <1>6, <2>2, <2>3
<1> QED
  BY <1>2, <1>4, <1>5, <1>6

(* An object that is no mutex became free. *)
LEMMA FreedMid ==
  ASSUME NEW s, Mid(s, NoThread, NoThread), NEW u, u \in KStates, Same(s, u), NEW o \in Objects,
         OnlyOf(s, u, o)
  PROVE  Mid(u, NoThread, o)
<1>0. s \in KStates /\ Sound(s, NoThread) /\ NoInv(s, NoThread, {}) /\ NoThread \notin Objects
  BY Kinds DEF Mid, Sound
<1>1. Sound(u, NoThread) /\ NoInv(u, NoThread, {})
  BY <1>0, SameSound
<1>2. Waits(u, NoThread)
  BY DEF Mid, Waits, Same, SameThreads, SameLists
<1>3. NoLost(u, o)
  <2>1. \A y \in Threads : \A x \in ToSet(s.waitObjs[y]) : x \in Objects
    BY <1>0, WaitObjsIn
  <2> QED
    BY <1>0, <2>1 DEF Mid, NoLost, OnlyOf, Same, SameThreads, SameLists
<1> QED
  BY <1>1, <1>2, <1>3 DEF Mid

LEMMA AddType ==
  ASSUME NEW a \in Int, NEW b \in Int
  PROVE  Add(a, b) \in MinWord .. MaxWord
<1>1. MinWord \in Int /\ MaxWord \in Int /\ MinWord <= MaxWord
  BY KernelAssumption
<1> DEFINE n == MaxWord - MinWord + 1
           d == a + b - MinWord
<1>2. n \in Nat /\ n > 0 /\ d \in Int
  BY <1>1
<1>3. Add(a, b) = (d % n) + MinWord
  BY DEF Add
<1>4. d % n \in 0 .. n - 1
  <2> HIDE DEF d, n
  <2> QED
    BY <1>2
<1> HIDE DEF d
<1> QED
  BY <1>1, <1>3, <1>4

LEMMA ReleaseSemaphoreIs ==
  ASSUME NEW c, NEW x, NEW n, ReleaseSemaphore(c, x, n)
  PROVE  \/ k' = k
         \/ /\ ~(MaxCount < Add(n, k.count[x]))
            /\ k' = WakeupAllWaitingThreads(CountSet(k, x, Add(k.count[x], n)), x)
BY DEF ReleaseSemaphore, CountSet

(* What Semaphore::Release lets through is a count again. *)
LEMMA ReleaseTypes ==
  ASSUME k \in KStates, NEW x \in Semaphores, NEW n \in Releases,
         ~(MaxCount < Add(n, k.count[x]))
  PROVE  Add(k.count[x], n) \in Counts
<1> DEFINE a == k.count[x]
           b == Add(a, n)
<1>1. /\ MinWord \in Int /\ MaxWord \in Int /\ MaxCount \in Int /\ n \in Int
      /\ MinWord < 0 /\ MaxWord >= MaxCount
  BY KernelAssumption
<1>2. a \in Counts
  BY StateTypes
<1>3. a \in Int /\ MinWord <= a /\ a <= MaxCount
  BY <1>1, <1>2 DEF Counts
<1> HIDE DEF a
<1>4. Add(n, a) = b
  <2>1. n + a - MinWord = a + n - MinWord
    BY <1>1, <1>3
  <2> QED
    BY <2>1 DEF Add
<1>5. b \in MinWord .. MaxWord /\ ~(MaxCount < b)
  BY <1>1, <1>3, <1>4, AddType DEF a
<1> HIDE DEF b
<1>6. b \in Counts
  BY <1>1, <1>5 DEF Counts
<1> QED
  BY <1>6 DEF b, a

LEMMA ReleaseSemaphoreType ==
  ASSUME k \in KStates, NEW c \in Cores, NEW x \in Semaphores, NEW n \in Releases,
         ReleaseSemaphore(c, x, n)
  PROVE  k' \in KStates
<1> DEFINE b == Add(k.count[x], n)
           v == CountSet(k, x, b)
<1>1. k' = k \/ (~(MaxCount < Add(n, k.count[x])) /\ k' = WakeupAllWaitingThreads(v, x))
  BY ReleaseSemaphoreIs
<1>2. SUFFICES ASSUME k' # k PROVE k' \in KStates
  OBVIOUS
<1>3. b \in Counts /\ x \in Objects
  BY <1>1, <1>2, ReleaseTypes DEF Objects
<1> HIDE DEF b
<1>4. v \in KStates
  BY <1>3, CountUpdate
<1> HIDE DEF v
<1>5. WakeupAllWaitingThreads(v, x) \in KStates
  BY <1>3, <1>4, WakeupType
<1> QED
  BY <1>1, <1>2, <1>5

LEMMA CountOnly ==
  ASSUME NEW s, s \in KStates, NEW x \in Semaphores, NEW n \in Counts
  PROVE  OnlyOf(s, CountSet(s, x, n), x)
<1> DEFINE v == CountSet(s, x, n)
<1>1. v \in KStates /\ Same(s, v) /\ v.signaled = s.signaled /\ v.count = [s.count EXCEPT ![x] = n]
  BY CountUpdate
<1> HIDE DEF v
<1>2. v.status = s.status /\ v.lock = s.lock /\ v.holder = s.holder
  BY <1>1 DEF Same, SameThreads, SameOwners
<1>3. \A o \in Semaphores : o # x => v.count[o] = s.count[o]
  BY <1>1 DEF KStates
<1>4. OnlyOf(s, v, x)
  BY <1>1, <1>2, <1>3, SameAvailability DEF OnlyOf
<1> QED
  BY <1>4 DEF v

LEMMA ReleaseSemaphoreHandled ==
  ASSUME KInv(k), NEW c \in Cores, NEW x \in Semaphores, NEW n \in Releases,
         ReleaseSemaphore(c, x, n)
  PROVE  Handled(k, k')
<1> DEFINE b == Add(k.count[x], n)
           v == CountSet(k, x, b)
<1>0. k \in KStates /\ Mid(k, NoThread, NoThread)
  BY DEF KInv, Mid, Sound
<1>1. k' = k \/ (~(MaxCount < Add(n, k.count[x])) /\ k' = WakeupAllWaitingThreads(v, x))
  BY ReleaseSemaphoreIs
<1>s. SUFFICES ASSUME k' # k PROVE Handled(k, k')
  BY <1>0, NothingHandled
<1>2. b \in Counts /\ x \in Objects
  BY <1>0, <1>1, <1>s, ReleaseTypes DEF Objects
<1> HIDE DEF b
<1>3. v \in KStates /\ Same(k, v) /\ OnlyOf(k, v, x)
  BY <1>0, <1>2, CountUpdate, CountOnly
<1> HIDE DEF v
<1>4. Mid(v, NoThread, x)
  BY <1>0, <1>2, <1>3, FreedMid
<1>5. SameRest(k, v) /\ v.status = k.status
  BY <1>3 DEF Same, SameThreads
<1>h. Holding(k, v, {})
  BY <1>3, HoldingSame DEF Same, SameOwners
<1>6. Handled(k, WakeupAllWaitingThreads(v, x))
  BY <1>2, <1>4, <1>5, <1>h, WakeHandled DEF Handled
<1> QED
  BY <1>1, <1>s, <1>6

(* Signalling an event or a timer. *)
Signalled(s, e) == WakeupAllWaitingThreads(SignalSet(s, e, TRUE), e)

LEMMA SignalledType ==
  ASSUME NEW s, s \in KStates, NEW e \in Events \cup Timers
  PROVE  Signalled(s, e) \in KStates
<1> DEFINE v == SignalSet(s, e, TRUE)
<1>1. v \in KStates /\ e \in Objects
  BY SignalUpdate DEF Objects
<1> HIDE DEF v
<1>2. WakeupAllWaitingThreads(v, e) \in KStates
  BY <1>1, WakeupType
<1> QED
  BY <1>2 DEF Signalled, v

LEMMA SignalledHandled ==
  ASSUME NEW s, Mid(s, NoThread, NoThread), NEW e \in Events \cup Timers
  PROVE  Handled(s, Signalled(s, e))
<1> DEFINE v == SignalSet(s, e, TRUE)
<1>0. s \in KStates /\ e \in Objects
  BY DEF Mid, Sound, Objects
<1>1. v \in KStates /\ Same(s, v) /\ v.count = s.count /\ v.signaled = [s.signaled EXCEPT ![e] = TRUE]
  BY <1>0, SignalUpdate
<1> HIDE DEF v
<1>2. v.status = s.status /\ v.lock = s.lock /\ v.holder = s.holder /\ SameRest(s, v)
  BY <1>1 DEF Same, SameThreads, SameOwners
<1>3. \A o \in Events \cup Timers : o # e => v.signaled[o] = s.signaled[o]
  BY <1>0, <1>1 DEF KStates
<1>4. OnlyOf(s, v, e)
  BY <1>1, <1>2, <1>3, SameAvailability DEF OnlyOf
<1>5. Mid(v, NoThread, e)
  BY <1>0, <1>1, <1>4, FreedMid
<1>h. Holding(s, v, {})
  BY <1>2, HoldingSame
<1>6. Handled(s, WakeupAllWaitingThreads(v, e))
  BY <1>0, <1>2, <1>5, <1>h, WakeHandled DEF Handled
<1> QED
  BY <1>6 DEF Signalled, v

(* The timing events of timers. *)
ArmSet(s, x, n, b) == [s EXCEPT !.armed[x] = n, !.periodic[x] = b]

LEMMA ArmUpdate ==
  ASSUME NEW s, s \in KStates, NEW x \in Timers, NEW n \in Int, NEW b \in BOOLEAN
  PROVE  LET u == ArmSet(s, x, n, b)
         IN  /\ u \in KStates /\ SameThreads(s, u) /\ SameLists(s, u) /\ SameOwners(s, u)
             /\ SameSignals(s, u) /\ u.prio = s.prio /\ u.mprio = s.mprio /\ u.ready = s.ready
             /\ u.levels = s.levels /\ u.crashed = s.crashed /\ u.nominal = s.nominal
             /\ u.cur = s.cur /\ u.runsOn = s.runsOn /\ u.used = s.used
<1> DEFINE u == ArmSet(s, x, n, b)
           f == [s.armed EXCEPT ![x] = n]
           g == [s.periodic EXCEPT ![x] = b]
<1>1. f \in [Timers -> Int] /\ g \in [Timers -> BOOLEAN]
  BY DEF KStates
<1>2. u = [s EXCEPT !.armed = f, !.periodic = g]
  BY DEF KStates, ArmSet
<1> HIDE DEF f, g, u
<1>3. u \in KStates
  BY <1>1, <1>2 DEF KStates
<1>4. /\ SameThreads(s, u) /\ SameLists(s, u) /\ SameOwners(s, u)
      /\ SameSignals(s, u) /\ u.prio = s.prio /\ u.mprio = s.mprio /\ u.ready = s.ready
      /\ u.levels = s.levels /\ u.crashed = s.crashed /\ u.nominal = s.nominal
      /\ u.cur = s.cur /\ u.runsOn = s.runsOn /\ u.used = s.used
  BY <1>2 DEF KStates, SameThreads, SameLists, SameOwners, SameSignals
<1> QED
  BY <1>3, <1>4 DEF u

(* States that differ in nothing the invariant reads. *)
LEMMA AlikeHandled ==
  ASSUME NEW s, Mid(s, NoThread, NoThread), NEW u, u \in KStates, SameThreads(s, u),
         SameLists(s, u), SameOwners(s, u), SameSignals(s, u), u.prio = s.prio,
         u.mprio = s.mprio, u.ready = s.ready, u.levels = s.levels, u.crashed = s.crashed,
         u.nominal = s.nominal, u.cur = s.cur, u.runsOn = s.runsOn, u.used = s.used
  PROVE  Handled(s, u)
<1>0. s \in KStates /\ Sound(s, NoThread)
  BY DEF Mid, Sound
<1>1. Own(u, NoThread)
  BY <1>0, Kinds DEF Sound, Own, Alive, SameThreads, SameOwners
<1>2. Inherit(u)
  BY <1>0 DEF Sound, Inherit, Best, Alive, SameThreads, SameOwners
<1>3. Queue(u) /\ Levelled(u) /\ Timed(u)
  BY <1>0 DEF Sound, Queue, QueuesDistinct, QueuedRight, Levelled, Timed, SameThreads
<1>4. Waits(u, NoThread)
  BY DEF Mid, Waits, SameThreads, SameLists
<1>5. NoInv(u, NoThread, {})
  BY DEF Mid, NoInv, NoInvAt, Pressing, SameThreads, SameLists, SameOwners
<1>6. NoLost(u, NoThread)
  <2>1. \A y \in Threads : \A x \in ToSet(s.waitObjs[y]) : x \in Objects
    BY <1>0, WaitObjsIn
  <2>2. \A x \in Objects, y \in Threads : ShouldWait(u, x, y) <=> ShouldWait(s, x, y)
    BY SameAvailability DEF SameSignals, SameThreads, SameOwners
  <2> QED
    BY <2>1, <2>2 DEF Mid, NoLost, SameThreads, SameLists
<1>7. Holding(s, u, {})
  BY HoldingSame DEF SameOwners
<1>8. Mid(u, NoThread, NoThread)
  BY <1>0, <1>1, <1>2, <1>3, <1>4, <1>5, <1>6 DEF Mid, Sound
<1> QED
  BY <1>7, <1>8 DEF Handled, HandledBut, SameThreads

LEMMA ArmHandled ==
  ASSUME NEW s, Mid(s, NoThread, NoThread), NEW x \in Timers, NEW n \in Int, NEW b \in BOOLEAN
  PROVE  Handled(s, ArmSet(s, x, n, b))
<1> DEFINE u == ArmSet(s, x, n, b)
<1>0. s \in KStates
  BY DEF Mid, Sound
<1>1. /\ u \in KStates /\ SameThreads(s, u) /\ SameLists(s, u) /\ SameOwners(s, u)
      /\ SameSignals(s, u) /\ u.prio = s.prio /\ u.mprio = s.mprio /\ u.ready = s.ready
      /\ u.levels = s.levels /\ u.crashed = s.crashed /\ u.nominal = s.nominal
      /\ u.cur = s.cur /\ u.runsOn = s.runsOn /\ u.used = s.used
  BY <1>0, ArmUpdate
<1> HIDE DEF u
<1>2. Handled(s, u)
  BY <1>1, AlikeHandled
<1> QED
  BY <1>2 DEF u

LEMMA HandledTrans ==
  ASSUME NEW s, NEW u, NEW v, Handled(s, u), Handled(u, v)
  PROVE  Handled(s, v)
<1>1. Lasting(u, v) /\ Holding(s, u, {}) /\ Holding(u, v, {})
  BY DEF Handled, HandledBut, Lasting
<1>2. Holding(s, v, {})
  BY <1>1, HoldingTrans
<1> QED
  BY <1>2 DEF Handled, HandledBut

LEMMA ArmedTypes ==
  ASSUME NEW s, s \in KStates, NEW x \in Timers
  PROVE  s.armed[x] \in Int /\ s.periodic[x] \in BOOLEAN
BY DEF KStates

LEMMA TimerSignalIs ==
  ASSUME NEW s, s \in KStates, NEW x \in Timers
  PROVE  LET u == Signalled(s, x)
         IN  TimerSignal(s, x) =
               IF s.periodic[x] THEN ArmSet(u, x, u.armed[x] + 1, u.periodic[x]) ELSE u
<1> DEFINE u == Signalled(s, x)
<1>1. TimerSignal(s, x) = IF s.periodic[x] THEN [u EXCEPT !.armed[x] = @ + 1] ELSE u
  BY DEF TimerSignal, Signalled, SignalSet
<1>2. u \in KStates
  BY SignalledType
<1> HIDE DEF u
<1>3. [u EXCEPT !.armed[x] = @ + 1] = ArmSet(u, x, u.armed[x] + 1, u.periodic[x])
  BY <1>2 DEF ArmSet, KStates
<1> QED
  BY <1>1, <1>3 DEF u

LEMMA TimerSignalType ==
  ASSUME NEW s, s \in KStates, NEW x \in Timers
  PROVE  TimerSignal(s, x) \in KStates
<1> DEFINE u == Signalled(s, x)
           n == u.armed[x] + 1
           b == u.periodic[x]
<1>1. u \in KStates
  BY SignalledType
<1>2. TimerSignal(s, x) = IF s.periodic[x] THEN ArmSet(u, x, n, b) ELSE u
  BY TimerSignalIs
<1> HIDE DEF u
<1>3. n \in Int /\ b \in BOOLEAN
  BY <1>1, ArmedTypes
<1> HIDE DEF n, b
<1>4. ArmSet(u, x, n, b) \in KStates
  BY <1>1, <1>3, ArmUpdate
<1> QED
  BY <1>1, <1>2, <1>4

LEMMA TimerSignalHandled ==
  ASSUME NEW s, Mid(s, NoThread, NoThread), NEW x \in Timers
  PROVE  Handled(s, TimerSignal(s, x))
<1> DEFINE u == Signalled(s, x)
           n == u.armed[x] + 1
           b == u.periodic[x]
<1>0. s \in KStates
  BY DEF Mid, Sound
<1>1. Handled(s, u)
  BY SignalledHandled
<1>2. TimerSignal(s, x) = IF s.periodic[x] THEN ArmSet(u, x, n, b) ELSE u
  BY <1>0, TimerSignalIs
<1> HIDE DEF u
<1>3. Mid(u, NoThread, NoThread) /\ u \in KStates
  BY <1>1 DEF Handled, HandledBut, Mid, Sound
<1>4. n \in Int /\ b \in BOOLEAN
  BY <1>3, ArmedTypes
<1> HIDE DEF n, b
<1>5. Handled(u, ArmSet(u, x, n, b))
  BY <1>3, <1>4, ArmHandled
<1>6. Handled(s, ArmSet(u, x, n, b))
  BY <1>1, <1>5, HandledTrans
<1> QED
  BY <1>1, <1>2, <1>6

LEMMA InvMid ==
  ASSUME KInv(k)
  PROVE  k \in KStates /\ Mid(k, NoThread, NoThread) /\ Sound(k, NoThread)
BY DEF KInv, Mid, Sound

LEMMA SignalEventType ==
  ASSUME k \in KStates, NEW e \in Events, SignalEvent(e)
  PROVE  k' \in KStates
<1>1. k' = Signalled(k, e)
  BY DEF SignalEvent, Signalled, SignalSet
<1> QED
  BY <1>1, SignalledType

LEMMA SignalEventHandled ==
  ASSUME KInv(k), NEW e \in Events, SignalEvent(e)
  PROVE  Handled(k, k')
<1>1. k' = Signalled(k, e)
  BY DEF SignalEvent, Signalled, SignalSet
<1> QED
  BY <1>1, InvMid, SignalledHandled

LEMMA ClearType ==
  ASSUME k \in KStates, NEW c, NEW o \in Events \cup Timers, ClearObject(c, o)
  PROVE  k' \in KStates
<1>1. k' = SignalSet(k, o, FALSE)
  BY DEF ClearObject, SignalSet
<1> QED
  BY <1>1, SignalUpdate

LEMMA ClearHandled ==
  ASSUME KInv(k), NEW c, NEW o \in Events \cup Timers, ClearObject(c, o)
  PROVE  Handled(k, k')
<1>1. k' = SignalSet(k, o, FALSE)
  BY DEF ClearObject, SignalSet
<1>2. Mid(k, NoThread, NoThread)
  BY InvMid
<1>3. /\ Mid(SignalSet(k, o, FALSE), NoThread, NoThread)
      /\ Woke(k, SignalSet(k, o, FALSE), NoThread)
  BY <1>2, LessSignalled
<1>4. Handled(k, SignalSet(k, o, FALSE))
  BY <1>3, WokeHandled
<1> QED
  BY <1>1, <1>4

LEMMA SetTimerIs ==
  ASSUME k \in KStates, NEW c, NEW x \in Timers, NEW zero, NEW periodic, SetTimer(c, x, zero, periodic)
  PROVE  \/ k' = TimerSignal(ArmSet(k, x, 0, periodic), x)
         \/ k' = ArmSet(ArmSet(k, x, 0, periodic), x, ArmSet(k, x, 0, periodic).armed[x] + 1,
                        ArmSet(k, x, 0, periodic).periodic[x])
<1> DEFINE s == ArmSet(k, x, 0, periodic)
<1>1. s.periodic \in [Timers -> {periodic} \cup BOOLEAN]
  BY DEF ArmSet, KStates
<1>2. k' = TimerSignal(s, x) \/ k' = [s EXCEPT !.armed[x] = @ + 1]
  BY DEF SetTimer, ArmSet
<1> DEFINE n == s.armed[x] + 1
           b == s.periodic[x]
<1>3. [s EXCEPT !.armed[x] = @ + 1] = [s EXCEPT !.armed[x] = n]
  OBVIOUS
<1>5. DOMAIN s = DOMAIN k /\ "periodic" \in DOMAIN k /\ "armed" \in DOMAIN k
  BY DEF ArmSet, KStates
<1> HIDE DEF s
<1>6. [s EXCEPT !.armed[x] = n] = ArmSet(s, x, n, b)
  BY <1>1, <1>5 DEF ArmSet
<1> QED
  BY <1>2, <1>3, <1>6 DEF s

LEMMA SetTimerType ==
  ASSUME k \in KStates, NEW c, NEW x \in Timers, NEW zero, NEW periodic \in BOOLEAN,
         SetTimer(c, x, zero, periodic)
  PROVE  k' \in KStates
<1> DEFINE s == ArmSet(k, x, 0, periodic)
           n == s.armed[x] + 1
           b == s.periodic[x]
<1>1. s \in KStates
  BY ArmUpdate
<1>2. k' = TimerSignal(s, x) \/ k' = ArmSet(s, x, n, b)
  BY SetTimerIs
<1> HIDE DEF s
<1>3. n \in Int /\ b \in BOOLEAN
  BY <1>1, ArmedTypes
<1> HIDE DEF n, b
<1>4. ArmSet(s, x, n, b) \in KStates /\ TimerSignal(s, x) \in KStates
  BY <1>1, <1>3, ArmUpdate, TimerSignalType
<1> QED
  BY <1>2, <1>4

LEMMA SetTimerHandled ==
  ASSUME KInv(k), NEW c, NEW x \in Timers, NEW zero, NEW periodic \in BOOLEAN,
         SetTimer(c, x, zero, periodic)
  PROVE  Handled(k, k')
<1> DEFINE s == ArmSet(k, x, 0, periodic)
           n == s.armed[x] + 1
           b == s.periodic[x]
<1>0. k \in KStates /\ Mid(k, NoThread, NoThread)
  BY InvMid
<1>1. Handled(k, s)
  BY <1>0, ArmHandled
<1>2. k' = TimerSignal(s, x) \/ k' = ArmSet(s, x, n, b)
  BY <1>0, SetTimerIs
<1> HIDE DEF s
<1>3. Mid(s, NoThread, NoThread) /\ s \in KStates
  BY <1>1 DEF Handled, HandledBut, Mid, Sound
<1>4. n \in Int /\ b \in BOOLEAN
  BY <1>3, ArmedTypes
<1> HIDE DEF n, b
<1>5. Handled(s, ArmSet(s, x, n, b)) /\ Handled(s, TimerSignal(s, x))
  BY <1>3, <1>4, ArmHandled, TimerSignalHandled
<1>6. Handled(k, ArmSet(s, x, n, b)) /\ Handled(k, TimerSignal(s, x))
  BY <1>1, <1>5, HandledTrans
<1> QED
  BY <1>2, <1>6

LEMMA ArmOnly ==
  ASSUME NEW s, s \in KStates, NEW x \in Timers, NEW n
  PROVE  [s EXCEPT !.armed[x] = n] = ArmSet(s, x, n, s.periodic[x])
BY DEF ArmSet, KStates

LEMMA CancelType ==
  ASSUME k \in KStates, NEW c, NEW x \in Timers, CancelTimer(c, x)
  PROVE  k' \in KStates
<1>1. k' = ArmSet(k, x, 0, k.periodic[x])
  BY ArmOnly DEF CancelTimer
<1> QED
  BY <1>1, ArmedTypes, ArmUpdate

LEMMA CancelHandled ==
  ASSUME KInv(k), NEW c, NEW x \in Timers, CancelTimer(c, x)
  PROVE  Handled(k, k')
<1>0. k \in KStates /\ Mid(k, NoThread, NoThread)
  BY InvMid
<1>1. k' = ArmSet(k, x, 0, k.periodic[x])
  BY <1>0, ArmOnly DEF CancelTimer
<1> QED
  BY <1>0, <1>1, ArmedTypes, ArmHandled

LEMMA TimerCallbackType ==
  ASSUME k \in KStates, NEW x \in Timers, TimerCallback(x)
  PROVE  k' \in KStates
<1> DEFINE n == k.armed[x] - 1
           s == ArmSet(k, x, n, k.periodic[x])
<1>1. [k EXCEPT !.armed[x] = n] = s
  BY ArmOnly
<1>2. k' = TimerSignal(s, x)
  BY <1>1 DEF TimerCallback
<1>3. n \in Int /\ k.periodic[x] \in BOOLEAN
  BY ArmedTypes
<1> HIDE DEF n
<1>4. s \in KStates
  BY <1>3, ArmUpdate
<1> HIDE DEF s
<1> QED
  BY <1>2, <1>4, TimerSignalType

LEMMA TimerCallbackHandled ==
  ASSUME KInv(k), NEW x \in Timers, TimerCallback(x)
  PROVE  Handled(k, k')
<1> DEFINE n == k.armed[x] - 1
           s == ArmSet(k, x, n, k.periodic[x])
<1>0. k \in KStates /\ Mid(k, NoThread, NoThread)
  BY InvMid
<1>1. [k EXCEPT !.armed[x] = n] = s
  BY <1>0, ArmOnly
<1>2. k' = TimerSignal(s, x)
  BY <1>1 DEF TimerCallback
<1>3. n \in Int /\ k.periodic[x] \in BOOLEAN
  BY <1>0, ArmedTypes
<1> HIDE DEF n
<1>4. Handled(k, s)
  BY <1>0, <1>3, ArmHandled
<1> HIDE DEF s
<1>5. Handled(s, TimerSignal(s, x))
  BY <1>4, TimerSignalHandled DEF Handled, HandledBut
<1> QED
  BY <1>2, <1>4, <1>5, HandledTrans

(* The timeout of a thread. *)
TimerSet(s, t, n) == [s EXCEPT !.timer[t] = n]

LEMMA TimerUpdate ==
  ASSUME NEW s, s \in KStates, NEW t \in Threads, NEW n \in Nat
  PROVE  LET u == TimerSet(s, t, n)
         IN  /\ u \in KStates /\ SameRest(s, u) /\ SameLists(s, u) /\ SameOwners(s, u)
             /\ SameSignals(s, u) /\ u.status = s.status /\ u.callback = s.callback
             /\ u.prio = s.prio /\ u.mprio = s.mprio /\ u.ready = s.ready /\ u.levels = s.levels
             /\ u.crashed = s.crashed
             /\ \A y \in Threads : u.timer[y] = IF y = t THEN n ELSE s.timer[y]
<1> DEFINE u == TimerSet(s, t, n)
           f == [s.timer EXCEPT ![t] = n]
<1>1. f \in [Threads -> Nat] /\ \A y \in Threads : f[y] = IF y = t THEN n ELSE s.timer[y]
  BY DEF KStates
<1>2. u = [s EXCEPT !.timer = f]
  BY DEF KStates, TimerSet
<1> HIDE DEF f, u
<1>3. u \in KStates /\ u.timer = f
  BY <1>1, <1>2 DEF KStates
<1>4. /\ SameRest(s, u) /\ SameLists(s, u) /\ SameOwners(s, u)
      /\ SameSignals(s, u) /\ u.status = s.status /\ u.callback = s.callback
      /\ u.prio = s.prio /\ u.mprio = s.mprio /\ u.ready = s.ready /\ u.levels = s.levels
      /\ u.crashed = s.crashed
  BY <1>2 DEF KStates, SameRest, SameLists, SameOwners, SameSignals
<1> QED
  BY <1>1, <1>3, <1>4 DEF u

LEMMA TimerMid ==
  ASSUME NEW s, Mid(s, NoThread, NoThread), NEW t \in Threads, NEW n \in Nat, n <= 1,
         s.status[t] \in WaitSynch \cup {"WaitSleep"}
  PROVE  LET u == TimerSet(s, t, n)
         IN  /\ Mid(u, NoThread, NoThread) /\ SameRest(s, u) /\ SameLists(s, u)
             /\ SameOwners(s, u) /\ u.status = s.status
<1> DEFINE u == TimerSet(s, t, n)
<1>0. s \in KStates /\ Sound(s, NoThread)
  BY DEF Mid, Sound
<1>1. /\ u \in KStates /\ SameRest(s, u) /\ SameLists(s, u) /\ SameOwners(s, u)
      /\ SameSignals(s, u) /\ u.status = s.status /\ u.callback = s.callback
      /\ u.prio = s.prio /\ u.mprio = s.mprio /\ u.ready = s.ready /\ u.levels = s.levels
      /\ u.crashed = s.crashed
      /\ \A y \in Threads : u.timer[y] = IF y = t THEN n ELSE s.timer[y]
  BY <1>0, TimerUpdate
<1> HIDE DEF u
<1>2. Own(u, NoThread)
  BY <1>0, <1>1, Kinds DEF Sound, Own, Alive, SameOwners
<1>3. Inherit(u)
  BY <1>0, <1>1 DEF Sound, Inherit, Best, Alive, SameOwners, SameRest
<1>4. Queue(u) /\ Levelled(u)
  BY <1>0, <1>1 DEF Sound, Queue, QueuesDistinct, QueuedRight, Levelled
<1>5. Timed(u)
  BY <1>0, <1>1 DEF Sound, Timed, WaitSynch
<1>6. Waits(u, NoThread)
  BY <1>1 DEF Mid, Waits, SameLists
<1>7. NoInv(u, NoThread, {})
  BY <1>1 DEF Mid, NoInv, NoInvAt, Pressing, SameLists, SameOwners
<1>8. NoLost(u, NoThread)
  <2>1. \A y \in Threads : \A x \in ToSet(s.waitObjs[y]) : x \in Objects
    BY <1>0, WaitObjsIn
  <2>2. \A x \in Objects, y \in Threads : ShouldWait(u, x, y) <=> ShouldWait(s, x, y)
    BY <1>1, SameAvailability DEF SameSignals, SameOwners
  <2> QED
    BY <1>1, <2>1, <2>2 DEF Mid, NoLost, SameLists
<1>9. Mid(u, NoThread, NoThread)
  BY <1>0, <1>1, <1>2, <1>3, <1>4, <1>5, <1>6, <1>7, <1>8 DEF Mid, Sound
<1> QED
  BY <1>1, <1>9 DEF u

LEMMA SleepIs ==
  ASSUME k \in KStates, NEW c, NEW timeout, SleepThread(c, timeout)
  PROVE  LET t == Caller(c)
             a == StatusSet(k, t, "WaitSleep")
         IN  k' = TimerSet(a, t, IF timeout = "forever" THEN a.timer[t] ELSE a.timer[t] + 1)
<1> DEFINE t == Caller(c)
           a == StatusSet(k, t, "WaitSleep")
<1>1. a.timer = k.timer
  BY DEF StatusSet, KStates
<1>2. k' = [k EXCEPT !.status[t] = "WaitSleep",
                     !.timer[t] = IF timeout = "forever" THEN @ ELSE @ + 1]
  BY DEF SleepThread
<1>3. k' = [k EXCEPT !.status[t] = "WaitSleep",
                     !.timer[t] = IF timeout = "forever" THEN k.timer[t] ELSE k.timer[t] + 1]
  BY <1>2
<1> HIDE DEF t
<1>4. k' = TimerSet(a, t, IF timeout = "forever" THEN k.timer[t] ELSE k.timer[t] + 1)
  BY <1>3 DEF TimerSet, StatusSet
<1> QED
  BY <1>1, <1>4 DEF t

LEMMA SleepType ==
  ASSUME k \in KStates, NEW c \in Cores, NEW timeout, SleepThread(c, timeout)
  PROVE  k' \in KStates
<1> DEFINE t == Caller(c)
           a == StatusSet(k, t, "WaitSleep")
           n == IF timeout = "forever" THEN a.timer[t] ELSE a.timer[t] + 1
<1>1. t \in Threads
  BY CallerType DEF SleepThread
<1>2. k' = TimerSet(a, t, n)
  BY SleepIs
<1> HIDE DEF t
<1>3. a \in KStates
  BY <1>1, StatusUpdate DEF Status
<1> HIDE DEF a
<1>4. n \in Nat
  BY <1>1, <1>3, StateTypes
<1> HIDE DEF n
<1> QED
  BY <1>1, <1>2, <1>3, <1>4, TimerUpdate

LEMMA SleepHandled ==
  ASSUME KInv(k), NEW c \in Cores, NEW timeout, SleepThread(c, timeout)
  PROVE  Handled(k, k')
<1> DEFINE t == Caller(c)
           a == StatusSet(k, t, "WaitSleep")
           n == IF timeout = "forever" THEN a.timer[t] ELSE a.timer[t] + 1
<1>1. t \in Threads /\ k.status[t] = "Running" /\ k \in KStates /\ Mid(k, NoThread, NoThread)
  BY CallerRuns DEF SleepThread
<1>2. k' = TimerSet(a, t, n)
  BY <1>1, SleepIs
<1> HIDE DEF t
<1>3. /\ a \in KStates /\ SameRest(k, a) /\ SameLists(k, a) /\ SameOwners(k, a)
      /\ SameSignals(k, a) /\ a.callback = k.callback /\ a.timer = k.timer
      /\ a.prio = k.prio /\ a.mprio = k.mprio
      /\ \A y \in Threads : a.status[y] = IF y = t THEN "WaitSleep" ELSE k.status[y]
  BY <1>1, StatusUpdate DEF Status
<1>4. Sound(a, NoThread)
  BY <1>1, StatusSound DEF Mid
<1> HIDE DEF a
<1>5. Waits(a, NoThread)
  BY <1>1, <1>3 DEF Mid, Waits, SameLists, WaitSynch
<1>6. NoInv(a, NoThread, {})
  <2>1. \A m \in Mutexes, y \in Threads : Pressing(a, m, y) => Pressing(k, m, y)
    BY <1>3 DEF Pressing, SameLists, SameOwners
  <2> QED
    BY <1>1, <1>3, <2>1 DEF Mid, NoInv, NoInvAt
<1>7. NoLost(a, NoThread)
  <2>1. \A y \in Threads : \A x \in ToSet(k.waitObjs[y]) : x \in Objects
    BY <1>1, WaitObjsIn
  <2>2. \A x \in Objects, y \in Threads : ShouldWait(a, x, y) <=> ShouldWait(k, x, y)
    <3>1. \A x \in Threads : a.status[x] = "Dead" <=> k.status[x] = "Dead"
      BY <1>1, <1>3
    <3> QED
      BY <1>3, <3>1, SameAvailability DEF SameSignals, SameOwners
  <2>3. \A y \in Threads : a.status[y] \in {"WaitSynchAny", "WaitSynchAll"} => a.status[y] = k.status[y]
    BY <1>3
  <2> QED
    BY <1>1, <1>3, <2>1, <2>2, <2>3 DEF Mid, NoLost, SameLists
<1>8. Mid(a, NoThread, NoThread)
  BY <1>4, <1>5, <1>6, <1>7 DEF Mid
<1>9. n \in Nat /\ n <= 1
  <2>1. k.timer[t] = 0
    BY <1>1 DEF Mid, Sound, Timed
  <2> QED
    BY <1>3, <2>1
<1> HIDE DEF n
<1>10. a.status[t] = "WaitSleep"
  BY <1>1, <1>3
<1>11. /\ Mid(TimerSet(a, t, n), NoThread, NoThread) /\ SameRest(a, TimerSet(a, t, n))
       /\ SameOwners(a, TimerSet(a, t, n)) /\ TimerSet(a, t, n).status = a.status
  BY <1>1, <1>8, <1>9, <1>10, TimerMid
<1>12. Holding(k, TimerSet(a, t, n), {})
  BY <1>3, <1>11, HoldingSame DEF SameOwners
<1> QED
  BY <1>1, <1>2, <1>3, <1>11, <1>12 DEF Handled, HandledBut, SameRest

LEMMA WakeupCallbackIs ==
  ASSUME NEW t, ThreadWakeupCallback(t)
  PROVE  LET s == TimerSet(k, t, k.timer[t] - 1)
         IN  /\ k.timer[t] > 0
             /\ k' = IF k.status[t] = "Dead" THEN s
                     ELSE ResumeFromWait(IF k.status[t] \in WaitSynch
                                         THEN LeaveObjects(s, t) ELSE s, t)
BY DEF ThreadWakeupCallback, TimerSet

LEMMA WakeupCallbackType ==
  ASSUME k \in KStates, NEW t \in Threads, ThreadWakeupCallback(t)
  PROVE  k' \in KStates
<1> DEFINE n == k.timer[t] - 1
           s == TimerSet(k, t, n)
           v == IF k.status[t] \in WaitSynch THEN LeaveObjects(s, t) ELSE s
<1>1. k.timer[t] > 0 /\ k' = IF k.status[t] = "Dead" THEN s ELSE ResumeFromWait(v, t)
  BY WakeupCallbackIs
<1>2. n \in Nat
  BY <1>1, StateTypes
<1> HIDE DEF n
<1>3. s \in KStates
  BY <1>2, TimerUpdate
<1> HIDE DEF s
<1>4. v \in KStates
  BY <1>3, LeaveFacts
<1> HIDE DEF v
<1>5. ResumeFromWait(v, t) \in KStates
  BY <1>4, ResumeType
<1> QED
  BY <1>1, <1>3, <1>5

LEMMA WakeupCallbackHandled ==
  ASSUME KInv(k), NEW t \in Threads, ThreadWakeupCallback(t)
  PROVE  Handled(k, k')
<1> DEFINE n == k.timer[t] - 1
           s == TimerSet(k, t, n)
           v == IF k.status[t] \in WaitSynch THEN LeaveObjects(s, t) ELSE s
           u == ResumeFromWait(v, t)
<1>0. k \in KStates /\ Mid(k, NoThread, NoThread) /\ t # NoThread /\ NoThread \notin Objects
  BY InvMid, Kinds
<1>1. k.timer[t] > 0 /\ k' = IF k.status[t] = "Dead" THEN s ELSE u
  BY WakeupCallbackIs
<1>2. k.timer[t] \in Nat /\ k.timer[t] <= 1 /\ k.status[t] \in Status
  BY <1>0, StateTypes DEF Mid, Sound, Timed
<1>3. k.status[t] \in WaitSynch \cup {"WaitSleep"}
  BY <1>0, <1>1, <1>2 DEF Mid, Sound, Timed, Status, WaitSynch
<1>4. n \in Nat /\ n <= 1
  BY <1>1, <1>2
<1> HIDE DEF n
<1>5. /\ Mid(s, NoThread, NoThread) /\ SameRest(k, s) /\ SameLists(k, s) /\ s.status = k.status
      /\ SameOwners(k, s)
  BY <1>0, <1>3, <1>4, TimerMid
<1> HIDE DEF s
<1>6. s \in KStates /\ Sound(s, NoThread) /\ Waits(s, NoThread)
  BY <1>5 DEF Mid, Sound
<1>7. /\ v \in KStates /\ Sound(v, NoThread) /\ NoInv(v, NoThread, {}) /\ SameButLists(s, v)
      /\ Waits(v, NoThread) /\ v.waitObjs[t] = <<>>
      /\ \A y \in Threads : y # t => v.waitObjs[y] = s.waitObjs[y]
  <2>1. CASE k.status[t] \in WaitSynch
    <3>1. v \in KStates /\ Left(s, v, t)
      BY <1>6, <2>1, LeaveFacts
    <3> HIDE DEF v
    <3>2. Waits(v, NoThread)
      BY <1>6, <3>1, LeftWaits
    <3>3. Sound(v, NoThread) /\ NoInv(v, NoThread, {})
      BY <1>5, <1>6, <3>1 DEF Left, Calm, Mid
    <3> QED
      BY <3>1, <3>2, <3>3 DEF Left
  <2>2. CASE k.status[t] \notin WaitSynch
    <3>1. s.waitObjs[t] = <<>>
      BY <1>0, <1>5, <1>6, <2>2 DEF Waits
    <3>2. SameButLists(s, s)
      BY DEF SameButLists, SameRest, SameThreads, SameOwners, SameSignals
    <3> QED
      BY <1>5, <1>6, <2>2, <3>1, <3>2 DEF Mid
  <2> QED
    BY <2>1, <2>2
<1> HIDE DEF v
<1>8. v.status = k.status /\ SameRest(k, v)
  BY <1>5, <1>7 DEF SameButLists, SameThreads, SameRest
<1>9. /\ Sound(u, NoThread) /\ Resumed(v, u, t)
      /\ NoInv(v, NoThread, {}) => NoInv(u, NoThread, {})
  BY <1>3, <1>7, <1>8, ResumeFacts
<1> HIDE DEF u
<1>10. \A y \in Threads : u.status[y] = IF y = t THEN "Ready" ELSE k.status[y]
  BY <1>8, <1>9 DEF Resumed
<1>11. Waits(u, NoThread)
  BY <1>7, <1>8, <1>9, <1>10 DEF Waits, Resumed, SameLists
<1>12. NoLost(u, NoThread)
  <2>1. \A y \in Threads : \A x \in ToSet(s.waitObjs[y]) : x \in Objects
    BY <1>6, WaitObjsIn
  <2>2. \A x \in Objects, y \in Threads : ShouldWait(u, x, y) <=> ShouldWait(s, x, y)
    <3>1. \A x \in Threads : u.status[x] = "Dead" <=> s.status[x] = "Dead"
      BY <1>3, <1>5, <1>10 DEF WaitSynch
    <3>2. u.lock = s.lock /\ u.holder = s.holder /\ u.count = s.count /\ u.signaled = s.signaled
      BY <1>7, <1>9 DEF Resumed, SameButLists, SameOwners, SameSignals
    <3> QED
      BY <3>1, <3>2, SameAvailability
  <2>3. \A y \in Threads : y # t => u.waitObjs[y] = s.waitObjs[y] /\ u.status[y] = s.status[y]
    BY <1>5, <1>7, <1>9, <1>10 DEF Resumed, SameLists
  <2>4. u.status[t] = "Ready"
    BY <1>10
  <2> QED
    BY <1>0, <1>5, <2>1, <2>2, <2>3, <2>4 DEF Mid, NoLost
<1>13. Mid(u, NoThread, NoThread)
  BY <1>7, <1>9, <1>11, <1>12 DEF Mid
<1>14. SameRest(k, u)
  BY <1>8, <1>9 DEF Resumed, SameRest
<1>h. Holding(k, u, {})
  <2>1. u.holder = k.holder
    BY <1>5, <1>7, <1>9 DEF Resumed, SameButLists, SameOwners
  <2> QED
    BY <2>1, HoldingSame
<1>15. Handled(k, u)
  BY <1>3, <1>10, <1>13, <1>14, <1>h DEF Handled, HandledBut, SameRest, WaitSynch
<1> QED
  BY <1>1, <1>3, <1>15 DEF WaitSynch

-----------------------------------------------------------------------------
(* Calls that end threads. *)

RunsOnSet(s, S) == [s EXCEPT !.runsOn = S]

LEMMA RunsOnUpdate ==
  ASSUME NEW s, s \in KStates, NEW S \in SUBSET Cores
  PROVE  RunsOnSet(s, S) \in KStates /\ (S = s.runsOn => RunsOnSet(s, S) = s)
BY DEF RunsOnSet, KStates

LEMMA ExitIs ==
  ASSUME NEW c, ExitThread(c)
  PROVE  k' = RunsOnSet(Stop(k, Caller(c)), Stop(k, Caller(c)).runsOn \ {c})
BY DEF ExitThread, RunsOnSet

LEMMA RunsOnType ==
  ASSUME NEW s, s \in KStates
  PROVE  s.runsOn \in SUBSET Cores
BY DEF KStates

LEMMA ExitType ==
  ASSUME k \in KStates, NEW c \in Cores, ExitThread(c)
  PROVE  k' \in KStates
<1> DEFINE t == Caller(c)
           u == Stop(k, t)
<1>1. t \in Threads
  BY CallerType DEF ExitThread
<1>2. k' = RunsOnSet(u, u.runsOn \ {c})
  BY ExitIs
<1> HIDE DEF t
<1>3. u \in KStates
  BY <1>1, StopType
<1> HIDE DEF u
<1>4. u.runsOn \ {c} \in SUBSET Cores
  BY <1>3, RunsOnType
<1> QED
  BY <1>2, <1>3, <1>4, RunsOnUpdate

(* What is left of the invariant when threads end. *)
LEMMA FewerInv ==
  ASSUME NEW s, KInv(s), NEW u, Mid(u, NoThread, NoThread), Fewer(s, u)
  PROVE  KInv(u) /\ Lasting(s, u) /\ Holding(s, u, {})
<1>1. s \in KStates /\ \A c \in Cores : s.cur[c] # NoThread => s.cur[c] \in Threads
  BY StateTypes DEF KInv, Mid, Sound
<1>2. CurCore(u)
  BY <1>1 DEF KInv, Fewer, SameSetup, CurCore
<1>3. Lasting(s, u)
  BY DEF Fewer, Lasting, WaitSynch
<1> QED
  BY <1>2, <1>3 DEF KInv, Fewer, SameSetup

LEMMA ExitInv ==
  ASSUME KInv(k), NEW c \in Cores, ExitThread(c)
  PROVE  /\ KInv(k') /\ SameDrift(k, k')
         /\ Lasting(k, k') /\ Holding(k, k', {})
<1> DEFINE t == Caller(c)
           u == Stop(k, t)
<1>1. t \in Threads /\ k.status[t] = "Running" /\ k \in KStates /\ Mid(k, NoThread, NoThread)
  BY CallerRuns DEF ExitThread
<1>2. k' = RunsOnSet(u, u.runsOn \ {c})
  BY ExitIs
<1> HIDE DEF t
<1>3. Mid(u, NoThread, NoThread) /\ Stopped(k, u, t)
  BY <1>1, StopFacts
<1> HIDE DEF u
<1>4. u.runsOn = {} /\ u \in KStates
  BY <1>3 DEF Stopped, SameSetup, KInv, Mid, Sound
<1>5. k' = u
  BY <1>2, <1>4, RunsOnUpdate
<1>6. Fewer(k, u)
  BY <1>1, <1>3 DEF Stopped, Fewer
<1>7. KInv(u) /\ Lasting(k, u) /\ Holding(k, u, {})
  BY <1>3, <1>6, FewerInv
<1>8. SameDrift(k, u)
  BY <1>1, <1>3, StopCounts DEF Alive
<1> QED
  BY <1>5, <1>7, <1>8

ExitSet(s, p, S) == [s EXCEPT !.exited[p] = TRUE, !.runsOn = S]

LEMMA ExitUpdate ==
  ASSUME NEW s, s \in KStates, NEW p \in Procs, NEW S \in SUBSET Cores
  PROVE  LET u == ExitSet(s, p, S)
         IN  /\ u \in KStates /\ SameThreads(s, u) /\ SameLists(s, u) /\ SameOwners(s, u)
             /\ SameSignals(s, u) /\ u.prio = s.prio /\ u.mprio = s.mprio /\ u.ready = s.ready
             /\ u.levels = s.levels /\ u.crashed = s.crashed /\ u.nominal = s.nominal
             /\ u.cur = s.cur /\ u.runsOn = S /\ u.used = s.used
<1> DEFINE u == ExitSet(s, p, S)
           f == [s.exited EXCEPT ![p] = TRUE]
<1>1. f \in [Procs -> BOOLEAN]
  BY DEF KStates
<1>2. u = [s EXCEPT !.exited = f, !.runsOn = S]
  BY DEF KStates, ExitSet
<1> HIDE DEF f, u
<1>3. u \in KStates
  BY <1>1, <1>2 DEF KStates
<1>4. /\ SameThreads(s, u) /\ SameLists(s, u) /\ SameOwners(s, u)
      /\ SameSignals(s, u) /\ u.prio = s.prio /\ u.mprio = s.mprio /\ u.ready = s.ready
      /\ u.levels = s.levels /\ u.crashed = s.crashed /\ u.nominal = s.nominal
      /\ u.cur = s.cur /\ u.runsOn = S /\ u.used = s.used
  BY <1>2 DEF KStates, SameThreads, SameLists, SameOwners, SameSignals
<1> QED
  BY <1>3, <1>4 DEF u

(* The cores that still run a thread of the process. *)
LaterCores(c, p) ==
  {d \in Cores : /\ d > c /\ k.cur[d] # NoThread
                 /\ ProcOf[k.cur[d]] = p
                 /\ k.status[k.cur[d]] = "Running"}

LEMMA TerminateIs ==
  ASSUME NEW c, NEW p, TerminateProcess(c, p)
  PROVE  LET S == (k.runsOn \cup LaterCores(c, p)) \ {c}
         IN  /\ k.exited[p] => "terminate_twice" \in GuestFaults
             /\ LaterCores(c, p) # {} => "cross_core_stop" \in GuestFaults
             /\ k' = IF k.exited[p] THEN Asserted(k, FALSE)
                     ELSE TerminateAll(ExitSet(k, p, S), p)
BY DEF TerminateProcess, LaterCores, ExitSet, TerminateAll

LEMMA TerminateType ==
  ASSUME k \in KStates, NEW c \in Cores, NEW p \in Procs, TerminateProcess(c, p)
  PROVE  k' \in KStates
<1> DEFINE S == (k.runsOn \cup LaterCores(c, p)) \ {c}
           e == ExitSet(k, p, S)
<1>1. k' = IF k.exited[p] THEN Asserted(k, FALSE) ELSE TerminateAll(e, p)
  BY TerminateIs
<1>2. S \in SUBSET Cores
  BY RunsOnType DEF LaterCores
<1> HIDE DEF S
<1>3. e \in KStates
  BY <1>2, ExitUpdate
<1> HIDE DEF e
<1>4. TerminateAll(e, p) \in KStates /\ Asserted(k, FALSE) \in KStates
  BY <1>3, TerminateAllType, AssertedType
<1> QED
  BY <1>1, <1>4

(* A thread of the process that has exited is still current. *)
StopsAgain(p) ==
  \E d \in Cores : k.cur[d] # NoThread /\ ProcOf[k.cur[d]] = p /\ k.status[k.cur[d]] = "Dead"

LEMMA TerminateInv ==
  ASSUME ProperGuest, KInv(k), NEW c \in Cores, NEW p \in Procs, TerminateProcess(c, p)
  PROVE  /\ KInv(k')
         /\ ~StopsAgain(p) => SameDrift(k, k')
         /\ Lasting(k, k') /\ Holding(k, k', {})
<1> DEFINE S == (k.runsOn \cup LaterCores(c, p)) \ {c}
           e == ExitSet(k, p, S)
           u == TerminateAll(e, p)
<1>0. /\ Caller(c) \in Threads /\ k.status[Caller(c)] = "Running"
      /\ k \in KStates /\ Mid(k, NoThread, NoThread) /\ k.runsOn = {}
  BY CallerRuns DEF TerminateProcess, KInv
<1>1. k' = u /\ LaterCores(c, p) = {}
  BY TerminateIs DEF ProperGuest
<1>2. S = {}
  BY <1>0, <1>1
<1> HIDE DEF S
<1>3. /\ e \in KStates /\ SameThreads(k, e) /\ SameLists(k, e) /\ SameOwners(k, e)
      /\ SameSignals(k, e) /\ e.prio = k.prio /\ e.mprio = k.mprio /\ e.ready = k.ready
      /\ e.levels = k.levels /\ e.crashed = k.crashed /\ e.nominal = k.nominal
      /\ e.cur = k.cur /\ e.runsOn = S /\ e.used = k.used
  BY <1>0, <1>2, ExitUpdate
<1> HIDE DEF e
<1>4. Handled(k, e)
  BY <1>0, <1>2, <1>3, AlikeHandled
<1>5. KInv(e) /\ SameDrift(k, e)
  BY <1>4, HandledInv DEF Handled
<1>6. Mid(e, NoThread, NoThread) /\ \A d \in Cores : CurExists(e, d)
  BY <1>5 DEF KInv, CurCore, CurExists
<1>7. /\ Mid(u, NoThread, NoThread) /\ Fewer(e, u)
      /\ CurAlive(e, p) => SameDrift(e, u)
  BY <1>6, TerminateAllFacts
<1> HIDE DEF u
<1>8. KInv(u) /\ Lasting(k, u) /\ Holding(k, u, {})
  <2>1. KInv(u) /\ Lasting(e, u) /\ Holding(e, u, {})
    BY <1>5, <1>7, FewerInv
  <2>2. Lasting(k, u)
    BY <1>4, <2>1 DEF Lasting, Handled, HandledBut
  <2>3. Holding(k, u, {})
    BY <1>4, <2>1, HoldingTrans DEF Handled, HandledBut
  <2> QED
    BY <2>1, <2>2, <2>3
<1>9. ~StopsAgain(p) => SameDrift(k, u)
  <2> HAVE ~StopsAgain(p)
  <2>1. e.status = k.status
    BY <1>3 DEF SameThreads
  <2>2. CurAlive(e, p)
    BY <1>3, <1>5, <2>1 DEF CurAlive, StopsAgain, KInv, CurCore, Alive
  <2> QED
    BY <1>5, <1>7, <2>2, DriftTrans
<1> QED
  BY <1>1, <1>8, <1>9

-----------------------------------------------------------------------------
(* Creating a thread. *)

UsedSet(s, q, n) == [s EXCEPT !.used[q] = n]
NewSet(s, t, p) == [s EXCEPT !.status[t] = "Ready", !.nominal[t] = p, !.prio[t] = p]

LEMMA UsedUpdate ==
  ASSUME NEW s, s \in KStates, NEW q \in Procs, NEW n \in Int
  PROVE  LET u == UsedSet(s, q, n)
         IN  /\ u \in KStates /\ SameThreads(s, u) /\ SameLists(s, u) /\ SameOwners(s, u)
             /\ SameSignals(s, u) /\ u.prio = s.prio /\ u.mprio = s.mprio /\ u.ready = s.ready
             /\ u.levels = s.levels /\ u.crashed = s.crashed /\ SameSetup(s, u)
             /\ u.used = [s.used EXCEPT ![q] = n]
<1> DEFINE u == UsedSet(s, q, n)
           f == [s.used EXCEPT ![q] = n]
<1>1. f \in [Procs -> Int]
  BY DEF KStates
<1>2. u = [s EXCEPT !.used = f]
  BY DEF KStates, UsedSet
<1> HIDE DEF f, u
<1>3. u \in KStates /\ u.used = f
  BY <1>1, <1>2 DEF KStates
<1>4. /\ SameThreads(s, u) /\ SameLists(s, u) /\ SameOwners(s, u)
      /\ SameSignals(s, u) /\ u.prio = s.prio /\ u.mprio = s.mprio /\ u.ready = s.ready
      /\ u.levels = s.levels /\ u.crashed = s.crashed /\ SameSetup(s, u)
  BY <1>2 DEF KStates, SameThreads, SameLists, SameOwners, SameSignals, SameSetup
<1> QED
  BY <1>3, <1>4 DEF u, f

LEMMA NewUpdate ==
  ASSUME NEW s, s \in KStates, NEW t \in Threads, NEW p \in Prios
  PROVE  LET u == NewSet(s, t, p)
         IN  /\ u \in KStates /\ SameLists(s, u) /\ SameOwners(s, u) /\ SameSignals(s, u)
             /\ u.callback = s.callback /\ u.timer = s.timer /\ u.mprio = s.mprio
             /\ u.ready = s.ready /\ u.levels = s.levels /\ u.crashed = s.crashed
             /\ u.cur = s.cur /\ u.runsOn = s.runsOn /\ u.used = s.used
             /\ \A y \in Threads : /\ u.status[y] = IF y = t THEN "Ready" ELSE s.status[y]
                                   /\ u.nominal[y] = IF y = t THEN p ELSE s.nominal[y]
                                   /\ u.prio[y] = IF y = t THEN p ELSE s.prio[y]
<1> DEFINE u == NewSet(s, t, p)
           f == [s.status EXCEPT ![t] = "Ready"]
           g == [s.nominal EXCEPT ![t] = p]
           h == [s.prio EXCEPT ![t] = p]
<1>1. /\ f \in [Threads -> Status] /\ g \in [Threads -> Prios] /\ h \in [Threads -> Prios]
      /\ \A y \in Threads : /\ f[y] = IF y = t THEN "Ready" ELSE s.status[y]
                            /\ g[y] = IF y = t THEN p ELSE s.nominal[y]
                            /\ h[y] = IF y = t THEN p ELSE s.prio[y]
  BY DEF KStates, Status
<1>2. u = [s EXCEPT !.status = f, !.nominal = g, !.prio = h]
  BY DEF KStates, NewSet
<1> HIDE DEF f, g, h, u
<1>3. u \in KStates /\ u.status = f /\ u.nominal = g /\ u.prio = h
  BY <1>1, <1>2 DEF KStates
<1>4. /\ SameLists(s, u) /\ SameOwners(s, u) /\ SameSignals(s, u)
      /\ u.callback = s.callback /\ u.timer = s.timer /\ u.mprio = s.mprio
      /\ u.ready = s.ready /\ u.levels = s.levels /\ u.crashed = s.crashed
      /\ u.cur = s.cur /\ u.runsOn = s.runsOn /\ u.used = s.used
  BY <1>2 DEF KStates, SameLists, SameOwners, SameSignals
<1> QED
  BY <1>1, <1>3, <1>4 DEF u

LEMMA CreateIs ==
  ASSUME NEW c, NEW t, NEW p, NEW valid, CreateThread(c, t, p, valid)
  PROVE  LET r == UsedSet(k, ProcOf[t], k.used[ProcOf[t]] + 1)
         IN  /\ k.status[t] = "Dormant"
             /\ ~valid => "invalid_entry" \in GuestFaults
             /\ k' = IF ~valid THEN r ELSE PushBack(NewSet(PrepareLevel(r, t, p), t, p), t)
BY DEF CreateThread, UsedSet, NewSet

LEMMA PriosIn ==
  ASSUME NEW p \in NewPrios
  PROVE  p \in Prios
BY KernelAssumption

LEMMA CreateType ==
  ASSUME k \in KStates, NEW c, NEW t \in Threads, NEW p \in NewPrios, NEW valid,
         CreateThread(c, t, p, valid)
  PROVE  k' \in KStates
<1> DEFINE q == ProcOf[t]
           n == k.used[q] + 1
           r == UsedSet(k, q, n)
           b == PrepareLevel(r, t, p)
           d == NewSet(b, t, p)
<1>1. k' = IF ~valid THEN r ELSE PushBack(d, t)
  BY CreateIs
<1>2. n \in Int /\ q \in Procs /\ p \in Prios
  BY UsedType, StateTypes, PriosIn
<1> HIDE DEF n, q
<1>3. r \in KStates
  BY <1>2, UsedUpdate
<1> HIDE DEF r
<1>4. b \in KStates
  BY <1>2, <1>3, PrepareFacts
<1> HIDE DEF b
<1>5. d \in KStates
  BY <1>2, <1>4, NewUpdate
<1> HIDE DEF d
<1>6. PushBack(d, t) \in KStates
  BY <1>5, PushBackFacts
<1> QED
  BY <1>1, <1>3, <1>6

LEMMA ReservedInv ==
  ASSUME NEW s, KInv(s), NEW q \in Procs, NEW n \in Int
  PROVE  KInv(UsedSet(s, q, n))
<1> DEFINE u == UsedSet(s, q, n)
<1>0. s \in KStates /\ Mid(s, NoThread, NoThread) /\ CurCore(s) /\ s.runsOn = {}
  BY DEF KInv, Mid, Sound
<1>1. /\ u \in KStates /\ SameThreads(s, u) /\ SameLists(s, u) /\ SameOwners(s, u)
      /\ SameSignals(s, u) /\ u.prio = s.prio /\ u.mprio = s.mprio /\ u.ready = s.ready
      /\ u.levels = s.levels /\ u.crashed = s.crashed /\ SameSetup(s, u)
  BY <1>0, UsedUpdate
<1> HIDE DEF u
<1>2. Own(u, NoThread)
  BY <1>0, <1>1, Kinds DEF Mid, Sound, Own, Alive, SameThreads, SameOwners
<1>3. Inherit(u)
  BY <1>0, <1>1 DEF Mid, Sound, Inherit, Best, Alive, SameThreads, SameOwners, SameSetup
<1>4. Queue(u) /\ Levelled(u) /\ Timed(u)
  BY <1>0, <1>1 DEF Mid, Sound, Queue, QueuesDistinct, QueuedRight, Levelled, Timed, SameThreads
<1>5. Waits(u, NoThread)
  BY <1>0, <1>1 DEF Mid, Waits, SameThreads, SameLists
<1>6. NoInv(u, NoThread, {})
  BY <1>0, <1>1 DEF Mid, NoInv, NoInvAt, Pressing, SameThreads, SameLists, SameOwners
<1>7. NoLost(u, NoThread)
  <2>1. \A y \in Threads : \A x \in ToSet(s.waitObjs[y]) : x \in Objects
    BY <1>0, WaitObjsIn
  <2>2. \A x \in Objects, y \in Threads : ShouldWait(u, x, y) <=> ShouldWait(s, x, y)
    BY <1>1, SameAvailability DEF SameSignals, SameThreads, SameOwners
  <2> QED
    BY <1>0, <1>1, <2>1, <2>2 DEF Mid, NoLost, SameThreads, SameLists
<1>8. Mid(u, NoThread, NoThread)
  BY <1>0, <1>1, <1>2, <1>3, <1>4, <1>5, <1>6, <1>7 DEF Mid, Sound
<1>9. CurCore(u)
  BY <1>0, <1>1 DEF CurCore, SameSetup, SameThreads
<1>10. KInv(u)
  BY <1>0, <1>1, <1>8, <1>9 DEF KInv, SameSetup
<1> QED
  BY <1>10 DEF u

(* A thread that was never created appears on the queue of its level. *)
LEMMA CreatedInv ==
  ASSUME NEW s, KInv(s), NEW t \in Threads, NEW p \in Prios, s.status[t] = "Dormant"
  PROVE  LET u == PushBack(NewSet(PrepareLevel(s, t, p), t, p), t)
         IN  /\ KInv(u) /\ u.used = s.used /\ u.holder = s.holder
             /\ \A y \in Threads : u.status[y] = IF y = t THEN "Ready" ELSE s.status[y]
<1> DEFINE b == PrepareLevel(s, t, p)
           d == NewSet(b, t, p)
           u == PushBack(d, t)
<1>0. /\ s \in KStates /\ Mid(s, NoThread, NoThread) /\ CurCore(s) /\ s.runsOn = {}
      /\ t # NoThread /\ NoThread \notin Threads
  BY Kinds DEF KInv, Mid, Sound
<1>1. /\ b \in KStates /\ SameButPrio(s, b) /\ b.prio = s.prio /\ b.mprio = s.mprio
      /\ b.ready = s.ready
      /\ \A c \in Cores : /\ Linked(s.levels[c]) \subseteq Linked(b.levels[c])
                          /\ c = CoreOf[t] => p \in Linked(b.levels[c])
  BY <1>0, PrepareFacts
<1> HIDE DEF b
<1>2. /\ d \in KStates /\ SameLists(b, d) /\ SameOwners(b, d) /\ SameSignals(b, d)
      /\ d.callback = b.callback /\ d.timer = b.timer /\ d.mprio = b.mprio
      /\ d.ready = b.ready /\ d.levels = b.levels /\ d.crashed = b.crashed
      /\ d.cur = b.cur /\ d.runsOn = b.runsOn /\ d.used = b.used
      /\ \A y \in Threads : /\ d.status[y] = IF y = t THEN "Ready" ELSE b.status[y]
                            /\ d.nominal[y] = IF y = t THEN p ELSE b.nominal[y]
                            /\ d.prio[y] = IF y = t THEN p ELSE b.prio[y]
  BY <1>1, NewUpdate
<1> HIDE DEF d
<1>3. QueueBut(d, t)
  <2>1. Queue(s)
    BY <1>0 DEF Mid, Sound
  <2>2. d.ready = s.ready
    BY <1>1, <1>2
  <2>3. \A y \in Threads : y # t => d.status[y] = s.status[y] /\ d.prio[y] = s.prio[y]
    BY <1>1, <1>2 DEF SameButPrio, SameThreads
  <2> QED
    BY <2>1, <2>2, <2>3 DEF Queue, QueueBut, QueuesDistinct, NotQueued, QueuedRight
<1>4. d.status[t] = "Ready"
  BY <1>2
<1>5. /\ u \in KStates /\ SameButPrio(d, u) /\ u.prio = d.prio /\ u.mprio = d.mprio
      /\ u.levels = d.levels /\ Queue(u)
  BY <1>2, <1>3, <1>4, PushBackFacts
<1> HIDE DEF u
<1>6. /\ SameLists(s, u) /\ SameOwners(s, u) /\ SameSignals(s, u) /\ u.mprio = s.mprio
      /\ u.crashed = s.crashed /\ u.cur = s.cur /\ u.runsOn = s.runsOn /\ u.used = s.used
      /\ u.timer = s.timer /\ u.callback = s.callback
  BY <1>1, <1>2, <1>5 DEF SameButPrio, SameRest, SameThreads, SameLists, SameOwners, SameSignals
<1>7. \A y \in Threads : /\ u.status[y] = IF y = t THEN "Ready" ELSE s.status[y]
                         /\ u.nominal[y] = IF y = t THEN p ELSE s.nominal[y]
                         /\ u.prio[y] = IF y = t THEN p ELSE s.prio[y]
  BY <1>1, <1>2, <1>5 DEF SameButPrio, SameThreads, SameRest
<1>8. s.held[t] = {} /\ \A m \in Mutexes : s.holder[m] # t
  <2>1. s.held[t] \in SUBSET Mutexes
    BY <1>0, StateTypes
  <2>2. \A m \in Mutexes : s.holder[m] # t
    BY <1>0 DEF Mid, Sound, Own, Alive
  <2> QED
    BY <1>0, <2>1, <2>2 DEF Mid, Sound, Own
<1>9. Own(u, NoThread)
  <2>1. \A y \in Threads : Alive(s, y) => Alive(u, y)
    BY <1>7 DEF Alive
  <2> QED
    BY <1>0, <1>6, <2>1 DEF Mid, Sound, Own, SameOwners
<1>10. Inherit(u)
  <2>1. ASSUME NEW y \in Threads, Alive(u, y) PROVE u.prio[y] = Best(u, y)
    <3>1. CASE y = t
      <4>1. {u.nominal[t]} \cup {u.mprio[m] : m \in u.held[t]} = {p}
        BY <1>6, <1>7, <1>8 DEF SameOwners
      <4>2. Min({p}) = p
        <5>1. p \in Nat
          BY KernelAssumption
        <5>2. {p} \in SUBSET Nat /\ p \in {p} /\ \A x \in {p} : p <= x
          BY <5>1
        <5> QED
          BY <5>2, MinIs
      <4> QED
        BY <1>7, <3>1, <4>1, <4>2 DEF Best
    <3>2. CASE y # t
      <4>1. Alive(s, y)
        BY <1>7, <2>1, <3>2 DEF Alive
      <4>2. s.prio[y] = Best(s, y)
        BY <1>0, <4>1 DEF Mid, Sound, Inherit
      <4> QED
        BY <1>6, <1>7, <3>2, <4>2 DEF Best, SameOwners
    <3> QED
      BY <3>1, <3>2
  <2> QED
    BY <2>1 DEF Inherit
<1>11. Levelled(u)
  <2>1. \A y \in Threads : CoreOf[y] \in Cores
    BY <1>0, StateTypes
  <2>2. u.levels = b.levels
    BY <1>2, <1>5
  <2> QED
    BY <1>0, <1>1, <1>7, <2>1, <2>2 DEF Mid, Sound, Levelled
<1>12. Timed(u)
  BY <1>0, <1>6, <1>7 DEF Mid, Sound, Timed
<1>13. Sound(u, NoThread)
  BY <1>0, <1>5, <1>6, <1>9, <1>10, <1>11, <1>12 DEF Mid, Sound
<1>14. s.waitObjs[t] = <<>>
  BY <1>0 DEF Mid, Waits, WaitSynch
<1>15. Waits(u, NoThread)
  BY <1>0, <1>6, <1>7, <1>14 DEF Mid, Waits, SameLists
<1>16. NoInv(u, NoThread, {})
  <2>1. ASSUME NEW m \in Mutexes, NEW y \in Threads, Pressing(u, m, y)
        PROVE  u.mprio[m] <= u.prio[y]
    <3>1. y # t /\ Pressing(s, m, y)
      BY <1>6, <1>7, <2>1 DEF Pressing, SameLists, SameOwners
    <3> QED
      BY <1>0, <1>6, <1>7, <3>1 DEF Mid, NoInv, NoInvAt
  <2> QED
    BY <2>1 DEF NoInv, NoInvAt
<1>17. NoLost(u, NoThread)
  <2>1. \A y \in Threads : \A x \in ToSet(s.waitObjs[y]) : x \in Objects
    BY <1>0, WaitObjsIn
  <2>2. \A x \in Objects, y \in Threads : ShouldWait(u, x, y) <=> ShouldWait(s, x, y)
    <3>1. \A x \in Threads : u.status[x] = "Dead" <=> s.status[x] = "Dead"
      BY <1>7
    <3> QED
      BY <1>6, <3>1, SameAvailability DEF SameSignals, SameOwners
  <2>3. \A y \in Threads : u.status[y] \in {"WaitSynchAny", "WaitSynchAll"} => u.status[y] = s.status[y]
    BY <1>7
  <2> QED
    BY <1>0, <1>6, <2>1, <2>2, <2>3 DEF Mid, NoLost, SameLists
<1>18. Mid(u, NoThread, NoThread)
  BY <1>13, <1>15, <1>16, <1>17 DEF Mid
<1>19. CurCore(u)
  <2>1. \A c \in Cores : s.cur[c] # NoThread => s.cur[c] \in Threads
    BY <1>0, StateTypes
  <2> QED
    BY <1>0, <1>6, <1>7, <2>1 DEF CurCore
<1>20. KInv(u)
  BY <1>0, <1>6, <1>18, <1>19 DEF KInv
<1>21. u.holder = s.holder
  BY <1>6 DEF SameOwners
<1> QED
  BY <1>6, <1>7, <1>20, <1>21 DEF u, d, b

LEMMA CreateCounts ==
  ASSUME NEW s, s \in KStates, NEW u, NEW t \in Threads, s.status[t] = "Dormant",
         u.used = [s.used EXCEPT ![ProcOf[t]] = @ + 1],
         \A y \in Threads : u.status[y] = IF y = t THEN "Ready" ELSE s.status[y]
  PROVE  SameDrift(s, u)
<1>0. IsFiniteSet(Threads) /\ ProcOf[t] \in Procs /\ s.used \in [Procs -> Int]
  BY KernelAssumption, StateTypes DEF KStates
<1>1. \A y \in Threads : Alive(u, y) <=> Alive(s, y) \/ y = t
  BY DEF Alive
<1>2. SUFFICES ASSUME NEW p \in Procs PROVE Drift(u, p) = Drift(s, p)
  BY DEF SameDrift
<1>3. LiveOf(u, p) = IF p = ProcOf[t] THEN LiveOf(s, p) \cup {t} ELSE LiveOf(s, p)
  BY <1>1 DEF LiveOf
<1>4. IsFiniteSet(LiveOf(s, p))
  <2>1. LiveOf(s, p) \subseteq Threads
    BY DEF LiveOf
  <2> QED
    BY <1>0, <2>1, FS_Subset
<1>5. t \notin LiveOf(s, p)
  BY DEF LiveOf, Alive
<1>6. Cardinality(LiveOf(s, p) \cup {t}) = Cardinality(LiveOf(s, p)) + 1
  BY <1>4, <1>5, FS_AddElement
<1>7. u.used[p] = IF p = ProcOf[t] THEN s.used[p] + 1 ELSE s.used[p]
  BY <1>0
<1>8. Cardinality(LiveOf(s, p)) \in Int /\ s.used[p] \in Int
  BY <1>0, <1>4, FS_CardinalityType
<1> DEFINE a == Cardinality(LiveOf(s, p))
           b == Cardinality(LiveOf(u, p))
<1>9. Drift(s, p) = s.used[p] - a /\ Drift(u, p) = u.used[p] - b
  BY DriftIs
<1>10. b = IF p = ProcOf[t] THEN a + 1 ELSE a
  BY <1>3, <1>6
<1> HIDE DEF a, b
<1>11. a \in Int
  BY <1>8 DEF a
<1> QED
  BY <1>7, <1>8, <1>9, <1>10, <1>11

LEMMA CreateInv ==
  ASSUME KInv(k), NEW c \in Cores, NEW t \in Threads, NEW p \in NewPrios, NEW valid \in BOOLEAN,
         CreateThread(c, t, p, valid)
  PROVE  /\ KInv(k') /\ (valid => SameDrift(k, k'))
         /\ Lasting(k, k') /\ Holding(k, k', {})
<1> DEFINE q == ProcOf[t]
           n == k.used[q] + 1
           r == UsedSet(k, q, n)
           u == PushBack(NewSet(PrepareLevel(r, t, p), t, p), t)
<1>0. k \in KStates
  BY InvMid
<1>1. /\ k.status[t] = "Dormant" /\ (~valid => "invalid_entry" \in GuestFaults)
      /\ k' = IF ~valid THEN r ELSE u
  BY CreateIs
<1>2. n \in Int /\ q \in Procs /\ p \in Prios
  BY <1>0, UsedType, StateTypes, PriosIn
<1>3. [k.used EXCEPT ![ProcOf[t]] = @ + 1] = [k.used EXCEPT ![q] = n]
  OBVIOUS
<1> HIDE DEF n, q
<1>4. KInv(r)
  BY <1>2, ReservedInv
<1>5. r.used = [k.used EXCEPT ![q] = n] /\ SameThreads(k, r) /\ SameOwners(k, r)
  BY <1>0, <1>2, UsedUpdate
<1> HIDE DEF r
<1>6. r.status = k.status /\ r.holder = k.holder
  BY <1>5 DEF SameThreads, SameOwners
<1>7. /\ KInv(u) /\ u.used = r.used /\ u.holder = r.holder
      /\ \A y \in Threads : u.status[y] = IF y = t THEN "Ready" ELSE r.status[y]
  BY <1>1, <1>2, <1>4, <1>6, CreatedInv
<1> HIDE DEF u
<1>8. SameDrift(k, u)
  BY <1>0, <1>1, <1>3, <1>5, <1>6, <1>7, CreateCounts
<1>9. Lasting(k, r) /\ Lasting(k, u)
  BY <1>1, <1>6, <1>7 DEF Lasting
<1>10. Holding(k, r, {}) /\ Holding(k, u, {})
  BY <1>6, <1>7, HoldingSame
<1> QED
  BY <1>1, <1>4, <1>7, <1>8, <1>9, <1>10

-----------------------------------------------------------------------------
(* Changing priorities. *)

NominalSet(s, t, p) == [s EXCEPT !.nominal[t] = p]

LEMMA NominalUpdate ==
  ASSUME NEW s, s \in KStates, NEW t \in Threads, NEW p \in Prios
  PROVE  LET u == NominalSet(s, t, p)
         IN  /\ u \in KStates /\ SameThreads(s, u) /\ SameLists(s, u) /\ SameOwners(s, u)
             /\ SameSignals(s, u) /\ u.prio = s.prio /\ u.mprio = s.mprio /\ u.ready = s.ready
             /\ u.levels = s.levels /\ u.crashed = s.crashed
             /\ u.cur = s.cur /\ u.runsOn = s.runsOn /\ u.used = s.used
             /\ \A y \in Threads : u.nominal[y] = IF y = t THEN p ELSE s.nominal[y]
<1> DEFINE u == NominalSet(s, t, p)
           f == [s.nominal EXCEPT ![t] = p]
<1>1. f \in [Threads -> Prios] /\ \A y \in Threads : f[y] = IF y = t THEN p ELSE s.nominal[y]
  BY DEF KStates
<1>2. u = [s EXCEPT !.nominal = f]
  BY DEF KStates, NominalSet
<1> HIDE DEF f, u
<1>3. u \in KStates /\ u.nominal = f
  BY <1>1, <1>2 DEF KStates
<1>4. /\ SameThreads(s, u) /\ SameLists(s, u) /\ SameOwners(s, u)
      /\ SameSignals(s, u) /\ u.prio = s.prio /\ u.mprio = s.mprio /\ u.ready = s.ready
      /\ u.levels = s.levels /\ u.crashed = s.crashed
      /\ u.cur = s.cur /\ u.runsOn = s.runsOn /\ u.used = s.used
  BY <1>2 DEF KStates, SameThreads, SameLists, SameOwners, SameSignals
<1> QED
  BY <1>1, <1>3, <1>4 DEF u

LEMMA PendingLoop ==
  ASSUME NEW s, s \in KStates, NEW t \in Threads
  PROVE  \E g \in [0 .. Len(InOrder(s.pending[t])) -> KStates] :
           /\ g[0] = s /\ \A i \in 1 .. Len(InOrder(s.pending[t])) : g[i] = MutexUpdatePriority(g[i - 1], InOrder(s.pending[t])[i])
           /\ PendingUpdated(s, t) = g[Len(InOrder(s.pending[t]))]
<1> DEFINE n == Len(InOrder(s.pending[t]))
           Def(g) == g = [i \in 0 .. n |-> IF i = 0 THEN s ELSE MutexUpdatePriority(g[i - 1], InOrder(s.pending[t])[i])]
           step == [w \in (1 .. n) \X KStates |-> MutexUpdatePriority(w[2], InOrder(s.pending[t])[w[1]])]
           g == CHOOSE g : Def(g)
<1>1. n \in Nat /\ \A i \in 1 .. n : InOrder(s.pending[t])[i] \in Mutexes
  <2>1. s.pending[t] \in SUBSET Mutexes
    BY StateTypes
  <2>2. InOrder(s.pending[t]) \in Seq(Mutexes)
    BY <2>1, InOrderFacts
  <2> QED
    BY <2>2
<1> HIDE DEF n
<1>2. \A w \in KStates, i \in 1 .. n : MutexUpdatePriority(w, InOrder(s.pending[t])[i]) \in KStates
  BY <1>1, MutexUpdateFacts
<1>3. step \in [(1 .. n) \X KStates -> KStates]
  BY <1>2
<1>4. \A w \in KStates, i \in 1 .. n : step[<<i, w>>] = MutexUpdatePriority(w, InOrder(s.pending[t])[i])
  OBVIOUS
<1> HIDE DEF step
<1>5. PICK f : IsLoop(f, n, KStates, s, step)
  BY <1>1, <1>3, LoopExists
<1>6. /\ f \in [0 .. n -> KStates]
      /\ f[0] = s /\ \A i \in 1 .. n : f[i] = step[<<i, f[i - 1]>>]
  BY <1>5 DEF IsLoop
<1>7. \A i \in 1 .. n : f[i] = MutexUpdatePriority(f[i - 1], InOrder(s.pending[t])[i])
  <2> TAKE i \in 1 .. n
  <2>1. f[i - 1] \in KStates
    BY <1>1, <1>6
  <2> QED
    BY <2>1, <1>4, <1>6
<1>8. Def(f)
  BY <1>1, <1>6, <1>7
<1>9. Def(g)
  BY <1>8
<1>10. PendingUpdated(s, t) = g[n]
  BY DEF PendingUpdated, n
<1> HIDE DEF g
<1>11. g[0] = s /\ \A i \in 1 .. n : g[i] = MutexUpdatePriority(g[i - 1], InOrder(s.pending[t])[i])
  BY <1>1, <1>9
<1>12. g \in [0 .. n -> KStates]
  <2>1. \A i \in 0 .. n : g[i] \in KStates
    BY <1>1, <1>2, <1>11, LoopStays
  <2>2. g = [i \in 0 .. n |-> g[i]]
    BY <1>9
  <2> QED
    BY <2>1, <2>2
<1> QED
  BY <1>10, <1>11, <1>12 DEF n

LEMMA PendingType ==
  ASSUME NEW s, s \in KStates, NEW t \in Threads
  PROVE  PendingUpdated(s, t) \in KStates
<1> DEFINE n == Len(InOrder(s.pending[t]))
<1>1. PICK g \in [0 .. n -> KStates] : PendingUpdated(s, t) = g[n]
  BY PendingLoop
<1>2. s.pending[t] \in SUBSET Mutexes
  BY StateTypes
<1>3. n \in 0 .. n
  BY <1>2, InOrderFacts
<1> HIDE DEF n
<1> QED
  BY <1>1, <1>3

(* The mutexes that t waits for learn of its priority. *)
LEMMA PendingFacts ==
  ASSUME NEW s, Sound(s, NoThread), NEW t \in Threads, NoInv(s, t, s.pending[t])
  PROVE  LET u == PendingUpdated(s, t)
         IN  Sound(u, NoThread) /\ SameButPrio(s, u) /\ NoInv(u, NoThread, {})
<1> DEFINE ms == InOrder(s.pending[t])
           n == Len(ms)
<1>0. s \in KStates /\ s.pending[t] \in SUBSET Mutexes
  BY StateTypes DEF Sound
<1>1. PICK g \in [0 .. n -> KStates] :
        /\ g[0] = s /\ \A i \in 1 .. n : g[i] = MutexUpdatePriority(g[i - 1], ms[i])
        /\ PendingUpdated(s, t) = g[n]
  BY <1>0, PendingLoop
<1>2. ms \in Seq(Mutexes) /\ ToSet(ms) = s.pending[t]
  BY <1>0, InOrderFacts
<1> HIDE DEF ms
<1>3. n \in Nat /\ DOMAIN ms = 1 .. n /\ \A i \in 1 .. n : ms[i] \in Mutexes
  BY <1>2
<1> HIDE DEF n
<1> DEFINE First(i) == {ms[j] : j \in 1 .. i}
           Good(w, i) == /\ Sound(w, NoThread) /\ SameButPrio(s, w)
                         /\ NoInv(w, t, s.pending[t] \ First(i))
           T == {i \in 0 .. n : Good(g[i], i)}
<1>4. 0 \in T
  <2>1. s.pending[t] \ First(0) = s.pending[t]
    OBVIOUS
  <2> HIDE DEF First
  <2>2. SameButPrio(s, s)
    BY DEF SameButPrio, SameRest, SameThreads, SameLists, SameOwners, SameSignals
  <2>3. Good(s, 0)
    BY <2>1, <2>2
  <2> HIDE DEF Good
  <2> QED
    BY <1>1, <1>3, <2>3
<1>5. ASSUME NEW i \in 1 .. n, i - 1 \in T PROVE i \in T
  <2> DEFINE w == g[i - 1]
             u == g[i]
             m == ms[i]
             N == s.pending[t] \ First(i)
  <2>0. i - 1 \in 0 .. n /\ i \in 0 .. n
    BY <1>3
  <2>a. Good(w, i - 1)
    BY <1>5
  <2>1. w \in KStates /\ u = MutexUpdatePriority(w, m) /\ m \in Mutexes
    BY <1>1, <1>3, <2>0
  <2>2. N = (s.pending[t] \ First(i - 1)) \ {m}
    <3>1. 1 .. i = (1 .. i - 1) \cup {i}
      BY <1>3
    <3> QED
      BY <3>1
  <2> HIDE DEF w, u, m, First, N
  <2>4. /\ Sound(w, NoThread) /\ SameButPrio(s, w)
        /\ NoInv(w, t, s.pending[t] \ First(i - 1))
    BY <2>a
  <2>5. \A y \in Mutexes : y # m => NoInvAt(w, y, t, N)
    BY <2>2, <2>4 DEF NoInv, NoInvAt
  <2>6. Own(w, NoThread) /\ Inherit(w) /\ Queue(w) /\ Levelled(w)
    BY <2>4 DEF Sound
  <2>7. /\ u \in KStates /\ SameButPrio(w, u) /\ Queue(u) /\ Levelled(u)
        /\ Inherit(u) /\ NoInv(u, t, N)
    BY <2>1, <2>5, <2>6, MutexUpdateFacts
  <2>8. Sound(u, NoThread)
    <3>1. Own(u, NoThread)
      BY <2>6, <2>7 DEF Own, Alive, SameButPrio, SameOwners, SameThreads
    <3>2. Timed(u)
      BY <2>4, <2>7 DEF Sound, Timed, SameButPrio, SameThreads
    <3> QED
      BY <2>4, <2>7, <3>1, <3>2 DEF Sound, SameButPrio
  <2>9. SameButPrio(s, u)
    BY <2>4, <2>7 DEF SameButPrio, SameRest, SameThreads, SameLists, SameOwners, SameSignals
  <2>10. Good(u, i)
    BY <2>7, <2>8, <2>9 DEF N
  <2> HIDE DEF Good
  <2> QED
    BY <2>0, <2>10 DEF u
<1> HIDE DEF T
<1>6. n \in T
  BY <1>3, <1>4, <1>5, UpTo DEF Inductive
<1>7. s.pending[t] \ First(n) = {}
  BY <1>2, <1>3 DEF ToSet
<1> DEFINE w == g[n]
<1>8. Good(w, n)
  BY <1>6 DEF T
<1> HIDE DEF First, w
<1>9. Sound(w, NoThread) /\ SameButPrio(s, w) /\ NoInv(w, t, {})
  BY <1>7, <1>8
<1>10. NoInv(w, NoThread, {})
  BY <1>9 DEF NoInv, NoInvAt
<1> QED
  BY <1>1, <1>9, <1>10 DEF w

LEMMA SetThreadPriorityIs ==
  ASSUME NEW c, NEW t, NEW p, SetThreadPriority(c, t, p)
  PROVE  k' = PendingUpdated(UpdatePriority(NominalSet(BoostPriority(k, t, p), t, p), t), t)
BY DEF SetThreadPriority, SetPriority, NominalSet

LEMMA SetThreadPriorityType ==
  ASSUME k \in KStates, NEW c, NEW t \in Threads, NEW p \in NewPrios, SetThreadPriority(c, t, p)
  PROVE  k' \in KStates
<1> DEFINE a == BoostPriority(k, t, p)
           b == NominalSet(a, t, p)
           d == UpdatePriority(b, t)
<1>0. p \in Prios
  BY PriosIn
<1>1. k' = PendingUpdated(d, t)
  BY SetThreadPriorityIs
<1>2. a \in KStates
  BY <1>0, BoostFacts
<1> HIDE DEF a
<1>3. b \in KStates
  BY <1>0, <1>2, NominalUpdate
<1> HIDE DEF b
<1>4. d \in KStates
  BY <1>3, UpdateFacts
<1> HIDE DEF d
<1> QED
  BY <1>1, <1>4, PendingType

LEMMA SetThreadPriorityHandled ==
  ASSUME KInv(k), NEW c, NEW t \in Threads, NEW p \in NewPrios, SetThreadPriority(c, t, p)
  PROVE  Handled(k, k')
<1> DEFINE a == BoostPriority(k, t, p)
           b == NominalSet(a, t, p)
           d == UpdatePriority(b, t)
           u == PendingUpdated(d, t)
<1>0. p \in Prios /\ k \in KStates /\ Mid(k, NoThread, NoThread)
  BY PriosIn, InvMid
<1>1. k' = u
  BY SetThreadPriorityIs
<1>2. Queue(k) /\ Levelled(k) /\ Own(k, NoThread) /\ Inherit(k) /\ Timed(k) /\ ~k.crashed
  BY <1>0 DEF Mid, Sound
<1>3. /\ a \in KStates /\ SameButPrio(k, a) /\ a.mprio = k.mprio
      /\ a.prio = [k.prio EXCEPT ![t] = p] /\ Queue(a) /\ Levelled(a)
  BY <1>0, <1>2, BoostFacts
<1> HIDE DEF a
<1>4. /\ b \in KStates /\ SameThreads(a, b) /\ SameLists(a, b) /\ SameOwners(a, b)
      /\ SameSignals(a, b) /\ b.prio = a.prio /\ b.mprio = a.mprio /\ b.ready = a.ready
      /\ b.levels = a.levels /\ b.crashed = a.crashed
      /\ b.cur = a.cur /\ b.runsOn = a.runsOn /\ b.used = a.used
      /\ \A y \in Threads : b.nominal[y] = IF y = t THEN p ELSE a.nominal[y]
  BY <1>0, <1>3, NominalUpdate
<1> HIDE DEF b
<1>5. Queue(b) /\ Levelled(b)
  BY <1>3, <1>4 DEF Queue, QueuesDistinct, QueuedRight, Levelled, SameThreads
<1>6. /\ d \in KStates /\ SameButPrio(b, d) /\ d.mprio = b.mprio
      /\ d.prio = [b.prio EXCEPT ![t] = Best(b, t)] /\ Queue(d) /\ Levelled(d)
  BY <1>4, <1>5, UpdateFacts
<1> HIDE DEF d
<1>7. /\ SameThreads(k, d) /\ SameLists(k, d) /\ SameOwners(k, d) /\ SameSignals(k, d)
      /\ d.mprio = k.mprio /\ d.crashed = k.crashed /\ d.cur = k.cur /\ d.runsOn = k.runsOn
      /\ d.used = k.used
  BY <1>3, <1>4, <1>6 DEF SameButPrio, SameRest, SameThreads, SameLists, SameOwners, SameSignals
<1>8. /\ d.nominal = b.nominal /\ d.held = b.held
      /\ \A y \in Threads : y # t => d.nominal[y] = k.nominal[y] /\ d.prio[y] = k.prio[y]
      /\ d.prio[t] = Best(b, t)
  <2>1. k.prio \in [Threads -> Prios] /\ a.prio \in [Threads -> Prios] /\ b.prio \in [Threads -> Prios]
    BY <1>0, <1>3, <1>4 DEF KStates
  <2>2. d.nominal = b.nominal /\ a.nominal = k.nominal /\ d.held = b.held
    BY <1>3, <1>6 DEF SameButPrio, SameRest, SameOwners
  <2> QED
    BY <1>3, <1>4, <1>6, <2>1, <2>2
<1>9. Inherit(d)
  <2>1. ASSUME NEW y \in Threads, Alive(d, y) PROVE d.prio[y] = Best(d, y)
    <3>1. CASE y = t
      BY <1>6, <1>8, <3>1 DEF Best
    <3>2. CASE y # t
      <4>1. Alive(k, y)
        BY <1>7, <2>1 DEF Alive, SameThreads
      <4>2. k.prio[y] = Best(k, y)
        BY <1>2, <4>1 DEF Inherit
      <4>3. d.held[y] = k.held[y] /\ d.mprio = k.mprio
        BY <1>7 DEF SameOwners
      <4>4. d.nominal[y] = k.nominal[y] /\ d.prio[y] = k.prio[y]
        BY <1>8, <3>2
      <4>5. Best(d, y) = Best(k, y)
        BY <4>3, <4>4 DEF Best
      <4> QED
        BY <4>2, <4>4, <4>5
    <3> QED
      BY <3>1, <3>2
  <2> QED
    BY <2>1 DEF Inherit
<1>10. Own(d, NoThread)
  BY <1>2, <1>7, Kinds DEF Own, Alive, SameThreads, SameOwners
<1>11. Timed(d)
  BY <1>2, <1>7 DEF Timed, SameThreads
<1>12. Sound(d, NoThread)
  BY <1>2, <1>6, <1>7, <1>9, <1>10, <1>11 DEF Sound
<1>13. NoInv(d, t, d.pending[t])
  <2>1. ASSUME NEW m \in Mutexes, NEW y \in Threads, Pressing(d, m, y),
               ~(y = t /\ m \in d.pending[t])
        PROVE  d.mprio[m] <= d.prio[y]
    <3>1. Pressing(k, m, y) /\ m \in Objects
      BY <1>7, <2>1 DEF Pressing, SameThreads, SameLists, SameOwners, Objects
    <3>2. m \in k.pending[y]
      BY <1>0, <3>1 DEF Mid, Waits, Pressing
    <3>3. y # t
      BY <1>7, <2>1, <3>2 DEF SameLists
    <3> QED
      BY <1>0, <1>7, <1>8, <3>1, <3>3 DEF Mid, NoInv, NoInvAt
  <2> QED
    BY <2>1 DEF NoInv, NoInvAt
<1>14. Sound(u, NoThread) /\ SameButPrio(d, u) /\ NoInv(u, NoThread, {})
  BY <1>12, <1>13, PendingFacts
<1> HIDE DEF u
<1>15. /\ SameThreads(k, u) /\ SameLists(k, u) /\ SameOwners(k, u) /\ SameSignals(k, u)
       /\ u.cur = k.cur /\ u.runsOn = k.runsOn /\ u.used = k.used
  BY <1>7, <1>14 DEF SameButPrio, SameRest, SameThreads, SameLists, SameOwners, SameSignals
<1>16. Waits(u, NoThread)
  BY <1>0, <1>15 DEF Mid, Waits, SameThreads, SameLists
<1>17. NoLost(u, NoThread)
  <2>1. \A y \in Threads : \A x \in ToSet(k.waitObjs[y]) : x \in Objects
    BY <1>0, WaitObjsIn
  <2>2. \A x \in Objects, y \in Threads : ShouldWait(u, x, y) <=> ShouldWait(k, x, y)
    BY <1>15, SameAvailability DEF SameSignals, SameThreads, SameOwners
  <2> QED
    BY <1>0, <1>15, <2>1, <2>2 DEF Mid, NoLost, SameThreads, SameLists
<1>h. Holding(k, u, {}) /\ Mid(u, NoThread, NoThread)
  BY <1>14, <1>15, <1>16, <1>17, HoldingSame DEF Mid, SameOwners
<1>18. Handled(k, u)
  BY <1>15, <1>h DEF Handled, HandledBut, SameThreads
<1> QED
  BY <1>1, <1>18

(* Keeping threads from being scheduled. *)
LEMMA ScheduleIs ==
  ASSUME k \in KStates, NEW c, NEW p, NEW allow \in BOOLEAN, ScheduleThreads(c, p, allow)
  PROVE  \E f \in [Threads -> BOOLEAN] : k' = [k EXCEPT !.canSched = f]
<1> DEFINE S == {t \in NoMagic : ProcOf[t] = p /\ t # Caller(c)
                            /\ k.status[t] \notin {"Dead", "Dormant"}}
           f == [t \in Threads |-> IF t \in S THEN allow ELSE k.canSched[t]]
<1>1. k' = [k EXCEPT !.canSched = f]
  BY DEF ScheduleThreads
<1>2. f \in [Threads -> BOOLEAN]
  <2>1. k.canSched \in [Threads -> BOOLEAN]
    BY DEF KStates
  <2> HIDE DEF S
  <2> QED
    BY <2>1
<1> QED
  BY <1>1, <1>2

LEMMA ScheduleUpdate ==
  ASSUME NEW s, s \in KStates, NEW f \in [Threads -> BOOLEAN], NEW u, u = [s EXCEPT !.canSched = f]
  PROVE  /\ u \in KStates /\ SameThreads(s, u) /\ SameLists(s, u) /\ SameOwners(s, u)
         /\ SameSignals(s, u) /\ u.prio = s.prio /\ u.mprio = s.mprio /\ u.ready = s.ready
         /\ u.levels = s.levels /\ u.crashed = s.crashed /\ u.nominal = s.nominal
         /\ u.cur = s.cur /\ u.runsOn = s.runsOn /\ u.used = s.used
<1>1. u \in KStates
  BY DEF KStates
<1>2. /\ SameThreads(s, u) /\ SameLists(s, u) /\ SameOwners(s, u)
      /\ SameSignals(s, u) /\ u.prio = s.prio /\ u.mprio = s.mprio /\ u.ready = s.ready
      /\ u.levels = s.levels /\ u.crashed = s.crashed /\ u.nominal = s.nominal
      /\ u.cur = s.cur /\ u.runsOn = s.runsOn /\ u.used = s.used
  BY DEF KStates, SameThreads, SameLists, SameOwners, SameSignals
<1> QED
  BY <1>1, <1>2

LEMMA ScheduleType ==
  ASSUME k \in KStates, NEW c, NEW p, NEW allow \in BOOLEAN, ScheduleThreads(c, p, allow)
  PROVE  k' \in KStates
<1>1. PICK f \in [Threads -> BOOLEAN] : k' = [k EXCEPT !.canSched = f]
  BY ScheduleIs
<1> QED
  BY <1>1, ScheduleUpdate

LEMMA ScheduleHandled ==
  ASSUME KInv(k), NEW c, NEW p, NEW allow \in BOOLEAN, ScheduleThreads(c, p, allow)
  PROVE  Handled(k, k')
<1>0. k \in KStates /\ Mid(k, NoThread, NoThread)
  BY InvMid
<1>1. PICK f \in [Threads -> BOOLEAN] : k' = [k EXCEPT !.canSched = f]
  BY <1>0, ScheduleIs
<1> DEFINE u == [k EXCEPT !.canSched = f]
<1>2. /\ u \in KStates /\ SameThreads(k, u) /\ SameLists(k, u) /\ SameOwners(k, u)
      /\ SameSignals(k, u) /\ u.prio = k.prio /\ u.mprio = k.mprio /\ u.ready = k.ready
      /\ u.levels = k.levels /\ u.crashed = k.crashed /\ u.nominal = k.nominal
      /\ u.cur = k.cur /\ u.runsOn = k.runsOn /\ u.used = k.used
  BY <1>0, ScheduleUpdate
<1> HIDE DEF u
<1>3. Handled(k, u)
  BY <1>0, <1>2, AlikeHandled
<1> QED
  BY <1>1, <1>3 DEF u

-----------------------------------------------------------------------------
(* The scheduler: the levels that a search visits. *)

LEMMA PriosFinite == Prios \subseteq Nat /\ IsFiniteSet(Prios) /\ Cardinality(Prios) \in Nat
<1>1. Prios \in SUBSET Nat /\ ThreadPrioLowest \in Nat /\ \A p \in Prios : p <= ThreadPrioLowest
  BY KernelAssumption
<1>2. IsFiniteSet(Prios)
  BY <1>1, FS_BoundedSetOfNaturals
<1> QED
  BY <1>1, <1>2, FS_CardinalityType

Follow(l, p) == IF p \in Prios THEN l.next[p] ELSE Null

Walks(g, l, n, all) ==
  /\ g \in [0 .. n -> Prios \cup {Null, UnlinkedTag}]
  /\ g[0] = l.first /\ \A i \in 1 .. n : g[i] = Follow(l, g[i - 1])
  /\ all = [i \in 1 .. Cardinality({i \in 0 .. n : g[i] # Null}) |-> g[i - 1]]

LEMMA LevelsWalk ==
  ASSUME NEW s, s \in KStates, NEW c \in Cores
  PROVE  \E g : Walks(g, s.levels[c], Cardinality(Prios), LevelsOf(s, c))
<1> DEFINE l == s.levels[c]
           n == Cardinality(Prios)
           S == Prios \cup {Null, UnlinkedTag}
           Def(g) == g = [i \in 0 .. n |-> IF i = 0 THEN l.first ELSE
                                             IF g[i - 1] \in Prios THEN l.next[g[i - 1]] ELSE Null]
           step == [w \in (1 .. n) \X S |-> Follow(l, w[2])]
           g == CHOOSE g : Def(g)
<1>1. n \in Nat
  BY PriosFinite
<1>2. l.first \in S /\ \A p \in S : Follow(l, p) \in S
  <2>1. l \in Lists(Prios)
    BY StateTypes DEF Chains
  <2> QED
    BY <2>1 DEF Lists, Follow
<1>10. LevelsOf(s, c) = [i \in 1 .. Cardinality({i \in DOMAIN g : g[i] # Null}) |-> g[i - 1]]
  BY DEF LevelsOf
<1> HIDE DEF n, l, S
<1>3. step \in [(1 .. n) \X S -> S]
  BY <1>2
<1>4. \A w \in S, i \in 1 .. n : step[<<i, w>>] = Follow(l, w)
  OBVIOUS
<1> HIDE DEF step
<1>5. PICK f : IsLoop(f, n, S, l.first, step)
  BY <1>1, <1>2, <1>3, LoopExists
<1>6. /\ f \in [0 .. n -> S]
      /\ f[0] = l.first /\ \A i \in 1 .. n : f[i] = step[<<i, f[i - 1]>>]
  BY <1>5 DEF IsLoop
<1>7. \A i \in 1 .. n : f[i] = Follow(l, f[i - 1])
  <2> TAKE i \in 1 .. n
  <2>1. f[i - 1] \in S
    BY <1>1, <1>6
  <2> QED
    BY <2>1, <1>4, <1>6
<1>8. Def(f)
  BY <1>1, <1>6, <1>7 DEF Follow
<1>9. Def(g)
  BY <1>8
<1> HIDE DEF g
<1>11. g[0] = l.first /\ \A i \in 1 .. n : g[i] = Follow(l, g[i - 1])
  BY <1>1, <1>9 DEF Follow
<1>12. g \in [0 .. n -> S] /\ DOMAIN g = 0 .. n
  <2>1. \A i \in 0 .. n : g[i] \in S
    BY <1>1, <1>2, <1>11, LoopStays
  <2>2. g = [i \in 0 .. n |-> g[i]]
    BY <1>9
  <2> QED
    BY <2>1, <2>2
<1>13. Walks(g, l, n, LevelsOf(s, c))
  BY <1>10, <1>11, <1>12 DEF S, Walks
<1> QED
  BY <1>13 DEF n, l

(* The search visits the levels in use, from the best to the worst. *)
LEMMA LevelsFacts ==
  ASSUME NEW s, s \in KStates, NEW c \in Cores
  PROVE  LET all == LevelsOf(s, c)
         IN  /\ all \in Seq(Prios) /\ ToSet(all) = Linked(s.levels[c])
             /\ \A i, j \in 1 .. Len(all) : i < j => all[i] < all[j]
<1> DEFINE l == s.levels[c]
           L == Linked(l)
           n == Cardinality(Prios)
           all == LevelsOf(s, c)
<1>0. PICK g : Walks(g, l, n, all)
  BY LevelsWalk
<1>1. /\ g \in [0 .. n -> Prios \cup {Null, UnlinkedTag}]
      /\ g[0] = l.first /\ \A i \in 1 .. n : g[i] = Follow(l, g[i - 1])
      /\ all = [i \in 1 .. Cardinality({i \in 0 .. n : g[i] # Null}) |-> g[i - 1]]
  BY <1>0 DEF Walks
<1>2. n \in Nat /\ Prios \in SUBSET Nat /\ IsFiniteSet(Prios)
  BY PriosFinite
<1>3. /\ PointsPast(L, -1, l.first) /\ \A p \in L : PointsPast(L, p, l.next[p])
      /\ L \in SUBSET Prios /\ Null \notin Nat
      /\ \A r \in L : r \in Nat /\ r \in Prios /\ r # Null
  <2>1. l \in Chains
    BY StateTypes
  <2> HIDE DEF l
  <2>2. PointsPast(L, -1, l.first) /\ \A p \in L : PointsPast(L, p, l.next[p])
    BY <2>1 DEF Chains, ChainInOrder
  <2>3. L \in SUBSET Prios
    BY <2>1 DEF Chains, Lists, Linked
  <2>4. Null \notin Nat
    BY DEF Null
  <2> HIDE DEF L
  <2> QED
    BY <1>2, <2>2, <2>3, <2>4
<1> HIDE DEF l, L, n, all
<1> DEFINE Good(i) == /\ \A j \in 0 .. i : g[j] \in L \cup {Null}
                      /\ \A j \in 1 .. i : g[j] # Null => g[j - 1] \in L /\ g[j - 1] < g[j]
                      /\ \A r \in L : (\E j \in 0 .. i : g[j] = r) \/ (g[i] # Null /\ g[i] < r)
           T == {i \in 0 .. n : Good(i)}
<1>4. 0 \in T
  <2>1. CASE l.first = Null
    <3>1. L = {}
      BY <1>2, <1>3, <2>1 DEF PointsPast
    <3> QED
      BY <1>1, <1>2, <2>1, <3>1
  <2>2. CASE l.first # Null
    <3>1. l.first \in L /\ \A r \in L : l.first <= r
      BY <1>2, <1>3, <2>2 DEF PointsPast
    <3>2. \A r \in L : r = l.first \/ l.first < r
      BY <1>3, <3>1
    <3> QED
      BY <1>1, <1>2, <2>2, <3>1, <3>2
  <2> QED
    BY <2>1, <2>2
<1>5. ASSUME NEW i \in 1 .. n, i - 1 \in T PROVE i \in T
  <2> DEFINE p == g[i - 1]
             q == g[i]
  <2>1. Good(i - 1) /\ q = Follow(l, p) /\ i \in Nat /\ i - 1 \in Nat /\ i \in 0 .. n
    BY <1>1, <1>2, <1>5
  <2>2. p \in L \cup {Null}
    BY <2>1
  <2>3. \A j \in 0 .. i : j \in 0 .. i - 1 \/ j = i
    BY <2>1
  <2>4. \A j \in 1 .. i : j \in 1 .. i - 1 \/ j = i
    BY <2>1
  <2>5. \A j \in 0 .. i - 1 : j \in 0 .. i
    BY <2>1
  <2>6. i \in 0 .. i /\ i - 1 \in 0 .. i
    BY <2>1
  <2>7. CASE p = Null
    <3>1. q = Null
      BY <1>2, <1>3, <2>1, <2>7 DEF Follow
    <3>2. \A r \in L : \E j \in 0 .. i - 1 : g[j] = r
      BY <2>1, <2>7
    <3>3. Good(i)
      BY <2>1, <2>3, <2>4, <2>5, <3>1, <3>2
    <3> QED
      BY <2>1, <3>3
  <2>8. CASE p # Null
    <3>1. p \in L /\ q = l.next[p] /\ PointsPast(L, p, q) /\ p \in Nat
      BY <1>2, <1>3, <2>1, <2>2, <2>8 DEF Follow
    <3>2. q \in L \cup {Null} /\ (q # Null => q > p)
      BY <3>1 DEF PointsPast
    <3>3. ASSUME NEW r \in L PROVE (\E j \in 0 .. i : g[j] = r) \/ (q # Null /\ q < r)
      <4>1. CASE \E j \in 0 .. i - 1 : g[j] = r
        BY <2>5, <4>1
      <4>2. CASE p < r
        <5>1. q # Null /\ q \in L /\ q <= r
          BY <1>2, <1>3, <3>1, <4>2 DEF PointsPast
        <5>2. q = r \/ q < r
          BY <1>3, <5>1
        <5> QED
          BY <2>6, <5>1, <5>2
      <4> QED
        BY <2>1, <4>1, <4>2
    <3>4. Good(i)
      <4>1. \A j \in 0 .. i : g[j] \in L \cup {Null}
        BY <2>1, <2>3, <3>2
      <4>2. \A j \in 1 .. i : g[j] # Null => g[j - 1] \in L /\ g[j - 1] < g[j]
        BY <2>1, <2>4, <3>1, <3>2
      <4> QED
        BY <3>3, <4>1, <4>2
    <3> QED
      BY <2>1, <3>4
  <2> QED
    BY <2>7, <2>8
<1> HIDE DEF T
<1>6. n \in T
  BY <1>2, <1>4, <1>5, UpTo DEF Inductive
<1>7. Good(n)
  BY <1>6 DEF T
<1>8. /\ \A j \in 0 .. n : g[j] \in L \cup {Null}
      /\ \A j \in 1 .. n : g[j] # Null => g[j - 1] \in L /\ g[j - 1] < g[j]
      /\ \A r \in L : (\E j \in 0 .. n : g[j] = r) \/ (g[n] # Null /\ g[n] < r)
  BY <1>7
<1> HIDE DEF Good
(* Until the first Null the levels get worse. *)
<1> DEFINE Up(j) == g[j] # Null => \A i \in 0 .. j : /\ g[i] \in L /\ g[i] # Null
                                                     /\ i < j => g[i] < g[j]
           U == {j \in 0 .. n : Up(j)}
<1>9. 0 \in U
  BY <1>2, <1>8
<1>10. ASSUME NEW j \in 1 .. n, j - 1 \in U PROVE j \in U
  <2>1. j \in Nat /\ j - 1 \in 0 .. n /\ j \in 0 .. n /\ Up(j - 1)
    BY <1>2, <1>10
  <2>2. CASE g[j] = Null
    BY <2>1, <2>2
  <2>3. CASE g[j] # Null
    <3>1. g[j] \in L /\ g[j - 1] \in L /\ g[j - 1] < g[j] /\ g[j - 1] # Null
      BY <1>2, <1>3, <1>8, <2>1, <2>3
    <3>2. \A i \in 0 .. j - 1 : g[i] \in L /\ g[i] # Null /\ (i < j - 1 => g[i] < g[j - 1])
      BY <2>1, <3>1
    <3>3. ASSUME NEW i \in 0 .. j PROVE g[i] \in L /\ g[i] # Null /\ (i < j => g[i] < g[j])
      <4>1. CASE i = j
        BY <2>3, <3>1, <4>1
      <4>2. CASE i = j - 1
        BY <3>1, <4>2
      <4>3. CASE i # j /\ i # j - 1
        <5>1. i \in 0 .. j - 1 /\ i < j - 1
          BY <2>1, <4>3
        <5>2. g[i] \in L /\ g[i] # Null /\ g[i] < g[j - 1]
          BY <3>2, <5>1
        <5>3. g[i] \in Nat /\ g[j - 1] \in Nat /\ g[j] \in Nat
          BY <1>2, <1>3, <3>1, <5>2
        <5> QED
          BY <3>1, <5>2, <5>3
      <4> QED
        BY <4>1, <4>2, <4>3
    <3>4. Up(j)
      BY <3>3
    <3> HIDE DEF Up
    <3> QED
      BY <2>1, <3>4
  <2> QED
    BY <2>2, <2>3
<1> HIDE DEF U
<1>11. \A j \in 0 .. n : Up(j)
  <2> TAKE j \in 0 .. n
  <2>1. j \in Nat /\ \A i \in 1 .. j : i \in 1 .. n
    BY <1>2
  <2>2. Inductive(U, j)
    BY <1>9, <1>10, <2>1 DEF Inductive
  <2>3. j \in U
    BY <2>1, <2>2, UpTo
  <2> QED
    BY <2>3 DEF U
<1>12. g[n] = Null
  <2> SUFFICES ASSUME g[n] # Null PROVE FALSE
    OBVIOUS
  <2>0. n \in 0 .. n /\ Up(n)
    BY <1>2, <1>11
  <2>1. \A i \in 0 .. n : g[i] \in L /\ g[i] \in Prios /\ g[i] \in Nat
    BY <1>3, <2>0
  <2>2. g \in [0 .. n -> Prios] /\ IsFiniteSet(0 .. n) /\ Cardinality(0 .. n) = n + 1
    <3>1. IsFiniteSet(0 .. n) /\ Cardinality(0 .. n) = n + 1
      BY <1>2, FS_Interval
    <3> QED
      BY <1>1, <2>1, <3>1
  <2>3. Cardinality(Prios) < Cardinality(0 .. n)
    BY <1>2, <2>2 DEF n
  <2>4. PICK x, y \in 0 .. n : x # y /\ g[x] = g[y]
    BY <1>2, <2>2, <2>3, FS_PigeonHole
  <2>5. \A i, j \in 0 .. n : i < j => g[i] < g[j]
    <3> TAKE i, j \in 0 .. n
    <3>1. g[j] # Null
      BY <1>2, <1>3, <2>1
    <3> QED
      BY <1>2, <1>11, <3>1
  <2>6. g[x] < g[y] \/ g[y] < g[x]
    BY <1>2, <2>4, <2>5
  <2> QED
    BY <1>2, <2>1, <2>4, <2>6
<1>13. PICK m \in 0 .. n : g[m] = Null /\ \A i \in 0 .. n : g[i] = Null => m <= i
  <2> DEFINE Z == {i \in 0 .. n : g[i] = Null}
  <2>1. Z \in SUBSET Nat /\ Z # {}
    BY <1>2, <1>12
  <2>2. \E i \in Z : \A j \in Z : i <= j
    BY <2>1, Least
  <2> QED
    BY <2>2
<1>14. {i \in 0 .. n : g[i] # Null} = 0 .. m - 1
  <2>1. \A i \in 0 .. n : i >= m => g[i] = Null
    BY <1>2, <1>11, <1>13
  <2>2. \A i \in 0 .. n : g[i] # Null <=> i < m
    BY <1>2, <1>13, <2>1
  <2> QED
    BY <1>2, <2>2
<1>15. Cardinality({i \in 0 .. n : g[i] # Null}) = m
  <2>1. Cardinality(0 .. m - 1) = m
    BY <1>2, FS_Interval
  <2> QED
    BY <1>14, <2>1
<1>16. all = [i \in 1 .. m |-> g[i - 1]]
  BY <1>1, <1>15
<1>17. \A i \in 0 .. m - 1 : i \in 0 .. n /\ g[i] \in L /\ g[i] \in Prios /\ g[i] # Null
  <2> TAKE i \in 0 .. m - 1
  <2>1. i \in 0 .. n /\ g[i] # Null
    BY <1>2, <1>14
  <2> QED
    BY <1>3, <1>8, <2>1
<1>18. all \in Seq(Prios) /\ Len(all) = m /\ m \in Nat /\ DOMAIN all = 1 .. m
  <2>1. \A i \in 1 .. m : g[i - 1] \in Prios
    BY <1>2, <1>17
  <2> QED
    BY <1>2, <1>16, <2>1
<1>19. \A i, j \in 1 .. m : i < j => all[i] < all[j]
  <2> TAKE i, j \in 1 .. m
  <2>1. all[i] = g[i - 1] /\ all[j] = g[j - 1] /\ i - 1 \in 0 .. m - 1 /\ j - 1 \in 0 .. m - 1
    BY <1>2, <1>16
  <2>2. g[j - 1] # Null /\ j - 1 \in 0 .. n
    BY <1>17, <2>1
  <2> QED
    BY <1>2, <1>11, <2>1, <2>2
<1>20. ToSet(all) = L
  <2>1. \A i \in 1 .. m : all[i] \in L
    BY <1>2, <1>16, <1>17
  <2>2. ASSUME NEW r \in L PROVE \E i \in 1 .. m : all[i] = r
    <3>1. PICK j \in 0 .. n : g[j] = r
      BY <1>8, <1>12
    <3>2. j \in 0 .. m - 1
      BY <1>2, <1>3, <1>14, <3>1
    <3>3. j + 1 \in 1 .. m /\ all[j + 1] = g[j]
      BY <1>2, <1>16, <3>2
    <3> QED
      BY <3>1, <3>3
  <2> QED
    BY <1>18, <2>1, <2>2 DEF ToSet
<1> QED
  BY <1>18, <1>19, <1>20 DEF all, L, l

-----------------------------------------------------------------------------
(* Lists turned round. *)

LEMMA ReverseFacts ==
  ASSUME NEW A, NEW q \in Seq(A)
  PROVE  /\ Reverse(q) \in Seq(A) /\ ToSet(Reverse(q)) = ToSet(q)
         /\ Distinct(q) => Distinct(Reverse(q))
<1> DEFINE n == Len(q)
           r == Reverse(q)
<1>1. n \in Nat /\ DOMAIN q = 1 .. n /\ \A i \in 1 .. n : q[i] \in A
  OBVIOUS
<1>2. r = [i \in 1 .. n |-> q[(n - i) + 1]]
  BY DEF Reverse
<1> HIDE DEF r, n
<1>3. \A i \in 1 .. n : (n - i) + 1 \in 1 .. n
  BY <1>1
<1>4. DOMAIN r = 1 .. n /\ (\A i \in 1 .. n : r[i] = q[(n - i) + 1]) /\ r \in Seq(A)
  BY <1>1, <1>2, <1>3
<1>5. \A i \in 1 .. n : q[i] = r[(n - i) + 1]
  <2> TAKE i \in 1 .. n
  <2>1. (n - i) + 1 \in 1 .. n /\ (n - ((n - i) + 1)) + 1 = i
    BY <1>1
  <2> QED
    BY <1>4, <2>1
<1>6. ToSet(r) = ToSet(q)
  BY <1>1, <1>3, <1>4, <1>5 DEF ToSet
<1>7. Distinct(q) => Distinct(r)
  <2> SUFFICES ASSUME Distinct(q), NEW i \in 1 .. n, NEW j \in 1 .. n, r[i] = r[j] PROVE i = j
    BY <1>4 DEF Distinct
  <2>1. (n - i) + 1 = (n - j) + 1
    BY <1>1, <1>3, <1>4 DEF Distinct
  <2> QED
    BY <1>1, <2>1
<1> QED
  BY <1>4, <1>6, <1>7 DEF r

(* What a search leaves of the queue in which it found a thread. *)
Rest(q, j) == SubSeq(q, j + 1, Len(q)) \o Reverse(SubSeq(q, 1, j - 1))

LEMMA RestFacts ==
  ASSUME NEW A, NEW q \in Seq(A), NEW j \in 1 .. Len(q)
  PROVE  /\ Rest(q, j) \in Seq(A)
         /\ Distinct(q) => Distinct(Rest(q, j)) /\ ToSet(Rest(q, j)) = ToSet(q) \ {q[j]}
<1> DEFINE n == Len(q)
           a == SubSeq(q, j + 1, n)
           b == SubSeq(q, 1, j - 1)
           r == Rest(q, j)
<1>1. n \in Nat /\ DOMAIN q = 1 .. n /\ (\A i \in 1 .. n : q[i] \in A) /\ j \in Nat /\ j >= 1 /\ j <= n
  OBVIOUS
<1>2. /\ a \in Seq(A) /\ Len(a) = n - j /\ \A i \in 1 .. n - j : a[i] = q[j + i]
      /\ b \in Seq(A) /\ Len(b) = j - 1 /\ \A i \in 1 .. j - 1 : b[i] = q[i]
  <2> HIDE DEF n
  <2>1. (\A i \in j + 1 .. n : q[i] \in A) /\ (\A i \in 1 .. j - 1 : q[i] \in A)
    BY <1>1
  <2>2. /\ a \in Seq(A) /\ Len(a) = IF j + 1 <= n THEN n - (j + 1) + 1 ELSE 0
        /\ \A i \in 1 .. n - (j + 1) + 1 : a[i] = q[(j + 1) + i - 1]
    BY <1>1, <2>1, SubSeqProperties
  <2>3. /\ b \in Seq(A) /\ Len(b) = IF 1 <= j - 1 THEN (j - 1) - 1 + 1 ELSE 0
        /\ \A i \in 1 .. (j - 1) - 1 + 1 : b[i] = q[1 + i - 1]
    BY <1>1, <2>1, SubSeqProperties
  <2> HIDE DEF a, b
  <2>4. \A i \in 1 .. n - j : (j + 1) + i - 1 = j + i
    BY <1>1
  <2>5. \A i \in 1 .. j - 1 : 1 + i - 1 = i
    BY <1>1
  <2>6. n - (j + 1) + 1 = n - j /\ (j - 1) - 1 + 1 = j - 1
    BY <1>1
  <2>7. Len(a) = n - j /\ Len(b) = j - 1
    BY <1>1, <2>2, <2>3
  <2> QED
    BY <2>2, <2>3, <2>4, <2>5, <2>6, <2>7
<1> HIDE DEF a, b
<1>3. /\ Reverse(b) \in Seq(A) /\ Len(Reverse(b)) = j - 1
      /\ \A i \in 1 .. j - 1 : Reverse(b)[i] = q[j - i]
  <2>1. Reverse(b) \in Seq(A) /\ Reverse(b) = [i \in 1 .. j - 1 |-> b[((j - 1) - i) + 1]]
    BY <1>2, ReverseFacts DEF Reverse
  <2>2. \A i \in 1 .. j - 1 : ((j - 1) - i) + 1 = j - i /\ j - i \in 1 .. j - 1
    BY <1>1
  <2> QED
    BY <1>1, <1>2, <2>1, <2>2
<1> DEFINE d == Reverse(b)
<1>4. r = a \o d
  BY DEF Rest, a, b
<1> HIDE DEF d, r, n
<1>5. /\ r \in Seq(A) /\ DOMAIN r = 1 .. n - 1
      /\ \A i \in 1 .. n - 1 : r[i] = IF i <= n - j THEN q[j + i] ELSE q[n - i]
  <2>1. r \in Seq(A) /\ Len(r) = n - 1 /\ DOMAIN r = 1 .. n - 1
    BY <1>1, <1>2, <1>3, <1>4 DEF d
  <2>2. ASSUME NEW i \in 1 .. n - 1 PROVE r[i] = IF i <= n - j THEN q[j + i] ELSE q[n - i]
    <3>1. CASE i <= n - j
      BY <1>1, <1>2, <1>3, <1>4, <3>1 DEF d
    <3>2. CASE ~(i <= n - j)
      <4>1. r[i] = d[i - (n - j)] /\ i - (n - j) \in 1 .. j - 1 /\ j - (i - (n - j)) = n - i
        BY <1>1, <1>2, <1>3, <1>4, <3>2 DEF d
      <4> QED
        BY <1>3, <3>2, <4>1 DEF d
    <3> QED
      BY <3>1, <3>2
  <2> QED
    BY <2>1, <2>2
<1> DEFINE At(i) == IF i <= n - j THEN j + i ELSE n - i
<1>6. \A i \in 1 .. n - 1 : r[i] = q[At(i)] /\ At(i) \in 1 .. n /\ At(i) # j
  BY <1>1, <1>5
<1>7. \A h, i \in 1 .. n - 1 : At(h) = At(i) => h = i
  BY <1>1
<1>8. \A i \in 1 .. n : i # j => \E h \in 1 .. n - 1 : At(h) = i
  <2> TAKE i \in 1 .. n
  <2> HAVE i # j
  <2>1. CASE i > j
    <3>1. i - j \in 1 .. n - 1 /\ At(i - j) = i
      BY <1>1, <2>1
    <3> QED
      BY <3>1
  <2>2. CASE i < j
    <3>1. n - i \in 1 .. n - 1 /\ At(n - i) = i
      BY <1>1, <2>2
    <3> QED
      BY <3>1
  <2> QED
    BY <1>1, <2>1, <2>2
<1> HIDE DEF At
<1>9. ASSUME Distinct(q) PROVE Distinct(r) /\ ToSet(r) = ToSet(q) \ {q[j]}
  <2>1. \A h, i \in 1 .. n : q[h] = q[i] => h = i
    BY <1>1, <1>9 DEF Distinct
  <2>2. Distinct(r)
    BY <1>5, <1>6, <1>7, <2>1 DEF Distinct
  <2>3. ASSUME NEW x \in ToSet(r) PROVE x \in ToSet(q) /\ x # q[j]
    <3>1. PICK i \in 1 .. n - 1 : r[i] = x
      BY <1>5, <2>3 DEF ToSet
    <3>2. x = q[At(i)] /\ At(i) \in 1 .. n /\ At(i) # j /\ j \in 1 .. n
      BY <1>1, <1>6, <3>1
    <3> QED
      BY <1>1, <2>1, <3>2 DEF ToSet
  <2>4. ASSUME NEW x \in ToSet(q), x # q[j] PROVE x \in ToSet(r)
    <3>1. PICK i \in 1 .. n : q[i] = x
      BY <1>1, <2>4 DEF ToSet
    <3>2. PICK h \in 1 .. n - 1 : At(h) = i
      BY <1>8, <2>4, <3>1
    <3>3. r[h] = x /\ h \in DOMAIN r
      BY <1>5, <1>6, <3>1, <3>2
    <3> QED
      BY <3>3 DEF ToSet
  <2> QED
    BY <2>2, <2>3, <2>4
<1> QED
  BY <1>5, <1>9 DEF r

LEMMA ConsFacts ==
  ASSUME NEW A, NEW q \in Seq(A), NEW x \in A
  PROVE  /\ <<x>> \o q \in Seq(A) /\ ToSet(<<x>> \o q) = ToSet(q) \cup {x}
         /\ Distinct(q) /\ x \notin ToSet(q) => Distinct(<<x>> \o q)
<1> DEFINE p == <<x>> \o q
           m == Len(q)
<1>1. /\ m \in Nat /\ DOMAIN q = 1 .. m /\ DOMAIN p = 1 .. m + 1 /\ p \in Seq(A) /\ p[1] = x
      /\ \A i \in 2 .. m + 1 : p[i] = q[i - 1]
  OBVIOUS
<1> HIDE DEF p, m
<1>2. \A i \in 1 .. m + 1 : i = 1 \/ (i \in 2 .. m + 1 /\ i - 1 \in 1 .. m)
  BY <1>1
<1>3. \A i \in 1 .. m : i + 1 \in 1 .. m + 1 /\ p[i + 1] = q[i]
  <2> TAKE i \in 1 .. m
  <2>1. i + 1 \in 2 .. m + 1 /\ (i + 1) - 1 = i /\ i + 1 \in 1 .. m + 1
    BY <1>1
  <2>2. p[i + 1] = q[(i + 1) - 1]
    BY <1>1, <2>1
  <2> QED
    BY <2>1, <2>2
<1>4. ToSet(p) = ToSet(q) \cup {x}
  <2>1. ASSUME NEW y \in ToSet(p) PROVE y \in ToSet(q) \cup {x}
    <3>1. PICK i \in 1 .. m + 1 : p[i] = y
      BY <1>1, <2>1 DEF ToSet
    <3>2. CASE i = 1
      BY <1>1, <3>1, <3>2
    <3>3. CASE i # 1
      BY <1>1, <1>2, <3>1, <3>3 DEF ToSet
    <3> QED
      BY <3>2, <3>3
  <2>2. ASSUME NEW y \in ToSet(q) PROVE y \in ToSet(p)
    BY <1>1, <1>3, <2>2 DEF ToSet
  <2>3. x \in ToSet(p)
    <3>1. 1 \in 1 .. m + 1
      BY <1>1
    <3> QED
      BY <1>1, <3>1 DEF ToSet
  <2> QED
    BY <2>1, <2>2, <2>3
<1>5. ASSUME Distinct(q), x \notin ToSet(q) PROVE Distinct(p)
  <2> SUFFICES ASSUME NEW i \in 1 .. m + 1, NEW j \in 1 .. m + 1, p[i] = p[j] PROVE i = j
    BY <1>1 DEF Distinct
  <2>1. \A h \in 2 .. m + 1 : p[h] \in ToSet(q)
    <3> TAKE h \in 2 .. m + 1
    <3>1. h - 1 \in 1 .. m /\ p[h] = q[h - 1]
      BY <1>1
    <3> QED
      BY <1>1, <3>1 DEF ToSet
  <2>2. CASE i = 1 \/ j = 1
    BY <1>1, <1>2, <1>5, <2>1, <2>2
  <2>3. CASE i # 1 /\ j # 1
    <3>1. i - 1 \in 1 .. m /\ j - 1 \in 1 .. m /\ q[i - 1] = q[j - 1]
      BY <1>1, <1>2, <2>3
    <3>2. i - 1 = j - 1
      BY <1>1, <1>5, <3>1 DEF Distinct
    <3> QED
      BY <1>1, <3>2
  <2> QED
    BY <2>2, <2>3
<1> QED
  BY <1>1, <1>4, <1>5 DEF p

-----------------------------------------------------------------------------
(* The search of ThreadManager::PopNextReadyThread. *)

Runs(s, c) == s.cur[c] # NoThread /\ s.status[s.cur[c]] = "Running"

FoundIn(s, c, levels) == {i \in DOMAIN levels : Schedulable(s, s.ready[c][levels[i]]) # {}}

(* A search visits the levels in use that may hold a thread to switch to. *)
Searches(levels, all, L, runs, x) ==
  /\ levels \in Seq(Prios)
  /\ \A i, j \in 1 .. Len(levels) : i < j => levels[i] < levels[j]
  /\ ~runs => ToSet(levels) = L
  /\ runs /\ x \in L => levels # all /\ ToSet(levels) = {p \in L : p < x}

LEMMA SearchedFacts ==
  ASSUME NEW s, s \in KStates, NEW c \in Cores
  PROVE  Searches(Searched(s, c), LevelsOf(s, c), Linked(s.levels[c]), Runs(s, c),
                  s.prio[s.cur[c]])
<1> DEFINE all == LevelsOf(s, c)
           t == s.cur[c]
           worse == {i \in DOMAIN all : all[i] >= s.prio[t]}
           levels == Searched(s, c)
           L == Linked(s.levels[c])
           n == Len(all)
           m == Min(worse)
           x == s.prio[t]
<1>1. /\ all \in Seq(Prios) /\ ToSet(all) = L
      /\ \A i, j \in 1 .. n : i < j => all[i] < all[j]
  BY LevelsFacts
<1>2. Prios \subseteq Nat
  BY PriosFinite
<1>3. levels = IF ~Runs(s, c) \/ worse = {} THEN all ELSE SubSeq(all, 1, m - 1)
  BY DEF Searched, Runs
<1> HIDE DEF all, levels, L
<1>4. n \in Nat /\ DOMAIN all = 1 .. n /\ \A i \in 1 .. n : all[i] \in Prios /\ all[i] \in Nat
  <2>1. n \in Nat /\ DOMAIN all = 1 .. n /\ \A i \in 1 .. n : all[i] \in Prios
    BY <1>1
  <2> QED
    BY <1>2, <2>1
<1> HIDE DEF n
<1> SUFFICES Searches(levels, all, L, Runs(s, c), x)
  BY DEF levels, all, L
<1>5. CASE ~Runs(s, c)
  <2>1. levels = all
    BY <1>3, <1>5
  <2> QED
    BY <1>1, <1>5, <2>1 DEF n, Searches
<1>6. CASE Runs(s, c) /\ worse = {}
  <2>1. levels = all
    BY <1>3, <1>6
  <2>2. ASSUME x \in L PROVE FALSE
    <3>1. PICK i \in 1 .. n : all[i] = x
      BY <1>1, <1>4, <2>2 DEF ToSet
    <3> QED
      BY <1>4, <1>6, <3>1
  <2> QED
    BY <1>1, <1>6, <2>1, <2>2 DEF n, Searches
<1>7. CASE Runs(s, c) /\ worse # {}
  <2>0. t \in Threads /\ x \in Nat
    BY <1>2, <1>7, StateTypes DEF Runs
  <2> HIDE DEF t, x
  <2>1. worse \in SUBSET Nat /\ worse \subseteq 1 .. n
    BY <1>4
  <2>2. m \in worse /\ \A i \in worse : m <= i
    BY <1>7, <2>1, MinNat
  <2>3. m \in 1 .. n /\ all[m] >= x
    BY <1>4, <2>2 DEF x
  <2> HIDE DEF m
  <2>4. \A i \in 1 .. n : i < m <=> all[i] < x
    <3> TAKE i \in 1 .. n
    <3>1. CASE i < m
      <4>1. i \notin worse
        BY <1>4, <2>2, <2>3, <3>1
      <4> QED
        BY <1>4, <2>0, <3>1, <4>1 DEF x
    <3>2. CASE i = m
      BY <1>4, <2>0, <2>3, <3>2
    <3>3. CASE i > m
      <4>1. all[m] < all[i]
        BY <1>1, <2>3, <3>3
      <4> QED
        BY <1>4, <2>0, <2>3, <3>3, <4>1
    <3> QED
      BY <1>4, <2>3, <3>1, <3>2, <3>3
  <2>5. levels = SubSeq(all, 1, m - 1)
    BY <1>3, <1>7
  <2>6. /\ levels \in Seq(Prios) /\ Len(levels) = m - 1
        /\ \A i \in 1 .. m - 1 : i \in 1 .. n /\ levels[i] = all[i]
    <3>1. \A i \in 1 .. m - 1 : i \in 1 .. n /\ all[i] \in Prios /\ 1 + i - 1 = i
      BY <1>4, <2>3
    <3>2. m - 1 \in Int /\ m - 1 >= 0 /\ (m - 1) - 1 + 1 = m - 1
      BY <2>3
    <3>3. /\ levels \in Seq(Prios) /\ Len(levels) = IF 1 <= m - 1 THEN (m - 1) - 1 + 1 ELSE 0
          /\ \A i \in 1 .. (m - 1) - 1 + 1 : levels[i] = all[1 + i - 1]
      BY <2>5, <3>1, <3>2, SubSeqProperties
    <3>4. Len(levels) = m - 1
      BY <3>2, <3>3
    <3> QED
      BY <3>1, <3>2, <3>3, <3>4
  <2>7. \A i, j \in 1 .. m - 1 : i < j => levels[i] < levels[j]
    BY <1>1, <2>6 DEF n
  <2>8. levels # all
    BY <2>3, <2>6 DEF n
  <2>9. ToSet(levels) = {p \in L : p < x}
    <3>1. DOMAIN levels = 1 .. m - 1 /\ m \in Nat
      BY <2>3, <2>6
    <3>2. ASSUME NEW p \in ToSet(levels) PROVE p \in L /\ p < x
      <4>1. PICK i \in 1 .. m - 1 : levels[i] = p
        BY <3>1, <3>2 DEF ToSet
      <4>2. i \in 1 .. n /\ all[i] = p /\ i < m
        BY <2>6, <3>1, <4>1
      <4> QED
        BY <1>1, <1>4, <2>4, <4>2 DEF ToSet
    <3>3. ASSUME NEW p \in L, p < x PROVE p \in ToSet(levels)
      <4>1. PICK i \in 1 .. n : all[i] = p
        BY <1>1, <1>4 DEF ToSet
      <4>2. i < m
        BY <2>4, <3>3, <4>1
      <4>3. i \in 1 .. m - 1
        BY <1>4, <3>1, <4>2
      <4>4. levels[i] = p /\ i \in DOMAIN levels
        BY <2>6, <3>1, <4>1, <4>3
      <4> QED
        BY <4>4 DEF ToSet
    <3> QED
      BY <3>2, <3>3
  <2> QED
    BY <1>7, <2>6, <2>7, <2>8, <2>9 DEF Searches
<1> QED
  BY <1>5, <1>6, <1>7

LEMMA FirstOfFacts ==
  ASSUME NEW s, NEW q \in Seq(Threads), Schedulable(s, q) # {}
  PROVE  /\ Min(Schedulable(s, q)) \in 1 .. Len(q) /\ FirstOf(s, q) \in ToSet(q)
         /\ FirstOf(s, q) \in Threads /\ s.canSched[FirstOf(s, q)]
         /\ FirstOf(s, q) = q[Min(Schedulable(s, q))]
<1> DEFINE S == Schedulable(s, q)
           j == Min(S)
<1>1. DOMAIN q = 1 .. Len(q) /\ Len(q) \in Nat /\ \A i \in 1 .. Len(q) : q[i] \in Threads
  OBVIOUS
<1>2. S \in SUBSET Nat
  BY <1>1 DEF Schedulable
<1>3. j \in S
  <2> HIDE DEF S
  <2> QED
    BY <1>2, MinNat DEF S
<1> HIDE DEF j
<1>4. j \in 1 .. Len(q) /\ s.canSched[q[j]]
  BY <1>1, <1>3 DEF Schedulable
<1>5. FirstOf(s, q) = q[j]
  BY DEF FirstOf, j
<1> QED
  BY <1>1, <1>4, <1>5 DEF ToSet, j

LEMMA PoppedFacts ==
  ASSUME NEW s, s \in KStates, NEW c \in Cores, NEW levels \in Seq(Prios), NEW found,
         found = FoundIn(s, c, levels), NEW p \in Prios
  PROVE  LET q == s.ready[c][p]
             r == Popped(s, q, p, levels, found)
         IN  /\ r \in Seq(Threads) /\ (Distinct(q) => Distinct(r))
             /\ (found = {} \/ p # levels[Min(found)]) => ToSet(r) = ToSet(q)
             /\ found # {} /\ p = levels[Min(found)] /\ Distinct(q)
                  /\ (\A i, j \in 1 .. Len(levels) : i < j => levels[i] < levels[j])
                => ToSet(r) = ToSet(q) \ {FirstOf(s, q)}
<1> DEFINE q == s.ready[c][p]
           r == Popped(s, q, p, levels, found)
           On == \E i \in DOMAIN levels : levels[i] = p /\ \A f \in found : i < f
           n == Len(levels)
<1>1. q \in Seq(Threads) /\ Prios \subseteq Nat
  BY StateTypes, PriosFinite
<1>2. n \in Nat /\ DOMAIN levels = 1 .. n /\ \A i \in 1 .. n : levels[i] \in Nat
  <2>1. n \in Nat /\ DOMAIN levels = 1 .. n
    BY LenProperties
  <2>2. \A i \in 1 .. n : levels[i] \in Prios
    BY <2>1, ElementOfSeq
  <2> QED
    BY <1>1, <2>1, <2>2
<1>3. found \in SUBSET Nat /\ found \subseteq 1 .. n
  BY <1>2 DEF FoundIn
<1>4. r = IF On THEN Reverse(q)
          ELSE IF found # {} /\ p = levels[Min(found)] THEN Rest(q, Min(Schedulable(s, q)))
          ELSE q
  BY DEF Popped, Rest
<1>5. found # {} => /\ Min(found) \in found /\ Min(found) \in 1 .. n
                    /\ \A f \in found : Min(found) <= f
                    /\ Schedulable(s, s.ready[c][levels[Min(found)]]) # {}
  <2>1. found # {} => Min(found) \in found /\ \A f \in found : Min(found) <= f
    BY <1>3, MinNat
  <2> QED
    BY <1>3, <2>1 DEF FoundIn
<1> HIDE DEF On, r, n
<1>6. /\ Reverse(q) \in Seq(Threads) /\ ToSet(Reverse(q)) = ToSet(q)
      /\ Distinct(q) => Distinct(Reverse(q))
  BY <1>1, ReverseFacts
<1>7. CASE On
  <2>1. ASSUME found # {}, p = levels[Min(found)],
               \A i, j \in 1 .. n : i < j => levels[i] < levels[j]
        PROVE  FALSE
    <3>1. PICK i \in 1 .. n : levels[i] = p /\ \A f \in found : i < f
      BY <1>2, <1>7 DEF On
    <3>2. i < Min(found) /\ Min(found) \in 1 .. n
      BY <1>5, <2>1, <3>1
    <3>3. levels[i] < levels[Min(found)]
      BY <2>1, <3>2
    <3> QED
      BY <1>2, <2>1, <3>1, <3>2, <3>3
  <2>2. r = Reverse(q)
    BY <1>4, <1>7
  <2> HIDE DEF q
  <2> QED
    BY <1>6, <2>1, <2>2 DEF n, r, q
<1>8. CASE ~On /\ found # {} /\ p = levels[Min(found)]
  <2>1. Schedulable(s, q) # {}
    BY <1>5, <1>8
  <2> DEFINE j == Min(Schedulable(s, q))
  <2>2. j \in 1 .. Len(q) /\ FirstOf(s, q) = q[j]
    BY <1>1, <2>1, FirstOfFacts
  <2>3. r = Rest(q, j)
    BY <1>4, <1>8
  <2> HIDE DEF j, q
  <2>4. /\ Rest(q, j) \in Seq(Threads)
        /\ Distinct(q) => Distinct(Rest(q, j)) /\ ToSet(Rest(q, j)) = ToSet(q) \ {q[j]}
    BY <1>1, <2>2, RestFacts
  <2> QED
    BY <1>8, <2>2, <2>3, <2>4 DEF r, q
<1>9. CASE ~On /\ ~(found # {} /\ p = levels[Min(found)])
  <2>1. r = q
    BY <1>4, <1>9
  <2> HIDE DEF q
  <2> QED
    BY <1>1, <1>9, <2>1 DEF r, q
<1> QED
  BY <1>7, <1>8, <1>9

RowSet(s, c, F) == [s EXCEPT !.ready[c] = F]

LEMMA RowUpdate ==
  ASSUME NEW s, s \in KStates, NEW c \in Cores, NEW F \in [Prios -> Seq(Threads)]
  PROVE  LET u == RowSet(s, c, F)
         IN  /\ u \in KStates /\ SameButPrio(s, u)
             /\ u.prio = s.prio /\ u.mprio = s.mprio /\ u.levels = s.levels
             /\ \A d \in Cores, r \in Prios :
                  u.ready[d][r] = IF d = c THEN F[r] ELSE s.ready[d][r]
<1> DEFINE f == [s.ready EXCEPT ![c] = F]
           u == RowSet(s, c, F)
<1>1. s.ready \in [Cores -> [Prios -> Seq(Threads)]]
  BY DEF KStates
<1>2. f \in [Cores -> [Prios -> Seq(Threads)]]
  BY <1>1
<1>3. \A d \in Cores, r \in Prios : f[d][r] = IF d = c THEN F[r] ELSE s.ready[d][r]
  BY <1>1
<1>4. u = [s EXCEPT !.ready = f]
  BY DEF KStates, RowSet
<1> HIDE DEF f, u
<1>5. u \in KStates /\ u.ready = f
  BY <1>2, <1>4 DEF KStates
<1>6. SameButPrio(s, u) /\ u.prio = s.prio /\ u.mprio = s.mprio /\ u.levels = s.levels
  BY <1>4 DEF KStates, SameButPrio, SameRest, SameThreads, SameLists, SameOwners, SameSignals
<1> QED
  BY <1>3, <1>5, <1>6 DEF u

Row(s, c, levels, found) == [p \in Prios |-> Popped(s, s.ready[c][p], p, levels, found)]

LEMMA PopIs ==
  ASSUME NEW s, s \in KStates, NEW c \in Cores
  PROVE  LET levels == Searched(s, c)
             found == FoundIn(s, c, levels)
             pop == PopNextReadyThread(s, c)
         IN  /\ pop.next = IF found # {} THEN FirstOf(s, s.ready[c][levels[Min(found)]])
                           ELSE IF Runs(s, c) THEN s.cur[c] ELSE NoThread
             /\ pop.state = Asserted(RowSet(s, c, Row(s, c, levels, found)),
                                     Runs(s, c) /\ found = {} => levels # LevelsOf(s, c))
<1> DEFINE levels == Searched(s, c)
           found == FoundIn(s, c, levels)
<1>1. PopNextReadyThread(s, c) = PopFound(s, c, levels, found)
  BY DEF PopNextReadyThread, FoundIn
<1> HIDE DEF levels, found
<1>2. [s EXCEPT !.ready[c] = [p \in Prios |-> Popped(s, @[p], p, levels, found)]]
        = RowSet(s, c, Row(s, c, levels, found))
  BY DEF RowSet, Row, KStates
<1>3. PopFound(s, c, levels, found).next =
        IF found # {} THEN FirstOf(s, s.ready[c][levels[Min(found)]])
                           ELSE IF Runs(s, c) THEN s.cur[c] ELSE NoThread
  BY DEF PopFound, Runs
<1>4. PopFound(s, c, levels, found).state =
        Asserted([s EXCEPT !.ready[c] = [p \in Prios |-> Popped(s, @[p], p, levels, found)]],
                                     Runs(s, c) /\ found = {} => levels # LevelsOf(s, c))
  BY DEF PopFound, Runs
<1> QED
  BY <1>1, <1>2, <1>3, <1>4 DEF levels, found

(* Where a search found something there is a level and a queue. *)
LEMMA FoundFacts ==
  ASSUME NEW s, s \in KStates, NEW c \in Cores, NEW levels \in Seq(Prios), NEW found,
         found = FoundIn(s, c, levels), found # {}
  PROVE  /\ Min(found) \in 1 .. Len(levels) /\ levels[Min(found)] \in Prios
         /\ \A f \in found : f \in 1 .. Len(levels) /\ Min(found) <= f
         /\ s.ready[c][levels[Min(found)]] \in Seq(Threads)
         /\ Schedulable(s, s.ready[c][levels[Min(found)]]) # {}
<1> DEFINE i == Min(found)
<1>1. DOMAIN levels = 1 .. Len(levels) /\ Len(levels) \in Nat /\ \A j \in 1 .. Len(levels) : levels[j] \in Prios
  OBVIOUS
<1>2. found \in SUBSET Nat /\ found \subseteq 1 .. Len(levels)
  BY <1>1 DEF FoundIn
<1>3. i \in found /\ \A f \in found : i <= f
  BY <1>2, MinNat
<1> HIDE DEF i
<1>4. i \in 1 .. Len(levels) /\ levels[i] \in Prios
  BY <1>1, <1>2, <1>3
<1>5. s.ready[c][levels[i]] \in Seq(Threads)
  BY <1>4, StateTypes
<1>6. Schedulable(s, s.ready[c][levels[i]]) # {}
  BY <1>3 DEF FoundIn
<1> QED
  BY <1>2, <1>3, <1>4, <1>5, <1>6 DEF i

LEMMA PopType ==
  ASSUME NEW s, s \in KStates, NEW c \in Cores
  PROVE  /\ PopNextReadyThread(s, c).state \in KStates
         /\ PopNextReadyThread(s, c).next \in Threads \cup {NoThread}
<1> DEFINE levels == Searched(s, c)
           found == FoundIn(s, c, levels)
           F == Row(s, c, levels, found)
           pop == PopNextReadyThread(s, c)
<1>1. levels \in Seq(Prios)
  BY SearchedFacts DEF Searches
<1>2. /\ pop.next = IF found # {} THEN FirstOf(s, s.ready[c][levels[Min(found)]])
                    ELSE IF Runs(s, c) THEN s.cur[c] ELSE NoThread
      /\ pop.state = Asserted(RowSet(s, c, F), Runs(s, c) /\ found = {} => levels # LevelsOf(s, c))
  BY PopIs
<1> HIDE DEF levels, pop
<1>3. F \in [Prios -> Seq(Threads)]
  <2>1. \A p \in Prios : Popped(s, s.ready[c][p], p, levels, found) \in Seq(Threads)
    BY <1>1, PoppedFacts
  <2> HIDE DEF found
  <2> QED
    BY <2>1 DEF Row
<1>4. pop.state \in KStates
  <2>1. RowSet(s, c, F) \in KStates
    BY <1>3, RowUpdate
  <2> HIDE DEF F, found
  <2> QED
    BY <1>2, <2>1, AssertedType
<1>5. found # {} => FirstOf(s, s.ready[c][levels[Min(found)]]) \in Threads
  <2> HAVE found # {}
  <2>1. /\ s.ready[c][levels[Min(found)]] \in Seq(Threads)
        /\ Schedulable(s, s.ready[c][levels[Min(found)]]) # {}
    BY <1>1, FoundFacts
  <2> QED
    BY <2>1, FirstOfFacts
<1>6. s.cur[c] \in Threads \cup {NoThread}
  BY StateTypes
<1> HIDE DEF found
<1>7. pop.next \in Threads \cup {NoThread}
  BY <1>2, <1>5, <1>6
<1> QED
  BY <1>4, <1>7 DEF pop

(* What the search finds, and what it leaves: the best thread that may be   *)
(* scheduled, and every other one where it was.                             *)
Finds(s, u, c, n) ==
  /\ u \in KStates /\ SameButPrio(s, u) /\ u.prio = s.prio /\ u.mprio = s.mprio
  /\ u.levels = s.levels
  /\ n \in Threads => /\ CoreOf[n] = c /\ QueueBut(u, n)
                      /\ \/ n = s.cur[c] /\ Runs(s, c)
                         \/ s.status[n] = "Ready" /\ (Runs(s, c) => s.prio[n] < s.prio[s.cur[c]])
  /\ n = NoThread => Queue(u) /\ ~Runs(s, c)
  /\ \A y \in Threads : s.status[y] = "Ready" /\ CoreOf[y] = c /\ s.canSched[y]
                          => n \in Threads /\ s.prio[n] <= s.prio[y]

LEMMA PopFacts ==
  ASSUME NEW s, s \in KStates, ~s.crashed, Queue(s), Levelled(s), CurCore(s), NEW c \in Cores
  PROVE  Finds(s, PopNextReadyThread(s, c).state, c, PopNextReadyThread(s, c).next)
<1> DEFINE levels == Searched(s, c)
           found == FoundIn(s, c, levels)
           F == Row(s, c, levels, found)
           pop == PopNextReadyThread(s, c)
           L == Linked(s.levels[c])
           t == s.cur[c]
           u == RowSet(s, c, F)
           all == LevelsOf(s, c)
           n == pop.next
<1>1. /\ levels \in Seq(Prios) /\ \A i, j \in 1 .. Len(levels) : i < j => levels[i] < levels[j]
      /\ ~Runs(s, c) => ToSet(levels) = L
      /\ Runs(s, c) /\ s.prio[t] \in L => levels # all /\ ToSet(levels) = {p \in L : p < s.prio[t]}
  BY SearchedFacts DEF Searches
<1>2. /\ n = IF found # {} THEN FirstOf(s, s.ready[c][levels[Min(found)]])
             ELSE IF Runs(s, c) THEN t ELSE NoThread
      /\ pop.state = Asserted(u, Runs(s, c) /\ found = {} => levels # all)
  BY PopIs
<1> HIDE DEF levels, all, L
<1>3. Runs(s, c) => /\ t \in Threads /\ CoreOf[t] = c /\ s.prio[t] \in L /\ s.status[t] = "Running"
                    /\ t # NoThread /\ s.prio[t] \in Nat
  <2> HAVE Runs(s, c)
  <2>1. t \in Threads /\ t # NoThread /\ s.status[t] = "Running"
    BY StateTypes DEF Runs
  <2>2. CoreOf[t] = c
    BY <2>1 DEF CurCore
  <2>3. s.prio[t] \in L
    BY <2>1, <2>2 DEF Levelled, L
  <2>4. s.prio[t] \in Prios
    BY <2>1, StateTypes
  <2> QED
    BY <2>1, <2>2, <2>3, <2>4, PriosFinite
<1>4. pop.state = u
  <2> HIDE DEF u, found
  <2> QED
    BY <1>1, <1>2, <1>3 DEF Asserted
<1>5. \A p \in Prios :
        LET q == s.ready[c][p]
            r == Popped(s, q, p, levels, found)
        IN  /\ r \in Seq(Threads) /\ Distinct(r)
            /\ (found = {} \/ p # levels[Min(found)]) => ToSet(r) = ToSet(q)
            /\ found # {} /\ p = levels[Min(found)] => ToSet(r) = ToSet(q) \ {FirstOf(s, q)}
  <2> TAKE p \in Prios
  <2>1. Distinct(s.ready[c][p])
    BY DEF Queue, QueuesDistinct
  <2> QED
    BY <1>1, <2>1, PoppedFacts
<1> HIDE DEF pop
<1>6. F \in [Prios -> Seq(Threads)]
  <2> HIDE DEF found
  <2> QED
    BY <1>5 DEF Row
<1>7. \A p \in Prios :
        /\ Distinct(F[p])
        /\ (found = {} \/ p # levels[Min(found)]) => ToSet(F[p]) = ToSet(s.ready[c][p])
        /\ found # {} /\ p = levels[Min(found)]
             => ToSet(F[p]) = ToSet(s.ready[c][p]) \ {FirstOf(s, s.ready[c][p])}
  <2> HIDE DEF found
  <2> QED
    BY <1>5 DEF Row
<1> HIDE DEF F
<1>8. /\ u \in KStates /\ SameButPrio(s, u)
      /\ u.prio = s.prio /\ u.mprio = s.mprio /\ u.levels = s.levels
      /\ \A d \in Cores, r \in Prios : u.ready[d][r] = IF d = c THEN F[r] ELSE s.ready[d][r]
  BY <1>6, RowUpdate
<1> HIDE DEF u
<1>9. u.status = s.status
  BY <1>8 DEF SameButPrio, SameThreads
<1>10. QueuesDistinct(u)
  BY <1>7, <1>8 DEF Queue, QueuesDistinct
<1>11. \A p \in Prios : p \in Nat
  BY PriosFinite
<1>12. ASSUME NEW y \in Threads, s.status[y] = "Ready", CoreOf[y] = c, s.canSched[y]
       PROVE  /\ s.prio[y] \in L /\ s.prio[y] \in Nat
              /\ \A i \in 1 .. Len(levels) : levels[i] = s.prio[y] => i \in found
  <2>1. s.prio[y] \in Prios /\ s.ready[c][s.prio[y]] \in Seq(Threads)
    BY StateTypes
  <2>2. s.prio[y] \in L
    BY <1>12 DEF Levelled, L
  <2>3. y \in ToSet(s.ready[c][s.prio[y]])
    BY <1>12, <2>1 DEF Queue, QueuedRight
  <2>4. Schedulable(s, s.ready[c][s.prio[y]]) # {}
    BY <1>12, <2>3 DEF Schedulable, ToSet
  <2>5. DOMAIN levels = 1 .. Len(levels)
    BY <1>1
  <2> QED
    BY <1>11, <2>1, <2>2, <2>4, <2>5 DEF FoundIn
<1>13. CASE found = {}
  <2>1. Queue(u)
    <3>1. ASSUME NEW d \in Cores, NEW r \in Prios PROVE ToSet(u.ready[d][r]) = ToSet(s.ready[d][r])
      <4>1. ToSet(F[r]) = ToSet(s.ready[c][r])
        BY <1>7, <1>13
      <4> QED
        BY <1>8, <4>1
    <3>2. \A x \in Threads : QueuedRight(u, x)
      BY <1>8, <1>9, <3>1 DEF Queue, QueuedRight
    <3> QED
      BY <1>10, <3>2 DEF Queue
  <2>2. ASSUME NEW y \in Threads, s.status[y] = "Ready", CoreOf[y] = c, s.canSched[y]
        PROVE  Runs(s, c) /\ s.prio[t] <= s.prio[y]
    <3>1. s.prio[y] \in L /\ s.prio[y] \in Nat /\ \A i \in 1 .. Len(levels) : levels[i] # s.prio[y]
      BY <1>12, <1>13, <2>2
    <3>2. s.prio[y] \notin ToSet(levels)
      <4>1. DOMAIN levels = 1 .. Len(levels)
        BY <1>1
      <4> QED
        BY <3>1, <4>1 DEF ToSet
    <3> QED
      BY <1>1, <1>3, <3>1, <3>2
  <2>3. CASE Runs(s, c)
    <3>1. n = t
      BY <1>2, <1>13, <2>3
    <3>2. QueueBut(u, t)
      BY <1>3, <1>9, <1>10, <2>1, <2>3 DEF Queue, QueueBut, QueuedRight, NotQueued
    <3> QED
      BY <1>3, <1>4, <1>8, <2>2, <2>3, <3>1, <3>2 DEF Finds, pop
  <2>4. CASE ~Runs(s, c)
    <3>1. n = NoThread /\ NoThread \notin Threads
      BY <1>2, <1>13, <2>4, Kinds
    <3> QED
      BY <1>4, <1>8, <2>1, <2>2, <2>4, <3>1 DEF Finds, pop
  <2> QED
    BY <2>3, <2>4
<1>14. CASE found # {}
  <2> DEFINE f == Min(found)
             p == levels[f]
             q == s.ready[c][p]
  <2>1. /\ f \in 1 .. Len(levels) /\ p \in Prios /\ q \in Seq(Threads) /\ Schedulable(s, q) # {}
        /\ \A i \in found : i \in 1 .. Len(levels) /\ f <= i
    BY <1>1, <1>14, FoundFacts
  <2>2. n = FirstOf(s, q)
    BY <1>2, <1>14
  <2>3. n \in Threads /\ n \in ToSet(q)
    BY <2>1, <2>2, FirstOfFacts
  <2> HIDE DEF n, found, q
  <2>4. s.status[n] = "Ready" /\ CoreOf[n] = c /\ s.prio[n] = p
    BY <2>1, <2>3 DEF Queue, QueuedRight, q
  <2>5. p \in ToSet(levels) /\ DOMAIN levels = 1 .. Len(levels)
    BY <1>1, <2>1 DEF ToSet
  <2>6. Runs(s, c) => p < s.prio[t]
    BY <1>1, <1>3, <2>5
  <2>7. QueueBut(u, n)
    <3>1. ASSUME NEW d \in Cores, NEW r \in Prios
          PROVE  ToSet(u.ready[d][r]) = ToSet(s.ready[d][r]) \ {n}
      <4>1. CASE d = c /\ r = p
        BY <1>7, <1>8, <1>14, <2>1, <2>2, <4>1 DEF q
      <4>2. CASE ~(d = c /\ r = p)
        <5>1. n \notin ToSet(s.ready[d][r])
          BY <2>3, <2>4, <4>2 DEF Queue, QueuedRight
        <5>2. ToSet(u.ready[d][r]) = ToSet(s.ready[d][r])
          <6>1. CASE d = c
            BY <1>7, <1>8, <4>2, <6>1
          <6>2. CASE d # c
            BY <1>8, <6>2
          <6> QED
            BY <6>1, <6>2
        <5> QED
          BY <5>1, <5>2
      <4> QED
        BY <4>1, <4>2
    <3>2. NotQueued(u, n)
      BY <3>1 DEF NotQueued
    <3>3. \A x \in Threads : x # n => QueuedRight(u, x)
      BY <1>8, <1>9, <3>1 DEF Queue, QueuedRight
    <3> QED
      BY <1>10, <3>2, <3>3 DEF QueueBut
  <2>8. ASSUME NEW y \in Threads, s.status[y] = "Ready", CoreOf[y] = c, s.canSched[y]
        PROVE  p <= s.prio[y]
    <3>1. /\ s.prio[y] \in L /\ s.prio[y] \in Nat /\ p \in Nat
          /\ \A i \in 1 .. Len(levels) : levels[i] = s.prio[y] => i \in found
      BY <1>11, <1>12, <2>1, <2>8
    <3>2. CASE s.prio[y] \in ToSet(levels)
      <4>1. PICK i \in 1 .. Len(levels) : levels[i] = s.prio[y]
        BY <2>5, <3>2 DEF ToSet
      <4>2. f <= i
        BY <2>1, <3>1, <4>1
      <4>3. f = i \/ f < i
        BY <2>1, <4>2
      <4> QED
        BY <1>1, <2>1, <3>1, <4>1, <4>3
    <3>3. CASE s.prio[y] \notin ToSet(levels)
      <4>1. Runs(s, c) /\ s.prio[t] <= s.prio[y]
        BY <1>1, <1>3, <3>1, <3>3
      <4> QED
        BY <1>3, <2>6, <3>1, <4>1
    <3> QED
      BY <3>2, <3>3
  <2>9. n # NoThread
    BY <2>3, Kinds
  <2> HIDE DEF p
  <2> QED
    BY <1>4, <1>8, <2>3, <2>4, <2>6, <2>7, <2>8, <2>9 DEF Finds, pop, n
<1> QED
  BY <1>13, <1>14

-----------------------------------------------------------------------------
(* ThreadManager::SwitchContext. *)

LEMMA UnqueueBut ==
  ASSUME NEW s, s \in KStates, NEW t \in Threads, QueueBut(s, t)
  PROVE  QueueBut(Unqueue(s, t), t)
<1> DEFINE c == CoreOf[t]
           p == s.prio[t]
           q == Filter(s.ready[c][p], Threads \ {t})
           u == Unqueue(s, t)
<1>1. c \in Cores /\ p \in Prios /\ s.ready[c][p] \in Seq(Threads)
  BY StateTypes
<1>2. /\ q \in Seq(Threads) /\ ToSet(q) = ToSet(s.ready[c][p]) \cap (Threads \ {t})
      /\ Distinct(s.ready[c][p]) => Distinct(q)
  BY <1>1, FilterFacts
<1>3. u = [s EXCEPT !.ready[c][p] = q]
  BY DEF Unqueue
<1> HIDE DEF c, p, q, u
<1>4. /\ u \in KStates /\ SameButPrio(s, u) /\ u.prio = s.prio
      /\ \A d \in Cores, r \in Prios :
           u.ready[d][r] = IF d = c /\ r = p THEN q ELSE s.ready[d][r]
  BY <1>1, <1>2, <1>3, ReadyUpdate
<1>5. u.status = s.status
  BY <1>4 DEF SameButPrio, SameThreads
<1>6. QueuesDistinct(u)
  BY <1>1, <1>2, <1>4 DEF QueueBut, QueuesDistinct
<1>7. NotQueued(u, t)
  BY <1>1, <1>2, <1>4 DEF NotQueued, QueueBut
<1>8. \A x \in Threads : x # t => QueuedRight(u, x)
  BY <1>1, <1>2, <1>4, <1>5 DEF QueueBut, QueuedRight
<1> QED
  BY <1>6, <1>7, <1>8 DEF QueueBut, u

(* The thread that ran goes to the front of its queue. *)
FrontSet(s, c, t) == [s EXCEPT !.ready[c][s.prio[t]] = <<t>> \o @, !.status[t] = "Ready"]

LEMMA FrontUpdate ==
  ASSUME NEW s, s \in KStates, NEW c \in Cores, NEW t \in Threads
  PROVE  LET u == FrontSet(s, c, t)
         IN  /\ u \in KStates /\ SameRest(s, u) /\ SameLists(s, u) /\ SameOwners(s, u)
             /\ SameSignals(s, u) /\ u.callback = s.callback /\ u.timer = s.timer
             /\ u.prio = s.prio /\ u.mprio = s.mprio /\ u.levels = s.levels
             /\ u.crashed = s.crashed
             /\ \A y \in Threads : u.status[y] = IF y = t THEN "Ready" ELSE s.status[y]
<1> DEFINE p == s.prio[t]
           q == <<t>> \o s.ready[c][p]
           v == [s EXCEPT !.ready[c][p] = q]
           u == FrontSet(s, c, t)
<1>1. p \in Prios /\ s.ready[c][p] \in Seq(Threads) /\ "Ready" \in Status
  BY StateTypes DEF Status
<1>2. q \in Seq(Threads)
  BY <1>1, ConsFacts
<1>3. u = StatusSet(v, t, "Ready")
  BY DEF FrontSet, StatusSet, KStates
<1> HIDE DEF u, p, q
<1>4. /\ v \in KStates /\ SameButPrio(s, v)
      /\ v.prio = s.prio /\ v.mprio = s.mprio /\ v.levels = s.levels
      /\ \A d \in Cores, r \in Prios : v.ready[d][r] = IF d = c /\ r = p THEN q ELSE s.ready[d][r]
  BY <1>1, <1>2, ReadyUpdate
<1> HIDE DEF v
<1>5. /\ u \in KStates /\ SameRest(v, u) /\ SameLists(v, u) /\ SameOwners(v, u)
      /\ SameSignals(v, u) /\ u.callback = v.callback /\ u.timer = v.timer
      /\ u.prio = v.prio /\ u.mprio = v.mprio /\ u.ready = v.ready /\ u.levels = v.levels
      /\ u.crashed = v.crashed
      /\ \A y \in Threads : u.status[y] = IF y = t THEN "Ready" ELSE v.status[y]
  BY <1>1, <1>3, <1>4, StatusUpdate
<1>6. /\ SameRest(s, u) /\ SameLists(s, u) /\ SameOwners(s, u)
      /\ SameSignals(s, u) /\ u.callback = s.callback /\ u.timer = s.timer
      /\ u.prio = s.prio /\ u.mprio = s.mprio /\ u.levels = s.levels
      /\ u.crashed = s.crashed /\ v.status = s.status
  BY <1>4, <1>5 DEF SameButPrio, SameThreads, SameRest, SameLists, SameOwners, SameSignals
<1>7. \A y \in Threads : u.status[y] = IF y = t THEN "Ready" ELSE s.status[y]
  BY <1>5, <1>6
<1> QED
  BY <1>5, <1>6, <1>7 DEF u

LEMMA FrontReady ==
  ASSUME NEW s, s \in KStates, NEW c \in Cores, NEW t \in Threads
  PROVE  \A d \in Cores, r \in Prios :
           FrontSet(s, c, t).ready[d][r] = IF d = c /\ r = s.prio[t] THEN <<t>> \o s.ready[c][r]
                                           ELSE s.ready[d][r]
<1> DEFINE p == s.prio[t]
           q == <<t>> \o s.ready[c][p]
           v == [s EXCEPT !.ready[c][p] = q]
           u == FrontSet(s, c, t)
<1>1. p \in Prios /\ s.ready[c][p] \in Seq(Threads) /\ "Ready" \in Status
  BY StateTypes DEF Status
<1>2. q \in Seq(Threads)
  BY <1>1, ConsFacts
<1>3. u = StatusSet(v, t, "Ready")
  BY DEF FrontSet, StatusSet, KStates
<1> HIDE DEF u, p, q
<1>4. /\ v \in KStates
      /\ \A d \in Cores, r \in Prios : v.ready[d][r] = IF d = c /\ r = p THEN q ELSE s.ready[d][r]
  BY <1>1, <1>2, ReadyUpdate
<1> HIDE DEF v
<1>5. u.ready = v.ready
  BY <1>1, <1>3, <1>4, StatusUpdate
<1> QED
  BY <1>4, <1>5 DEF u, p, q

LEMMA FrontQueue ==
  ASSUME NEW s, s \in KStates, NEW t \in Threads, NEW n \in Threads, QueueBut(s, n),
         s.status[t] # "Ready"
  PROVE  LET u == FrontSet(s, CoreOf[t], t)
         IN  IF n = t THEN Queue(u) ELSE QueueBut(u, n)
<1> DEFINE c == CoreOf[t]
           u == FrontSet(s, c, t)
           p == s.prio[t]
           q == s.ready[c][p]
<1>1. c \in Cores /\ p \in Prios /\ q \in Seq(Threads)
  BY StateTypes
<1>2. t \notin ToSet(q) /\ Distinct(q)
  BY <1>1 DEF QueueBut, NotQueued, QueuedRight, QueuesDistinct
<1>3. ToSet(<<t>> \o q) = ToSet(q) \cup {t} /\ Distinct(<<t>> \o q)
  BY <1>1, <1>2, ConsFacts
<1>4. /\ u.prio = s.prio
      /\ \A y \in Threads : u.status[y] = IF y = t THEN "Ready" ELSE s.status[y]
      /\ \A d \in Cores, r \in Prios :
           u.ready[d][r] = IF d = c /\ r = p THEN <<t>> \o s.ready[c][r] ELSE s.ready[d][r]
  BY <1>1, FrontUpdate, FrontReady
<1> HIDE DEF u
<1>5. QueuesDistinct(u)
  BY <1>1, <1>3, <1>4 DEF QueueBut, QueuesDistinct
<1>6. \A d \in Cores, r \in Prios, x \in Threads :
        x \in ToSet(u.ready[d][r]) <=> x \in ToSet(s.ready[d][r]) \/ (x = t /\ d = c /\ r = p)
  <2> TAKE d \in Cores, r \in Prios, x \in Threads
  <2>1. CASE d = c /\ r = p
    BY <1>3, <1>4, <2>1
  <2>2. CASE ~(d = c /\ r = p)
    BY <1>4, <2>2
  <2> QED
    BY <2>1, <2>2
<1>7. \A d \in Cores, r \in Prios : t \notin ToSet(s.ready[d][r])
  BY DEF QueueBut, NotQueued, QueuedRight
<1> HIDE DEF p, q, c
<1>8. QueuedRight(u, t)
  BY <1>1, <1>4, <1>6, <1>7 DEF QueuedRight, c, p
<1>9. \A x \in Threads : x # t /\ x # n => QueuedRight(u, x)
  BY <1>4, <1>6 DEF QueueBut, QueuedRight
<1>10. n # t => NotQueued(u, n)
  BY <1>6 DEF QueueBut, NotQueued
<1> QED
  BY <1>5, <1>8, <1>9, <1>10 DEF Queue, QueueBut, u, c

SwitchSet(s, c, n) ==
  [s EXCEPT !.timer[n] = 0, !.cur[c] = n, !.status[n] = "Running", !.runsOn = @ \ {c}]

IdleSet(s, c) == [s EXCEPT !.cur[c] = NoThread, !.runsOn = @ \ {c}]

LEMMA SwitchUpdate ==
  ASSUME NEW s, s \in KStates, NEW c \in Cores, NEW n \in Threads
  PROVE  LET u == SwitchSet(s, c, n)
         IN  /\ u \in KStates /\ SameLists(s, u) /\ SameOwners(s, u) /\ SameSignals(s, u)
             /\ u.callback = s.callback /\ u.prio = s.prio /\ u.mprio = s.mprio
             /\ u.levels = s.levels /\ u.ready = s.ready /\ u.crashed = s.crashed
             /\ u.nominal = s.nominal /\ u.canSched = s.canSched /\ u.used = s.used
             /\ u.runsOn = s.runsOn \ {c}
             /\ \A y \in Threads : /\ u.status[y] = IF y = n THEN "Running" ELSE s.status[y]
                                   /\ u.timer[y] = IF y = n THEN 0 ELSE s.timer[y]
             /\ \A d \in Cores : u.cur[d] = IF d = c THEN n ELSE s.cur[d]
<1> DEFINE u == SwitchSet(s, c, n)
           f == [s.status EXCEPT ![n] = "Running"]
           g == [s.timer EXCEPT ![n] = 0]
           h == [s.cur EXCEPT ![c] = n]
           o == s.runsOn \ {c}
<1>1. f \in [Threads -> Status] /\ \A y \in Threads : f[y] = IF y = n THEN "Running" ELSE s.status[y]
  BY DEF KStates, Status
<1>2. g \in [Threads -> Nat] /\ \A y \in Threads : g[y] = IF y = n THEN 0 ELSE s.timer[y]
  BY DEF KStates
<1>3. h \in [Cores -> Threads \cup {NoThread}] /\ \A d \in Cores : h[d] = IF d = c THEN n ELSE s.cur[d]
  BY DEF KStates
<1>4. o \in SUBSET Cores
  BY DEF KStates
<1>5. u = [s EXCEPT !.status = f, !.timer = g, !.cur = h, !.runsOn = o]
  BY DEF KStates, SwitchSet
<1> HIDE DEF f, g, h, o, u
<1>6. u \in KStates /\ u.status = f /\ u.timer = g /\ u.cur = h /\ u.runsOn = o
  BY <1>1, <1>2, <1>3, <1>4, <1>5 DEF KStates
<1>7. /\ SameLists(s, u) /\ SameOwners(s, u) /\ SameSignals(s, u)
      /\ u.callback = s.callback /\ u.prio = s.prio /\ u.mprio = s.mprio
      /\ u.levels = s.levels /\ u.ready = s.ready /\ u.crashed = s.crashed
      /\ u.nominal = s.nominal /\ u.canSched = s.canSched /\ u.used = s.used
  BY <1>5 DEF KStates, SameLists, SameOwners, SameSignals
<1> QED
  BY <1>1, <1>2, <1>3, <1>6, <1>7 DEF u, o

LEMMA IdleUpdate ==
  ASSUME NEW s, s \in KStates, NEW c \in Cores
  PROVE  LET u == IdleSet(s, c)
         IN  /\ u \in KStates /\ SameThreads(s, u) /\ SameLists(s, u) /\ SameOwners(s, u)
             /\ SameSignals(s, u) /\ u.prio = s.prio /\ u.mprio = s.mprio
             /\ u.levels = s.levels /\ u.ready = s.ready /\ u.crashed = s.crashed
             /\ u.nominal = s.nominal /\ u.canSched = s.canSched /\ u.used = s.used
             /\ u.runsOn = s.runsOn \ {c}
             /\ \A d \in Cores : u.cur[d] = IF d = c THEN NoThread ELSE s.cur[d]
<1> DEFINE u == IdleSet(s, c)
           h == [s.cur EXCEPT ![c] = NoThread]
           o == s.runsOn \ {c}
<1>3. /\ h \in [Cores -> Threads \cup {NoThread}]
      /\ \A d \in Cores : h[d] = IF d = c THEN NoThread ELSE s.cur[d]
  BY DEF KStates
<1>4. o \in SUBSET Cores
  BY DEF KStates
<1>5. u = [s EXCEPT !.cur = h, !.runsOn = o]
  BY DEF KStates, IdleSet
<1> HIDE DEF h, o, u
<1>6. u \in KStates /\ u.cur = h /\ u.runsOn = o
  BY <1>3, <1>4, <1>5 DEF KStates
<1>7. /\ SameThreads(s, u) /\ SameLists(s, u) /\ SameOwners(s, u)
      /\ SameSignals(s, u) /\ u.prio = s.prio /\ u.mprio = s.mprio
      /\ u.levels = s.levels /\ u.ready = s.ready /\ u.crashed = s.crashed
      /\ u.nominal = s.nominal /\ u.canSched = s.canSched /\ u.used = s.used
  BY <1>5 DEF KStates, SameThreads, SameLists, SameOwners, SameSignals
<1> QED
  BY <1>3, <1>6, <1>7 DEF u, o

(* The thread that ran is ready again. *)
Preempted(s, c) == IF Runs(s, c) THEN FrontSet(s, c, s.cur[c]) ELSE s

LEMMA SwitchIs ==
  ASSUME NEW s, NEW c, NEW n
  PROVE  LET v == Preempted(s, c)
         IN  SwitchContext(s, c, n) =
               IF n = NoThread THEN IdleSet(v, c)
               ELSE SwitchSet(Unqueue(Asserted(v, v.status[n] = "Ready"), n), c, n)
BY DEF SwitchContext, Preempted, Runs, FrontSet, IdleSet, SwitchSet

LEMMA PreemptedType ==
  ASSUME NEW s, s \in KStates, NEW c \in Cores
  PROVE  Preempted(s, c) \in KStates
<1>1. s.cur[c] \in Threads \cup {NoThread}
  BY StateTypes
<1>2. CASE Runs(s, c)
  <2>1. s.cur[c] \in Threads
    BY <1>1, <1>2 DEF Runs
  <2> QED
    BY <1>2, <2>1, FrontUpdate DEF Preempted
<1> QED
  BY <1>2 DEF Preempted

LEMMA SwitchType ==
  ASSUME NEW s, s \in KStates, NEW c \in Cores, NEW n \in Threads \cup {NoThread}
  PROVE  SwitchContext(s, c, n) \in KStates
<1> DEFINE v == Preempted(s, c)
           a == Asserted(v, v.status[n] = "Ready")
<1>1. SwitchContext(s, c, n) = IF n = NoThread THEN IdleSet(v, c) ELSE SwitchSet(Unqueue(a, n), c, n)
  BY SwitchIs
<1>2. v \in KStates
  BY PreemptedType
<1> HIDE DEF v
<1>3. a \in KStates
  BY <1>2, AssertedType
<1> HIDE DEF a
<1>4. CASE n = NoThread
  BY <1>1, <1>2, <1>4, IdleUpdate
<1>5. CASE n # NoThread
  <2>1. n \in Threads
    BY <1>5
  <2>2. Unqueue(a, n) \in KStates
    BY <1>3, <2>1, UnqueueFacts
  <2> QED
    BY <1>1, <1>5, <2>1, <2>2, SwitchUpdate
<1> QED
  BY <1>4, <1>5

LEMMA RescheduledType ==
  ASSUME NEW s, s \in KStates, NEW c \in Cores
  PROVE  Rescheduled(s, c) \in KStates
<1>1. /\ PopNextReadyThread(s, c).state \in KStates
      /\ PopNextReadyThread(s, c).next \in Threads \cup {NoThread}
  BY PopType
<1>2. Rescheduled(s, c) = SwitchContext(PopNextReadyThread(s, c).state, c, PopNextReadyThread(s, c).next)
  BY DEF Rescheduled
<1> QED
  BY <1>1, <1>2, SwitchType

(* Core c runs n instead of the thread it ran. *)
Moved(s, r, c, n) ==
  /\ r \in KStates /\ SameLists(s, r) /\ SameOwners(s, r) /\ SameSignals(s, r)
  /\ r.callback = s.callback /\ r.prio = s.prio /\ r.mprio = s.mprio /\ r.levels = s.levels
  /\ r.crashed = s.crashed /\ r.nominal = s.nominal /\ r.canSched = s.canSched
  /\ r.used = s.used /\ r.runsOn = s.runsOn \ {c} /\ Queue(r)
  /\ \A y \in Threads :
       /\ r.status[y] = IF y = n THEN "Running"
                        ELSE IF Runs(s, c) /\ y = s.cur[c] THEN "Ready" ELSE s.status[y]
       /\ r.timer[y] = IF y = n THEN 0 ELSE s.timer[y]
  /\ \A d \in Cores : r.cur[d] = IF d = c THEN n ELSE s.cur[d]

LEMMA PreemptedFacts ==
  ASSUME NEW s, s \in KStates, NEW c \in Cores, Runs(s, c)
  PROVE  LET v == Preempted(s, c)
         IN  /\ v \in KStates /\ SameRest(s, v) /\ SameLists(s, v) /\ SameOwners(s, v)
             /\ SameSignals(s, v) /\ v.callback = s.callback /\ v.timer = s.timer
             /\ v.prio = s.prio /\ v.mprio = s.mprio /\ v.levels = s.levels
             /\ v.crashed = s.crashed
             /\ \A y \in Threads : v.status[y] = IF y = s.cur[c] THEN "Ready" ELSE s.status[y]
<1>1. s.cur[c] \in Threads
  BY StateTypes DEF Runs
<1>2. Preempted(s, c) = FrontSet(s, c, s.cur[c])
  BY DEF Preempted
<1> QED
  BY <1>1, <1>2, FrontUpdate

LEMMA SwitchFacts ==
  ASSUME NEW s, s \in KStates, CurCore(s), NEW c \in Cores, NEW u,
         NEW n \in Threads \cup {NoThread}, Finds(s, u, c, n)
  PROVE  Moved(s, SwitchContext(u, c, n), c, n)
<1> DEFINE t == s.cur[c]
           v == Preempted(u, c)
           r == SwitchContext(u, c, n)
<1>1. /\ u \in KStates /\ SameRest(s, u) /\ SameThreads(s, u) /\ SameLists(s, u) /\ SameOwners(s, u)
      /\ SameSignals(s, u) /\ u.prio = s.prio /\ u.mprio = s.mprio /\ u.levels = s.levels
      /\ u.crashed = s.crashed
  BY DEF Finds, SameButPrio
<1>2. u.cur = s.cur /\ u.status = s.status /\ (Runs(u, c) <=> Runs(s, c))
  BY <1>1 DEF SameRest, SameThreads, Runs
<1>3. Runs(s, c) => t \in Threads /\ CoreOf[t] = c /\ s.status[t] = "Running"
  <2>1. t \in Threads \cup {NoThread}
    BY StateTypes
  <2> QED
    BY <2>1 DEF Runs, CurCore
<1>4. r = IF n = NoThread THEN IdleSet(v, c)
          ELSE SwitchSet(Unqueue(Asserted(v, v.status[n] = "Ready"), n), c, n)
  BY SwitchIs
<1>5. /\ v \in KStates /\ SameRest(u, v) /\ SameLists(u, v) /\ SameOwners(u, v)
      /\ SameSignals(u, v) /\ v.callback = u.callback /\ v.timer = u.timer
      /\ v.prio = u.prio /\ v.mprio = u.mprio /\ v.levels = u.levels
      /\ v.crashed = u.crashed
      /\ \A y \in Threads : v.status[y] = IF Runs(s, c) /\ y = t THEN "Ready" ELSE s.status[y]
  <2>1. CASE Runs(s, c)
    <3>1. v = FrontSet(u, c, t)
      BY <1>2, <2>1 DEF Preempted
    <3>2. Runs(u, c)
      BY <1>2, <2>1
    <3>3. /\ v \in KStates /\ SameRest(u, v) /\ SameLists(u, v) /\ SameOwners(u, v)
          /\ SameSignals(u, v) /\ v.callback = u.callback /\ v.timer = u.timer
          /\ v.prio = u.prio /\ v.mprio = u.mprio /\ v.levels = u.levels
          /\ v.crashed = u.crashed
          /\ \A y \in Threads : v.status[y] = IF y = u.cur[c] THEN "Ready" ELSE u.status[y]
      BY <1>1, <3>2, PreemptedFacts
    <3> HIDE DEF v
    <3> QED
      BY <1>2, <2>1, <3>3
  <2>2. CASE ~Runs(s, c)
    <3>1. v = u
      BY <1>2, <2>2 DEF Preempted
    <3> QED
      BY <1>1, <1>2, <2>2, <3>1 DEF SameRest, SameLists, SameOwners, SameSignals
  <2> QED
    BY <2>1, <2>2
<1>6. /\ SameRest(s, v) /\ SameLists(s, v) /\ SameOwners(s, v)
      /\ SameSignals(s, v) /\ v.callback = s.callback /\ v.timer = s.timer
      /\ v.prio = s.prio /\ v.mprio = s.mprio /\ v.levels = s.levels
      /\ v.crashed = s.crashed
  BY <1>1, <1>5 DEF SameRest, SameThreads, SameLists, SameOwners, SameSignals
<1>7. CASE n = NoThread
  <2>1. Queue(u) /\ ~Runs(s, c) /\ n \notin Threads
    BY <1>7, Kinds DEF Finds
  <2>2. v = u /\ r = IdleSet(v, c)
    BY <1>2, <1>4, <1>7, <2>1 DEF Preempted
  <2> HIDE DEF v, r
  <2>3. /\ r \in KStates /\ SameThreads(v, r) /\ SameLists(v, r) /\ SameOwners(v, r)
        /\ SameSignals(v, r) /\ r.prio = v.prio /\ r.mprio = v.mprio
        /\ r.levels = v.levels /\ r.ready = v.ready /\ r.crashed = v.crashed
        /\ r.nominal = v.nominal /\ r.canSched = v.canSched /\ r.used = v.used
        /\ r.runsOn = v.runsOn \ {c}
        /\ \A d \in Cores : r.cur[d] = IF d = c THEN NoThread ELSE v.cur[d]
    BY <1>5, <2>2, IdleUpdate
  <2>4. Queue(r)
    BY <2>1, <2>2, <2>3 DEF Queue, QueuesDistinct, QueuedRight, SameThreads
  <2>5. /\ SameLists(s, r) /\ SameOwners(s, r) /\ SameSignals(s, r)
        /\ r.callback = s.callback /\ r.prio = s.prio /\ r.mprio = s.mprio /\ r.levels = s.levels
        /\ r.crashed = s.crashed /\ r.nominal = s.nominal /\ r.canSched = s.canSched
        /\ r.used = s.used /\ r.runsOn = s.runsOn \ {c}
        /\ r.timer = s.timer /\ r.status = v.status
        /\ \A d \in Cores : r.cur[d] = IF d = c THEN n ELSE s.cur[d]
    BY <1>6, <1>7, <2>3 DEF SameRest, SameThreads, SameLists, SameOwners, SameSignals
  <2>6. \A y \in Threads :
       /\ r.status[y] = IF y = n THEN "Running"
                        ELSE IF Runs(s, c) /\ y = s.cur[c] THEN "Ready" ELSE s.status[y]
       /\ r.timer[y] = IF y = n THEN 0 ELSE s.timer[y]
    BY <1>5, <2>1, <2>5
  <2> QED
    BY <2>3, <2>4, <2>5, <2>6 DEF Moved, r
<1>8. CASE n # NoThread
  <2>1. /\ n \in Threads /\ CoreOf[n] = c /\ QueueBut(u, n)
        /\ \/ n = t /\ Runs(s, c)
           \/ s.status[n] = "Ready"
    BY <1>8 DEF Finds
  <2>2. v.status[n] = "Ready"
    BY <1>5, <2>1
  <2> DEFINE w == Unqueue(v, n)
  <2>3. r = SwitchSet(w, c, n)
    <3>1. Asserted(v, v.status[n] = "Ready") = v
      BY <2>2 DEF Asserted
    <3> QED
      BY <1>4, <1>8, <3>1
  <2>4. QueueBut(w, n)
    <3>1. CASE Runs(s, c)
      <4>1. v = FrontSet(u, CoreOf[t], t) /\ u.status[t] # "Ready"
        BY <1>2, <1>3, <3>1 DEF Preempted
      <4>2. IF n = t THEN Queue(v) ELSE QueueBut(v, n)
        BY <1>1, <1>3, <2>1, <3>1, <4>1, FrontQueue
      <4>3. CASE n = t
        BY <1>5, <2>1, <4>2, <4>3, UnqueueFacts
      <4>4. CASE n # t
        BY <1>5, <2>1, <4>2, <4>4, UnqueueBut
      <4> QED
        BY <4>3, <4>4
    <3>2. CASE ~Runs(s, c)
      <4>1. v = u
        BY <1>2, <3>2 DEF Preempted
      <4> QED
        BY <1>1, <2>1, <4>1, UnqueueBut
    <3> QED
      BY <3>1, <3>2
  <2> HIDE DEF v
  <2>5. /\ w \in KStates /\ SameButPrio(v, w) /\ w.prio = v.prio /\ w.mprio = v.mprio
        /\ w.levels = v.levels
    BY <1>5, <2>1, UnqueueFacts
  <2> HIDE DEF w, r
  <2>6. /\ r \in KStates /\ SameLists(w, r) /\ SameOwners(w, r) /\ SameSignals(w, r)
        /\ r.callback = w.callback /\ r.prio = w.prio /\ r.mprio = w.mprio
        /\ r.levels = w.levels /\ r.ready = w.ready /\ r.crashed = w.crashed
        /\ r.nominal = w.nominal /\ r.canSched = w.canSched /\ r.used = w.used
        /\ r.runsOn = w.runsOn \ {c}
        /\ \A y \in Threads : /\ r.status[y] = IF y = n THEN "Running" ELSE w.status[y]
                              /\ r.timer[y] = IF y = n THEN 0 ELSE w.timer[y]
        /\ \A d \in Cores : r.cur[d] = IF d = c THEN n ELSE w.cur[d]
    BY <2>1, <2>3, <2>5, SwitchUpdate
  <2>7. /\ SameRest(s, w) /\ SameLists(s, w) /\ SameOwners(s, w) /\ SameSignals(s, w)
        /\ w.callback = s.callback /\ w.timer = s.timer /\ w.prio = s.prio /\ w.mprio = s.mprio
        /\ w.levels = s.levels /\ w.crashed = s.crashed /\ w.status = v.status
    BY <1>6, <2>5 DEF SameButPrio, SameRest, SameThreads, SameLists, SameOwners, SameSignals
  <2>8. Queue(r)
    <3>1. \A x \in Threads : x # n => QueuedRight(r, x)
      BY <2>4, <2>6 DEF QueueBut, QueuedRight
    <3>2. QueuedRight(r, n)
      BY <2>1, <2>4, <2>6 DEF QueueBut, NotQueued, QueuedRight
    <3> QED
      BY <2>4, <2>6, <3>1, <3>2 DEF Queue, QueueBut, QueuesDistinct
  <2>9. /\ SameLists(s, r) /\ SameOwners(s, r) /\ SameSignals(s, r)
        /\ r.callback = s.callback /\ r.prio = s.prio /\ r.mprio = s.mprio /\ r.levels = s.levels
        /\ r.crashed = s.crashed /\ r.nominal = s.nominal /\ r.canSched = s.canSched
        /\ r.used = s.used /\ r.runsOn = s.runsOn \ {c}
        /\ \A d \in Cores : r.cur[d] = IF d = c THEN n ELSE s.cur[d]
    BY <2>6, <2>7 DEF SameRest, SameLists, SameOwners, SameSignals
  <2>10. \A y \in Threads :
       /\ r.status[y] = IF y = n THEN "Running"
                        ELSE IF Runs(s, c) /\ y = s.cur[c] THEN "Ready" ELSE s.status[y]
       /\ r.timer[y] = IF y = n THEN 0 ELSE s.timer[y]
    BY <1>5, <2>6, <2>7
  <2> QED
    BY <2>6, <2>8, <2>9, <2>10 DEF Moved, r
<1> QED
  BY <1>7, <1>8

(* What holds between two handlers holds after a core has switched. *)
LEMMA MovedInv ==
  ASSUME NEW s, KInv(s), NEW c \in Cores, NEW n \in Threads \cup {NoThread}, NEW u, NEW r,
         Finds(s, u, c, n), Moved(s, r, c, n)
  PROVE  KInv(r) /\ SameDrift(s, r) /\ Lasting(s, r) /\ Holding(s, r, {})
<1>0. /\ s \in KStates /\ Mid(s, NoThread, NoThread) /\ CurCore(s) /\ s.runsOn = {}
      /\ ~s.crashed /\ Own(s, NoThread) /\ Inherit(s) /\ Levelled(s) /\ Timed(s)
      /\ Waits(s, NoThread) /\ NoLost(s, NoThread) /\ NoInv(s, NoThread, {})
  BY DEF KInv, Mid, Sound
<1>1. /\ r \in KStates /\ SameLists(s, r) /\ SameOwners(s, r) /\ SameSignals(s, r)
      /\ r.callback = s.callback /\ r.prio = s.prio /\ r.mprio = s.mprio /\ r.levels = s.levels
      /\ r.crashed = s.crashed /\ r.nominal = s.nominal /\ r.used = s.used
      /\ r.runsOn = s.runsOn \ {c} /\ Queue(r)
      /\ \A d \in Cores : r.cur[d] = IF d = c THEN n ELSE s.cur[d]
  BY DEF Moved
<1>2. ASSUME NEW y \in Threads
      PROVE  /\ r.timer[y] = s.timer[y]
             /\ \/ r.status[y] = s.status[y]
                \/ s.status[y] \in {"Ready", "Running"} /\ r.status[y] \in {"Ready", "Running"}
  <2>1. /\ r.status[y] = IF y = n THEN "Running"
                        ELSE IF Runs(s, c) /\ y = s.cur[c] THEN "Ready" ELSE s.status[y]
        /\ r.timer[y] = IF y = n THEN 0 ELSE s.timer[y]
    BY DEF Moved
  <2>2. y = n => s.status[y] \in {"Ready", "Running"}
    BY DEF Finds, Runs
  <2>3. s.status[y] \in {"Ready", "Running"} => s.timer[y] = 0
    BY <1>0 DEF Timed
  <2>4. Runs(s, c) /\ y = s.cur[c] => s.status[y] \in {"Ready", "Running"}
    BY DEF Runs
  <2> QED
    BY <2>1, <2>2, <2>3, <2>4
<1>3. \A y \in Threads : /\ Alive(r, y) <=> Alive(s, y)
                         /\ r.status[y] = "Dead" <=> s.status[y] = "Dead"
                         /\ r.status[y] = "Dormant" <=> s.status[y] = "Dormant"
                         /\ \A z \in WaitSynch : r.status[y] = z <=> s.status[y] = z
  BY <1>2 DEF Alive, WaitSynch
<1>4. Own(r, NoThread)
  BY <1>0, <1>1, <1>3, Kinds DEF Own, SameOwners
<1>5. Inherit(r)
  BY <1>0, <1>1, <1>3 DEF Inherit, Best, SameOwners
<1>6. Levelled(r)
  BY <1>0, <1>1, <1>3 DEF Levelled
<1>7. Timed(r)
  <2>1. ASSUME NEW y \in Threads
        PROVE  /\ r.timer[y] <= 1
               /\ r.status[y] \in {"Ready", "Running", "Dormant"} => r.timer[y] = 0 /\ ~r.callback[y]
               /\ r.status[y] = "Dead" => r.timer[y] = 0
    <3>1. r.timer[y] = s.timer[y] /\ r.callback[y] = s.callback[y]
      BY <1>1, <1>2
    <3>2. r.status[y] \in {"Ready", "Running", "Dormant"} => s.status[y] \in {"Ready", "Running", "Dormant"}
      BY <1>2
    <3>3. /\ s.timer[y] <= 1
          /\ s.status[y] \in {"Ready", "Running", "Dormant"} => s.timer[y] = 0 /\ ~s.callback[y]
          /\ s.status[y] = "Dead" => s.timer[y] = 0
      BY <1>0 DEF Timed
    <3> QED
      BY <1>3, <3>1, <3>2, <3>3
  <2> QED
    BY <2>1 DEF Timed
<1>8. Waits(r, NoThread)
  BY <1>0, <1>1, <1>3, Kinds DEF Waits, SameLists, WaitSynch
<1>9. NoLost(r, NoThread)
  <2>1. \A x \in Objects, y \in Threads : ShouldWait(r, x, y) <=> ShouldWait(s, x, y)
    <3> TAKE x \in Objects, y \in Threads
    <3>1. /\ x \in Mutexes => (r.lock[x] > 0 <=> s.lock[x] > 0) /\ r.holder[x] = s.holder[x]
          /\ x \in Semaphores => r.count[x] = s.count[x]
          /\ x \in Events \cup Timers => r.signaled[x] = s.signaled[x]
          /\ x \in Threads => (r.status[x] = "Dead" <=> s.status[x] = "Dead")
      BY <1>1, <1>3 DEF SameOwners, SameSignals
    <3> QED
      BY <3>1, SameAvailability
  <2>2. \A y \in Threads : \A x \in ToSet(s.waitObjs[y]) : x \in Objects
    BY <1>0, WaitObjsIn
  <2>3. \A y \in Threads : /\ r.status[y] = "WaitSynchAny" <=> s.status[y] = "WaitSynchAny"
                           /\ r.status[y] = "WaitSynchAll" <=> s.status[y] = "WaitSynchAll"
    BY <1>3 DEF WaitSynch
  <2>4. r.waitObjs = s.waitObjs
    BY <1>1 DEF SameLists
  <2> QED
    BY <1>0, <2>1, <2>2, <2>3, <2>4 DEF NoLost
<1>10. NoInv(r, NoThread, {})
  <2>1. \A y \in Threads : r.status[y] = "WaitSynchAny" <=> s.status[y] = "WaitSynchAny"
    BY <1>3 DEF WaitSynch
  <2> QED
    BY <1>0, <1>1, <2>1 DEF NoInv, NoInvAt, Pressing, SameLists, SameOwners
<1>11. CurCore(r)
  <2>1. ASSUME NEW d \in Cores, r.cur[d] # NoThread
        PROVE  CoreOf[r.cur[d]] = d /\ r.status[r.cur[d]] # "Dormant"
    <3>1. CASE d = c
      <4>1. r.cur[d] = n /\ n \in Threads /\ CoreOf[n] = c
        BY <1>1, <2>1, <3>1 DEF Finds
      <4>2. r.status[n] = "Running"
        BY <4>1 DEF Moved
      <4> QED
        BY <3>1, <4>1, <4>2
    <3>2. CASE d # c
      <4>1. r.cur[d] = s.cur[d] /\ s.cur[d] \in Threads
        BY <1>0, <1>1, <2>1, <3>2, StateTypes
      <4>2. CoreOf[s.cur[d]] = d /\ s.status[s.cur[d]] # "Dormant"
        BY <1>0, <2>1, <4>1 DEF CurCore
      <4> QED
        BY <1>3, <4>1, <4>2
    <3> QED
      BY <3>1, <3>2
  <2> QED
    BY <2>1 DEF CurCore
<1>12. KInv(r)
  BY <1>0, <1>1, <1>4, <1>5, <1>6, <1>7, <1>8, <1>9, <1>10, <1>11 DEF KInv, Mid, Sound
<1>13. SameDrift(s, r)
  BY <1>1, <1>3, DriftSame
<1>14. Lasting(s, r) /\ Holding(s, r, {})
  BY <1>1, <1>3, HoldingSame DEF Lasting, SameOwners
<1> QED
  BY <1>12, <1>13, <1>14

(* After a switch the core runs its best thread. *)
LEMMA MovedBest ==
  ASSUME NEW s, KInv(s), NEW c \in Cores, NEW n \in Threads \cup {NoThread}, NEW u, NEW r,
         Finds(s, u, c, n), Moved(s, r, c, n)
  PROVE  RunsBest(r, c)
<1> DEFINE R == {y \in Threads : r.status[y] = "Ready" /\ CoreOf[y] = c}
<1>0. s \in KStates /\ NoThread \notin Threads
  BY Kinds DEF KInv, Mid, Sound
<1>1. r \in KStates /\ Queue(r) /\ r.cur[c] = n /\ r.prio = s.prio /\ r.canSched = s.canSched
  BY DEF Moved
<1>2. \A y \in R : /\ y # n
                   /\ s.status[y] = "Ready" \/ (Runs(s, c) /\ y = s.cur[c])
  BY DEF Moved
<1>3. \A y \in Threads : s.prio[y] \in Nat /\ s.prio[y] \in Prios
  BY <1>0, StateTypes, PriosFinite
<1>4. ASSUME NEW y \in R, s.canSched[y] PROVE n \in Threads /\ s.prio[n] <= s.prio[y]
  <2>1. CASE s.status[y] = "Ready"
    BY <1>4, <2>1 DEF Finds
  <2>2. CASE Runs(s, c) /\ y = s.cur[c]
    <3>1. n # NoThread
      BY <2>2 DEF Finds
    <3>2. n \in Threads /\ s.prio[n] < s.prio[y]
      BY <1>2, <2>2, <3>1 DEF Finds
    <3> QED
      BY <1>3, <1>4, <3>2
  <2> QED
    BY <1>2, <2>1, <2>2
<1>5. R = UNION {ToSet(r.ready[c][p]) : p \in Prios}
  <2>1. ASSUME NEW y \in R PROVE \E p \in Prios : y \in ToSet(r.ready[c][p])
    BY <1>1, <1>3 DEF Queue, QueuedRight
  <2>2. ASSUME NEW p \in Prios, NEW y \in ToSet(r.ready[c][p]) PROVE y \in R
    <3>1. r.ready[c][p] \in Seq(Threads)
      BY <1>1, StateTypes
    <3>2. y \in Threads
      BY <2>2, <3>1 DEF ToSet
    <3> QED
      BY <1>1, <2>2, <3>2 DEF Queue, QueuedRight
  <2> QED
    BY <2>1, <2>2
<1>6. IF r.cur[c] = NoThread THEN \A y \in R : ~r.canSched[y]
      ELSE \A y \in R : r.canSched[y] => r.prio[r.cur[c]] <= r.prio[y]
  <2> HIDE DEF R
  <2> QED
    BY <1>0, <1>1, <1>4
<1> QED
  BY <1>5, <1>6 DEF RunsBest

LEMMA RescheduledFacts ==
  ASSUME NEW s, KInv(s), NEW c \in Cores
  PROVE  /\ KInv(Rescheduled(s, c)) /\ SameDrift(s, Rescheduled(s, c))
         /\ Lasting(s, Rescheduled(s, c)) /\ Holding(s, Rescheduled(s, c), {})
         /\ RunsBest(Rescheduled(s, c), c)
<1> DEFINE pop == PopNextReadyThread(s, c)
           u == pop.state
           n == pop.next
           r == SwitchContext(u, c, n)
<1>0. s \in KStates /\ ~s.crashed /\ Queue(s) /\ Levelled(s) /\ CurCore(s)
  BY DEF KInv, Mid, Sound
<1>1. n \in Threads \cup {NoThread}
  BY <1>0, PopType
<1>2. Finds(s, u, c, n)
  BY <1>0, PopFacts
<1>3. Rescheduled(s, c) = r
  BY DEF Rescheduled
<1> HIDE DEF u, n
<1>4. Moved(s, r, c, n)
  BY <1>0, <1>1, <1>2, SwitchFacts
<1> HIDE DEF r
<1>5. /\ KInv(r) /\ SameDrift(s, r) /\ RunsBest(r, c)
      /\ Lasting(s, r) /\ Holding(s, r, {})
  BY <1>1, <1>2, <1>4, MovedInv, MovedBest
<1> QED
  BY <1>3, <1>5

-----------------------------------------------------------------------------
(* The initial state. *)

LEMMA FirstLevelsFacts ==
  ASSUME NEW c
  PROVE  /\ FirstLevels(c) \in Chains
         /\ \A t \in Started : CoreOf[t] = c => InitPrio[t] \in Linked(FirstLevels(c))
<1> DEFINE n == Len(ThreadOrder)
           q == ThreadOrder
           e == EmptyList(Prios)
           Def(g) == g = [i \in 0 .. n |-> IF i = 0 THEN e ELSE PrepareFor(g[i - 1], q[i], c)]
           step == [w \in (1 .. n) \X Chains |-> PrepareFor(w[2], q[w[1]], c)]
           g == CHOOSE g : Def(g)
<1>1. /\ n \in Nat /\ (\A i \in 1 .. n : q[i] \in Threads)
      /\ (\A t \in Threads : \E i \in 1 .. n : q[i] = t)
      /\ InitPrio \in [Threads -> Prios] /\ Started \subseteq Threads
  <2>1. ThreadOrder \in Seq(Threads) /\ ToSet(ThreadOrder) = Threads
    BY KernelAssumption
  <2>2. InitPrio \in [Threads -> Prios] /\ Started \subseteq Threads
    BY KernelAssumption
  <2>3. DOMAIN ThreadOrder = 1 .. n /\ n \in Nat /\ \A i \in 1 .. n : q[i] \in Threads
    BY <2>1
  <2>4. \A t \in Threads : \E i \in 1 .. n : q[i] = t
    BY <2>1, <2>3 DEF ToSet
  <2> QED
    BY <2>2, <2>3, <2>4
<1>2. e \in Chains
  BY PriosFinite, EmptyInOrder DEF Chains
<1>10. FirstLevels(c) = g[n]
  BY DEF FirstLevels
<1> HIDE DEF n, q, e
<1>3. ASSUME NEW w \in Chains, NEW i \in 1 .. n
      PROVE  /\ PrepareFor(w, q[i], c) \in Chains
             /\ Linked(w) \subseteq Linked(PrepareFor(w, q[i], c))
             /\ q[i] \in Started /\ CoreOf[q[i]] = c
                  => InitPrio[q[i]] \in Linked(PrepareFor(w, q[i], c))
  <2>1. InitPrio[q[i]] \in Prios
    BY <1>1
  <2>2. /\ Prepare(w, InitPrio[q[i]]) \in Chains
        /\ Linked(Prepare(w, InitPrio[q[i]])) = Linked(w) \cup {InitPrio[q[i]]}
    BY <2>1, PrepareChains
  <2> QED
    BY <2>2 DEF PrepareFor
<1>4. step \in [(1 .. n) \X Chains -> Chains]
  BY <1>3
<1>5. \A w \in Chains, i \in 1 .. n : step[<<i, w>>] = PrepareFor(w, q[i], c)
  OBVIOUS
<1> HIDE DEF step
<1>6. PICK f : IsLoop(f, n, Chains, e, step)
  BY <1>1, <1>2, <1>4, LoopExists
<1>7. /\ f \in [0 .. n -> Chains]
      /\ f[0] = e /\ \A i \in 1 .. n : f[i] = step[<<i, f[i - 1]>>]
  BY <1>6 DEF IsLoop
<1>8. \A i \in 1 .. n : f[i] = PrepareFor(f[i - 1], q[i], c)
  <2> TAKE i \in 1 .. n
  <2>1. f[i - 1] \in Chains
    BY <1>1, <1>7
  <2> QED
    BY <2>1, <1>5, <1>7
<1>9. Def(f)
  BY <1>1, <1>7, <1>8
<1>11. Def(g)
  BY <1>9
<1> HIDE DEF g
<1>12. g[0] = e /\ \A i \in 1 .. n : g[i] = PrepareFor(g[i - 1], q[i], c)
  BY <1>1, <1>11
<1> DEFINE Good(i) == /\ g[i] \in Chains
                      /\ \A j \in 1 .. i : q[j] \in Started /\ CoreOf[q[j]] = c
                                             => InitPrio[q[j]] \in Linked(g[i])
           T == {i \in 0 .. n : Good(i)}
<1>13. 0 \in T
  BY <1>1, <1>2, <1>12
<1>14. ASSUME NEW i \in 1 .. n, i - 1 \in T PROVE i \in T
  <2>1. /\ i \in Nat /\ i \in 0 .. n /\ Good(i - 1) /\ g[i] = PrepareFor(g[i - 1], q[i], c)
        /\ \A j \in 1 .. i : j \in 1 .. i - 1 \/ j = i
    BY <1>1, <1>12, <1>14
  <2>2. /\ g[i] \in Chains /\ Linked(g[i - 1]) \subseteq Linked(g[i])
        /\ q[i] \in Started /\ CoreOf[q[i]] = c => InitPrio[q[i]] \in Linked(g[i])
    BY <1>3, <2>1
  <2>3. Good(i)
    BY <2>1, <2>2
  <2> HIDE DEF Good
  <2> QED
    BY <2>1, <2>3
<1> HIDE DEF T
<1>15. n \in T
  BY <1>1, <1>13, <1>14, UpTo DEF Inductive
<1>16. Good(n)
  BY <1>15 DEF T
<1> QED
  BY <1>1, <1>10, <1>16

LEMMA InitThreads ==
  ASSUME Init
  PROVE  /\ k.status = [t \in Threads |-> IF t \in Started THEN "Ready" ELSE "Dormant"]
         /\ k.nominal = InitPrio /\ k.prio = InitPrio
         /\ k.canSched = [t \in Threads |-> TRUE]
         /\ k.waitObjs = [t \in Threads |-> <<>>]
         /\ k.held = [t \in Threads |-> {}]
         /\ k.pending = [t \in Threads |-> {}]
         /\ k.callback = [t \in Threads |-> FALSE]
         /\ k.timer = [t \in Threads |-> 0]
         /\ k.cur = [c \in Cores |-> NoThread]
         /\ k.runsOn = {} /\ k.crashed = FALSE
BY DEF Init

LEMMA InitObjects ==
  ASSUME Init
  PROVE  /\ k.levels = [c \in Cores |-> FirstLevels(c)]
         /\ k.waiters = [o \in Objects |-> <<>>]
         /\ k.lock = [m \in Mutexes |-> 0]
         /\ k.holder = [m \in Mutexes |-> NoThread]
         /\ k.mprio = [m \in Mutexes |-> ThreadPrioLowest]
         /\ k.count = [x \in Semaphores |-> InitCount]
         /\ k.signaled = [e \in Events \cup Timers |-> FALSE]
         /\ k.armed = [x \in Timers |-> 0]
         /\ k.periodic = [x \in Timers |-> FALSE]
         /\ k.exited = [p \in Procs |-> FALSE]
         /\ k.used = [p \in Procs |-> Cardinality({t \in Started : ProcOf[t] = p})]
         /\ k.ready = [c \in Cores |-> [p \in Prios |->
                        Filter(ThreadOrder, {t \in Started : CoreOf[t] = c /\ InitPrio[t] = p})]]
BY DEF Init

LEMMA InitRecord ==
  ASSUME Init
  PROVE  k = [status |-> k.status, nominal |-> k.nominal, prio |-> k.prio,
              canSched |-> k.canSched, waitObjs |-> k.waitObjs, held |-> k.held,
              pending |-> k.pending, callback |-> k.callback, timer |-> k.timer,
              cur |-> k.cur, ready |-> k.ready, levels |-> k.levels, waiters |-> k.waiters,
              lock |-> k.lock, holder |-> k.holder, mprio |-> k.mprio, count |-> k.count,
              signaled |-> k.signaled, armed |-> k.armed, periodic |-> k.periodic,
              used |-> k.used, exited |-> k.exited, runsOn |-> k.runsOn, crashed |-> k.crashed]
BY DEF Init

LEMMA InitReady ==
  ASSUME Init, NEW c \in Cores, NEW p \in Prios
  PROVE  /\ k.ready[c][p] \in Seq(Threads) /\ Distinct(k.ready[c][p])
         /\ ToSet(k.ready[c][p]) = {t \in Started : CoreOf[t] = c /\ InitPrio[t] = p}
<1> DEFINE S == {t \in Started : CoreOf[t] = c /\ InitPrio[t] = p}
<1>1. S \in SUBSET Threads
  <2>1. Started \subseteq Threads
    BY KernelAssumption
  <2> QED
    BY <2>1
<1>2. k.ready[c][p] = Filter(ThreadOrder, S)
  BY InitObjects
<1> HIDE DEF S
<1>3. /\ Filter(ThreadOrder, S) \in Seq(Threads) /\ ToSet(Filter(ThreadOrder, S)) = S
      /\ Distinct(Filter(ThreadOrder, S))
  BY <1>1, OrderFacts
<1> QED
  BY <1>2, <1>3 DEF S

LEMMA InitType ==
  ASSUME Init
  PROVE  k \in KStates
<1>1. /\ k.status \in [Threads -> Status] /\ k.nominal \in [Threads -> Prios]
      /\ k.prio \in [Threads -> Prios] /\ k.canSched \in [Threads -> BOOLEAN]
      /\ k.waitObjs \in [Threads -> Seq(Objects)] /\ k.held \in [Threads -> SUBSET Mutexes]
      /\ k.pending \in [Threads -> SUBSET Mutexes] /\ k.callback \in [Threads -> BOOLEAN]
      /\ k.timer \in [Threads -> Nat] /\ k.cur \in [Cores -> Threads \cup {NoThread}]
      /\ k.runsOn \in SUBSET Cores /\ k.crashed \in BOOLEAN
  <2>1. InitPrio \in [Threads -> Prios]
    BY KernelAssumption
  <2>2. <<>> \in Seq(Objects)
    OBVIOUS
  <2>3. k.waitObjs \in [Threads -> Seq(Objects)]
    BY <2>2, InitThreads
  <2>4. k.status \in [Threads -> Status]
    BY InitThreads DEF Status
  <2>5. k.nominal \in [Threads -> Prios] /\ k.prio \in [Threads -> Prios]
    BY <2>1, InitThreads
  <2>6. k.canSched \in [Threads -> BOOLEAN] /\ k.callback \in [Threads -> BOOLEAN]
    BY InitThreads
  <2>7. k.held \in [Threads -> SUBSET Mutexes] /\ k.pending \in [Threads -> SUBSET Mutexes]
    BY InitThreads
  <2>8. k.timer \in [Threads -> Nat] /\ k.cur \in [Cores -> Threads \cup {NoThread}]
    BY InitThreads
  <2>9. k.runsOn \in SUBSET Cores /\ k.crashed \in BOOLEAN
    BY InitThreads
  <2> QED
    BY ONLY <2>3, <2>4, <2>5, <2>6, <2>7, <2>8, <2>9
<1>2. /\ k.lock \in [Mutexes -> Nat] /\ k.holder \in [Mutexes -> Threads \cup {NoThread}]
      /\ k.mprio \in [Mutexes -> Prios] /\ k.count \in [Semaphores -> Counts]
      /\ k.signaled \in [Events \cup Timers -> BOOLEAN] /\ k.armed \in [Timers -> Int]
      /\ k.periodic \in [Timers -> BOOLEAN] /\ k.exited \in [Procs -> BOOLEAN]
  <2>1. ThreadPrioLowest \in Prios
    BY KernelAssumption
  <2>2. InitCount \in Counts
    BY CountsFacts
  <2>3. k.lock \in [Mutexes -> Nat] /\ k.holder \in [Mutexes -> Threads \cup {NoThread}]
    BY InitObjects
  <2>4. k.mprio \in [Mutexes -> Prios]
    BY <2>1, InitObjects
  <2>5. k.count \in [Semaphores -> Counts]
    BY <2>2, InitObjects
  <2>6. k.signaled \in [Events \cup Timers -> BOOLEAN]
    BY InitObjects
  <2>8. k.armed \in [Timers -> Int]
    BY InitObjects
  <2>7. k.periodic \in [Timers -> BOOLEAN] /\ k.exited \in [Procs -> BOOLEAN]
    BY InitObjects
  <2> QED
    BY ONLY <2>3, <2>4, <2>5, <2>6, <2>7, <2>8
<1>3. k.waiters \in [Objects -> Seq(Threads)]
  <2>1. <<>> \in Seq(Threads)
    OBVIOUS
  <2> QED
    BY <2>1, InitObjects
<1>4. k.levels \in [Cores -> Chains]
  BY InitObjects, FirstLevelsFacts
<1>5. k.ready \in [Cores -> [Prios -> Seq(Threads)]]
  <2>1. \A c \in Cores : k.ready[c] = [p \in Prios |-> k.ready[c][p]]
    BY InitObjects
  <2>2. k.ready = [c \in Cores |-> k.ready[c]]
    BY InitObjects
  <2>3. \A c \in Cores : \A p \in Prios : k.ready[c][p] \in Seq(Threads)
    BY InitReady
  <2>4. \A c \in Cores : k.ready[c] \in [Prios -> Seq(Threads)]
    BY <2>1, <2>3
  <2> QED
    BY <2>2, <2>4
<1>6. k.used \in [Procs -> Int]
  <2>1. ASSUME NEW p \in Procs PROVE Cardinality({t \in Started : ProcOf[t] = p}) \in Int
    <3>1. IsFiniteSet(Threads) /\ {t \in Started : ProcOf[t] = p} \in SUBSET Threads
      BY KernelAssumption
    <3>2. IsFiniteSet({t \in Started : ProcOf[t] = p})
      BY <3>1, FS_Subset
    <3> QED
      BY <3>2, FS_CardinalityType
  <2> QED
    BY <2>1, InitObjects
<1> QED
  BY <1>1, <1>2, <1>3, <1>4, <1>5, <1>6, InitRecord DEF KStates

LEMMA InitInv ==
  ASSUME Init
  PROVE  KInv(k)
<1>0. k \in KStates /\ Started \subseteq Threads /\ InitPrio \in [Threads -> Prios]
  BY InitType, KernelAssumption
<1>1. \A t \in Threads : /\ k.status[t] = IF t \in Started THEN "Ready" ELSE "Dormant"
                         /\ k.nominal[t] = InitPrio[t] /\ k.prio[t] = InitPrio[t]
                         /\ k.waitObjs[t] = <<>> /\ k.held[t] = {} /\ k.pending[t] = {}
                         /\ k.callback[t] = FALSE /\ k.timer[t] = 0
  BY InitThreads
<1>2. /\ \A c \in Cores : k.cur[c] = NoThread /\ k.levels[c] = FirstLevels(c)
      /\ k.runsOn = {} /\ ~k.crashed
      /\ \A o \in Objects : k.waiters[o] = <<>>
      /\ \A m \in Mutexes : k.lock[m] = 0 /\ k.holder[m] = NoThread
  <2>1. k.runsOn = {} /\ ~k.crashed /\ \A c \in Cores : k.cur[c] = NoThread
    BY InitThreads
  <2>2. \A c \in Cores : k.levels[c] = FirstLevels(c)
    BY InitObjects
  <2>3. \A o \in Objects : k.waiters[o] = <<>>
    BY InitObjects
  <2>4. \A m \in Mutexes : k.lock[m] = 0 /\ k.holder[m] = NoThread
    BY InitObjects
  <2> QED
    BY ONLY <2>1, <2>2, <2>3, <2>4
<1>3. ToSet(<<>>) = {} /\ Distinct(<<>>)
  BY DEF ToSet, Distinct
<1>4. Own(k, NoThread)
  BY <1>1, <1>2, Kinds DEF Own
<1>5. Inherit(k)
  <2>1. ASSUME NEW t \in Threads PROVE k.prio[t] = Best(k, t)
    <3>1. {k.nominal[t]} \cup {k.mprio[m] : m \in k.held[t]} = {InitPrio[t]}
      BY <1>1
    <3>2. InitPrio[t] \in Nat
      BY <1>0, PriosFinite
    <3>3. Min({InitPrio[t]}) = InitPrio[t]
      BY <3>2, MinIs
    <3> QED
      BY <1>1, <3>1, <3>3 DEF Best
  <2> QED
    BY <2>1 DEF Inherit
<1>6. Queue(k)
  <2>1. QueuesDistinct(k)
    BY InitReady DEF QueuesDistinct
  <2>2. ASSUME NEW t \in Threads, NEW c \in Cores, NEW p \in Prios
        PROVE  t \in ToSet(k.ready[c][p]) <=> k.status[t] = "Ready" /\ CoreOf[t] = c /\ k.prio[t] = p
    <3>1. ToSet(k.ready[c][p]) = {y \in Started : CoreOf[y] = c /\ InitPrio[y] = p}
      BY InitReady
    <3> QED
      BY <1>0, <1>1, <3>1
  <2> QED
    BY <2>1, <2>2 DEF Queue, QueuedRight
<1>7. Levelled(k)
  <2>1. ASSUME NEW t \in Threads, k.status[t] # "Dormant"
        PROVE  k.prio[t] \in Linked(k.levels[CoreOf[t]])
    <3>1. t \in Started /\ CoreOf[t] \in Cores
      BY <1>0, <1>1, <2>1, StateTypes
    <3>2. InitPrio[t] \in Linked(FirstLevels(CoreOf[t]))
      BY <3>1, FirstLevelsFacts
    <3> QED
      BY <1>1, <1>2, <3>1, <3>2
  <2> QED
    BY <2>1 DEF Levelled
<1>8. Timed(k)
  BY <1>1 DEF Timed
<1>9. Waits(k, NoThread)
  BY <1>1, <1>2, <1>3 DEF Waits
<1>10. NoLost(k, NoThread)
  BY <1>1, <1>3 DEF NoLost
<1>11. NoInv(k, NoThread, {})
  BY <1>2 DEF NoInv, NoInvAt, Pressing
<1>12. CurCore(k)
  BY <1>2 DEF CurCore
<1> QED
  BY <1>0, <1>2, <1>4, <1>5, <1>6, <1>7, <1>8, <1>9, <1>10, <1>11, <1>12 DEF KInv, Mid, Sound

-----------------------------------------------------------------------------
(* One step of the kernel. *)

LEMMA NextType ==
  ASSUME k \in KStates, [Next]_k
  PROVE  k' \in KStates
<1>1. ASSUME NEW c \in Cores, WaitCall(c) PROVE k' \in KStates
  <2>1. PICK timeout \in Timeouts :
          \/ \E o \in Objects : WaitSynchronization1(c, o, timeout)
          \/ \E h \in HandleLists, all \in BOOLEAN : WaitSynchronizationN(c, h, all, timeout)
          \/ SleepThread(c, timeout)
    BY <1>1 DEF WaitCall
  <2>2. CASE \E o \in Objects : WaitSynchronization1(c, o, timeout)
    BY <2>2, Wait1Type
  <2>3. CASE \E h \in HandleLists, all \in BOOLEAN : WaitSynchronizationN(c, h, all, timeout)
    BY <2>3, WaitNType
  <2>4. CASE SleepThread(c, timeout)
    BY <2>4, SleepType
  <2> QED
    BY <2>1, <2>2, <2>3, <2>4
<1>2. ASSUME NEW c \in Cores, ObjectCall(c) PROVE k' \in KStates
  <2>1. ASSUME NEW m \in Mutexes, ReleaseMutex(c, m) PROVE k' \in KStates
    BY <2>1, ReleaseMutexType
  <2>2. ASSUME NEW x \in Semaphores, NEW n \in Releases, ReleaseSemaphore(c, x, n)
        PROVE  k' \in KStates
    BY <2>2, ReleaseSemaphoreType
  <2>3. ASSUME NEW o \in Events \cup Timers, ClearObject(c, o) PROVE k' \in KStates
    BY <2>3, ClearType
  <2>4. ASSUME NEW x \in Timers, NEW zero \in BOOLEAN, NEW periodic \in BOOLEAN,
               SetTimer(c, x, zero, periodic)
        PROVE  k' \in KStates
    BY <2>4, SetTimerType
  <2>5. ASSUME NEW x \in Timers, CancelTimer(c, x) PROVE k' \in KStates
    BY <2>5, CancelType
  <2> QED
    BY <1>2, <2>1, <2>2, <2>3, <2>4, <2>5 DEF ObjectCall
<1>3. ASSUME NEW c \in Cores, ThreadCall(c) PROVE k' \in KStates
  <2>1. CASE ExitThread(c)
    BY <2>1, ExitType
  <2>2. ASSUME NEW t \in Threads, NEW p \in NewPrios, NEW valid \in BOOLEAN,
               CreateThread(c, t, p, valid)
        PROVE  k' \in KStates
    BY <2>2, CreateType
  <2>3. ASSUME NEW t \in Threads, NEW p \in NewPrios, SetThreadPriority(c, t, p)
        PROVE  k' \in KStates
    BY <2>3, SetThreadPriorityType
  <2>4. ASSUME NEW p \in Procs, TerminateProcess(c, p) PROVE k' \in KStates
    BY <2>4, TerminateType
  <2>5. ASSUME NEW p \in Procs, NEW allow \in BOOLEAN, ScheduleThreads(c, p, allow)
        PROVE  k' \in KStates
    BY <2>5, ScheduleType
  <2> QED
    BY <1>3, <2>1, <2>2, <2>3, <2>4, <2>5 DEF ThreadCall
<1>4. ASSUME NEW c \in Cores, Reschedule(c) PROVE k' \in KStates
  BY <1>4, RescheduledType DEF Reschedule
<1>5. ASSUME NEW e \in Events, SignalEvent(e) PROVE k' \in KStates
  BY <1>5, SignalEventType
<1>6. ASSUME NEW t \in Threads, ThreadWakeupCallback(t) PROVE k' \in KStates
  BY <1>6, WakeupCallbackType
<1>7. ASSUME NEW x \in Timers, TimerCallback(x) PROVE k' \in KStates
  BY <1>7, TimerCallbackType
<1>8. CASE UNCHANGED k
  BY <1>8
<1> QED
  BY <1>1, <1>2, <1>3, <1>4, <1>5, <1>6, <1>7, <1>8 DEF Next

(* The two steps after which the resource limit counts too many or too few. *)
Recounts ==
  \/ \E c \in Cores, t \in Threads, p \in NewPrios : CreateThread(c, t, p, FALSE)
  \/ \E c \in Cores, p \in Procs : TerminateProcess(c, p) /\ StopsAgain(p)

(* Between two handlers of a proper guest. *)
Kept(s, u, M) ==
  /\ KInv(u) /\ (SameDrift(s, u) \/ Recounts)
  /\ Lasting(s, u) /\ Holding(s, u, M)

(* The mutexes of M were released by the threads that held them. *)
GaveUp(M) ==
  \A m \in M : /\ m \in Mutexes /\ k.lock[m] = 1
               /\ \E c \in Cores : k.holder[m] = Caller(c) /\ ReleaseMutex(c, m)

KeptStep == \E M \in SUBSET Mutexes : Kept(k, k', M) /\ GaveUp(M)

LEMMA NoneGivenUp ==
  ASSUME Kept(k, k', {})
  PROVE  KeptStep
BY DEF KeptStep, GaveUp

LEMMA HandledKept ==
  ASSUME KInv(k), NEW M, HandledBut(k, k', M)
  PROVE  Kept(k, k', M)
<1>1. Lasting(k, k') /\ Holding(k, k', M)
  BY DEF HandledBut, Lasting
<1> QED
  BY <1>1, HandledInv DEF Kept

LEMMA HandledStep ==
  ASSUME KInv(k), Handled(k, k')
  PROVE  KeptStep
BY HandledKept, NoneGivenUp DEF Handled

LEMMA NextKept ==
  ASSUME ProperGuest, KInv(k), [Next]_k
  PROVE  KeptStep
<1>1. ASSUME NEW c \in Cores, WaitCall(c) PROVE KeptStep
  <2>1. PICK timeout \in Timeouts :
          \/ \E o \in Objects : WaitSynchronization1(c, o, timeout)
          \/ \E h \in HandleLists, all \in BOOLEAN : WaitSynchronizationN(c, h, all, timeout)
          \/ SleepThread(c, timeout)
    BY <1>1 DEF WaitCall
  <2>2. CASE \E o \in Objects : WaitSynchronization1(c, o, timeout)
    BY <2>2, Wait1Handled, HandledStep
  <2>3. CASE \E h \in HandleLists, all \in BOOLEAN : WaitSynchronizationN(c, h, all, timeout)
    BY <2>3, WaitNHandled, HandledStep
  <2>4. CASE SleepThread(c, timeout)
    BY <2>4, SleepHandled, HandledStep
  <2> QED
    BY <2>1, <2>2, <2>3, <2>4
<1>2. ASSUME NEW c \in Cores, ObjectCall(c) PROVE KeptStep
  <2>1. ASSUME NEW m \in Mutexes, ReleaseMutex(c, m) PROVE KeptStep
    <3>1. CASE Handled(k, k')
      BY <3>1, HandledStep
    <3>2. CASE HandledBut(k, k', {m}) /\ k.holder[m] = Caller(c) /\ k.lock[m] = 1
      <4>1. Kept(k, k', {m})
        BY <3>2, HandledKept
      <4>2. GaveUp({m})
        BY <2>1, <3>2 DEF GaveUp
      <4> QED
        BY <4>1, <4>2 DEF KeptStep
    <3> QED
      BY <2>1, <3>1, <3>2, ReleaseMutexHandled
  <2>2. ASSUME NEW x \in Semaphores, NEW n \in Releases, ReleaseSemaphore(c, x, n)
        PROVE  KeptStep
    BY <2>2, ReleaseSemaphoreHandled, HandledStep
  <2>3. ASSUME NEW o \in Events \cup Timers, ClearObject(c, o) PROVE KeptStep
    BY <2>3, ClearHandled, HandledStep
  <2>4. ASSUME NEW x \in Timers, NEW zero \in BOOLEAN, NEW periodic \in BOOLEAN,
               SetTimer(c, x, zero, periodic)
        PROVE  KeptStep
    BY <2>4, SetTimerHandled, HandledStep
  <2>5. ASSUME NEW x \in Timers, CancelTimer(c, x) PROVE KeptStep
    BY <2>5, CancelHandled, HandledStep
  <2> QED
    BY <1>2, <2>1, <2>2, <2>3, <2>4, <2>5 DEF ObjectCall
<1>3. ASSUME NEW c \in Cores, ThreadCall(c) PROVE KeptStep
  <2>1. CASE ExitThread(c)
    BY <2>1, ExitInv, NoneGivenUp DEF Kept
  <2>2. ASSUME NEW t \in Threads, NEW p \in NewPrios, NEW valid \in BOOLEAN,
               CreateThread(c, t, p, valid)
        PROVE  KeptStep
    <3>1. CASE valid
      BY <2>2, <3>1, CreateInv, NoneGivenUp DEF Kept
    <3>2. CASE ~valid
      <4>1. Recounts
        BY <2>2, <3>2 DEF Recounts
      <4> QED
        BY <2>2, <4>1, CreateInv, NoneGivenUp DEF Kept
    <3> QED
      BY <3>1, <3>2
  <2>3. ASSUME NEW t \in Threads, NEW p \in NewPrios, SetThreadPriority(c, t, p)
        PROVE  KeptStep
    BY <2>3, SetThreadPriorityHandled, HandledStep
  <2>4. ASSUME NEW p \in Procs, TerminateProcess(c, p) PROVE KeptStep
    <3>1. StopsAgain(p) => Recounts
      BY <2>4 DEF Recounts
    <3> QED
      BY <2>4, <3>1, TerminateInv, NoneGivenUp DEF Kept
  <2>5. ASSUME NEW p \in Procs, NEW allow \in BOOLEAN, ScheduleThreads(c, p, allow)
        PROVE  KeptStep
    BY <2>5, ScheduleHandled, HandledStep
  <2> QED
    BY <1>3, <2>1, <2>2, <2>3, <2>4, <2>5 DEF ThreadCall
<1>4. ASSUME NEW c \in Cores, Reschedule(c) PROVE KeptStep
  BY <1>4, RescheduledFacts, NoneGivenUp DEF Reschedule, Kept
<1>5. ASSUME NEW e \in Events, SignalEvent(e) PROVE KeptStep
  BY <1>5, SignalEventHandled, HandledStep
<1>6. ASSUME NEW t \in Threads, ThreadWakeupCallback(t) PROVE KeptStep
  BY <1>6, WakeupCallbackHandled, HandledStep
<1>7. ASSUME NEW x \in Timers, TimerCallback(x) PROVE KeptStep
  BY <1>7, TimerCallbackHandled, HandledStep
<1>8. CASE UNCHANGED k
  BY <1>8, HoldingSame, NoneGivenUp DEF Kept, Lasting, SameDrift
<1> QED
  BY <1>1, <1>2, <1>3, <1>4, <1>5, <1>6, <1>7, <1>8 DEF Next

-----------------------------------------------------------------------------
(* What the invariant says of a state. *)

LEMMA DistinctLen ==
  ASSUME NEW S, NEW q \in Seq(S), Distinct(q)
  PROVE  Len(q) = Cardinality(ToSet(q))
<1>0. Len(q) \in Nat /\ DOMAIN q = 1 .. Len(q)
  OBVIOUS
<1> DEFINE D == 1 .. Len(q)
<1>1. q \in Bijection(D, ToSet(q))
  <2>1. q \in [D -> ToSet(q)] /\ \A y \in ToSet(q) : \E i \in D : q[i] = y
    BY <1>0 DEF ToSet
  <2>2. \A i, j \in D : q[i] = q[j] => i = j
    BY <1>0 DEF Distinct
  <2> QED
    BY <2>1, <2>2, Zenon DEF Bijection, Injection, Surjection, IsInjective
<1>2. IsFiniteSet(D) /\ Cardinality(D) = Len(q)
  BY <1>0, FS_Interval
<1> HIDE DEF D
<1>3. ExistsBijection(D, ToSet(q))
  BY <1>1, Zenon DEF ExistsBijection
<1> QED
  BY <1>2, <1>3, FS_Bijection

LEMMA InvTypeOK ==
  ASSUME k \in KStates
  PROVE  TypeOK
<1>1. \A t \in Threads : ToSet(k.waitObjs[t]) \subseteq Objects
  BY WaitObjsIn
<1>2. \A t \in Threads : /\ k.held[t] \subseteq Mutexes /\ k.pending[t] \subseteq Mutexes
                         /\ k.timer[t] \in Nat
  BY DEF KStates
<1>3. ASSUME NEW o \in Objects PROVE ToSet(k.waiters[o]) \subseteq Threads
  <2>1. k.waiters[o] \in Seq(Threads)
    BY DEF KStates
  <2> QED
    BY <2>1 DEF ToSet
<1>4. k.levels \in [Cores -> Lists(Prios)]
  BY DEF KStates, Chains
<1>5. /\ k.status \in [Threads -> Status]
      /\ k.nominal \in [Threads -> Prios] /\ k.prio \in [Threads -> Prios]
      /\ k.canSched \in [Threads -> BOOLEAN] /\ k.callback \in [Threads -> BOOLEAN]
      /\ k.cur \in [Cores -> Threads \cup {NoThread}]
      /\ k.lock \in [Mutexes -> Nat] /\ k.holder \in [Mutexes -> Threads \cup {NoThread}]
      /\ k.mprio \in [Mutexes -> Prios]
      /\ k.signaled \in [Events \cup Timers -> BOOLEAN]
      /\ k.exited \in [Procs -> BOOLEAN] /\ k.runsOn \subseteq Cores
      /\ k.crashed \in BOOLEAN
  BY DEF KStates
<1>6. k.count \in [Semaphores -> MinWord .. MaxWord]
  <2>1. k.count \in [Semaphores -> Counts]
    BY DEF KStates
  <2> QED
    BY <2>1, CountsFacts
<1> QED
  BY <1>1, <1>2, <1>3, <1>4, <1>5, <1>6 DEF TypeOK

LEMMA InvWaitLists ==
  ASSUME KInv(k)
  PROVE  WaitListsAgree
<1>1. k \in KStates /\ Waits(k, NoThread)
  BY InvMid DEF Mid
<1>2. /\ \A o \in Objects : k.waiters[o] \in Seq(Threads)
      /\ \A t \in Threads : k.waitObjs[t] \in Seq(Objects) /\ t # NoThread
  BY <1>1, KernelAssumption DEF KStates, Objects
<1>3. \A o \in Objects : Len(k.waiters[o]) = Cardinality(ToSet(k.waiters[o]))
  BY <1>1, <1>2, DistinctLen DEF Waits
<1>4. ASSUME NEW t \in Threads, NEW o \in Objects
      PROVE  Contains(k.waiters[o], t) <=> t \in Asleep /\ Contains(k.waitObjs[t], o)
  <2>1. Contains(k.waiters[o], t) <=> o \in ToSet(k.waitObjs[t])
    BY <1>1, <1>2, ContainsIs DEF Waits
  <2>2. Contains(k.waitObjs[t], o) <=> o \in ToSet(k.waitObjs[t])
    BY <1>2, ContainsIs
  <2>3. o \in ToSet(k.waitObjs[t]) => k.waitObjs[t] # <<>>
    BY DEF ToSet
  <2>4. k.waitObjs[t] # <<>> => t \in Asleep
    BY <1>1, <1>2 DEF Waits, Asleep
  <2> QED
    BY <2>1, <2>2, <2>3, <2>4
<1> QED
  BY <1>1, <1>3, <1>4 DEF WaitListsAgree, Waits

LEMMA InvOwnership ==
  ASSUME KInv(k)
  PROVE  MutexOwnership
<1>1. k \in KStates /\ Own(k, NoThread)
  BY InvMid DEF Sound
<1>2. /\ \A m \in Mutexes : k.holder[m] \in Threads \cup {NoThread}
      /\ \A t \in Threads : t # NoThread
  BY <1>1, Kinds DEF KStates
<1>3. \A t \in Threads : t \in Live <=> Alive(k, t)
  BY DEF Live, Alive
<1> QED
  BY <1>1, <1>2, <1>3 DEF Own, MutexOwnership

LEMMA InvNoLostWakeup ==
  ASSUME KInv(k)
  PROVE  NoLostWakeup
<1>1. k \in KStates /\ NoLost(k, NoThread)
  BY InvMid DEF Mid
<1>2. ASSUME NEW t \in Threads PROVE NoThread \notin ToSet(k.waitObjs[t])
  <2>1. ToSet(k.waitObjs[t]) \subseteq Objects
    BY <1>1, WaitObjsIn
  <2>2. NoThread \notin Objects
    BY KernelAssumption
  <2> QED
    BY <2>1, <2>2
<1> QED
  BY <1>1, <1>2 DEF NoLost, NoLostWakeup, Asleep, WaitSynch

LEMMA InvInherited ==
  ASSUME KInv(k)
  PROVE  InheritedPriority
BY InvMid DEF Sound, Inherit, InheritedPriority, Best, Live, Alive

LEMMA InvNoInversion ==
  ASSUME KInv(k)
  PROVE  NoDirectInversion
<1>1. k \in KStates /\ Own(k, NoThread) /\ Inherit(k) /\ NoInv(k, NoThread, {})
  BY InvMid DEF Sound, Mid
<1>2. SUFFICES ASSUME NEW m \in Mutexes, NEW t \in ToSet(k.waiters[m]),
                      k.status[t] = "WaitSynchAny", k.held[t] = {}, k.holder[m] # NoThread
               PROVE  k.prio[k.holder[m]] <= k.prio[t]
  BY DEF NoDirectInversion
<1> DEFINE h == k.holder[m]
<1>3. h \in Threads /\ h # NoThread
  BY <1>1, <1>2 DEF KStates
<1>4. t \in Threads
  <2>1. k.waiters[m] \in Seq(Threads)
    BY <1>1 DEF KStates, Objects
  <2> QED
    BY <2>1 DEF ToSet
<1>5. k.mprio[m] <= k.prio[t]
  BY <1>1, <1>2, <1>4 DEF NoInv, NoInvAt, Pressing
<1>6. m \in k.held[h] /\ k.prio[h] = Best(k, h)
  BY <1>1, <1>3 DEF Own, Inherit
<1>7. Best(k, h) <= k.mprio[m]
  BY <1>1, <1>3, <1>6, BestType
<1>8. k.prio[h] \in Nat /\ k.mprio[m] \in Nat /\ k.prio[t] \in Nat
  BY <1>1, <1>3, <1>4, StateTypes, PriosFinite DEF KStates
<1> QED
  BY <1>5, <1>6, <1>7, <1>8

LEMMA InvReadyQueue ==
  ASSUME KInv(k)
  PROVE  ReadyQueueExact
<1>1. k \in KStates /\ Queue(k) /\ Levelled(k)
  BY InvMid DEF Sound
<1>2. SUFFICES ASSUME NEW c \in Cores
               PROVE  /\ \A p \in Prios :
                           /\ ToSet(k.ready[c][p]) =
                                {t \in Threads : /\ k.status[t] = "Ready"
                                                 /\ CoreOf[t] = c /\ k.prio[t] = p}
                           /\ Len(k.ready[c][p]) = Cardinality(ToSet(k.ready[c][p]))
                      /\ ChainInOrder(k.levels[c])
                      /\ \A t \in Threads : (k.status[t] # "Dormant" /\ CoreOf[t] = c)
                                              => k.prio[t] \in ToSet(LevelsOf(k, c))
  BY DEF ReadyQueueExact
<1>3. ASSUME NEW p \in Prios
      PROVE  /\ ToSet(k.ready[c][p]) = {t \in Threads : /\ k.status[t] = "Ready"
                                                       /\ CoreOf[t] = c /\ k.prio[t] = p}
             /\ Len(k.ready[c][p]) = Cardinality(ToSet(k.ready[c][p]))
  <2>1. k.ready[c][p] \in Seq(Threads) /\ Distinct(k.ready[c][p])
    BY <1>1 DEF KStates, Queue, QueuesDistinct
  <2>2. ToSet(k.ready[c][p]) \subseteq Threads
    BY <2>1 DEF ToSet
  <2>3. \A t \in Threads : t \in ToSet(k.ready[c][p]) <=> /\ k.status[t] = "Ready"
                                                          /\ CoreOf[t] = c /\ k.prio[t] = p
    BY <1>1 DEF Queue, QueuedRight
  <2> QED
    BY <2>1, <2>2, <2>3, DistinctLen
<1>4. ChainInOrder(k.levels[c])
  BY <1>1 DEF KStates, Chains
<1>5. ToSet(LevelsOf(k, c)) = Linked(k.levels[c])
  BY <1>1, LevelsFacts
<1>6. \A t \in Threads : (k.status[t] # "Dormant" /\ CoreOf[t] = c)
                           => k.prio[t] \in ToSet(LevelsOf(k, c))
  BY <1>1, <1>5 DEF Levelled
<1> QED
  BY <1>3, <1>4, <1>6

LEMMA InvNothingLeft ==
  ASSUME KInv(k)
  PROVE  NothingLeftOfAWait
BY InvMid DEF Sound, Timed, NothingLeftOfAWait

LEMMA InvNoAssert ==
  ASSUME KInv(k)
  PROVE  NoAssertFails
BY InvMid DEF Sound, NoAssertFails

LEMMA InvBest ==
  ASSUME KInv(k)
  PROVE  BestThreadRuns
BY RescheduledFacts DEF BestThreadRuns

-----------------------------------------------------------------------------
(* Whatever the guest does, the faults of Faults and repeated handles       *)
(* included, no handler leaves the kernel state malformed: every field of   *)
(* thread.cpp, mutex.cpp, semaphore.cpp, event.cpp and timer.cpp keeps its  *)
(* type, the available count of a semaphore within an s32.                  *)
THEOREM KernelTyped == Spec => []TypeOK
<1>1. Init => k \in KStates
  BY InitType
<1>2. k \in KStates /\ [Next]_k => (k \in KStates)'
  BY NextType
<1>3. k \in KStates => TypeOK
  BY InvTypeOK
<1> QED
  BY <1>1, <1>2, <1>3, PTL DEF Spec

LEMMA KernelInvariant ==
  ASSUME ProperGuest
  PROVE  Spec => []KInv(k)
<1>1. Init => KInv(k)
  BY InitInv
<1>2. KInv(k) /\ [Next]_k => KInv(k)'
  BY NextKept DEF KeptStep, Kept
<1> QED
  BY <1>1, <1>2, PTL DEF Spec

(* WaitSynchronization1, WaitSynchronizationN, the wakeups, the timeouts    *)
(* and Stop keep the waiting list of every object and the wait objects of   *)
(* every thread in agreement, each thread once on a list, and the pending   *)
(* mutexes with them.                                                       *)
THEOREM WaitListsAlwaysAgree ==
  ASSUME ProperGuest
  PROVE  Spec => []WaitListsAgree
<1>1. KInv(k) => WaitListsAgree
  BY InvWaitLists
<1> QED
  BY <1>1, KernelInvariant, PTL

(* No handler leaves a thread asleep on objects that would let it go on:    *)
(* WakeupAllWaitingThreads wakes whomever the change of an object frees,    *)
(* for any number of waiting threads, objects and priorities.               *)
THEOREM NoWakeupIsLost ==
  ASSUME ProperGuest
  PROVE  Spec => []NoLostWakeup
<1>1. KInv(k) => NoLostWakeup
  BY InvNoLostWakeup
<1> QED
  BY <1>1, KernelInvariant, PTL

(* holding_thread, lock_count and held_mutexes agree after any sequence of  *)
(* Acquire, Release and Stop, and the holder of a mutex is alive.           *)
THEOREM MutexesOwned ==
  ASSUME ProperGuest
  PROVE  Spec => []MutexOwnership
<1>1. KInv(k) => MutexOwnership
  BY InvOwnership
<1> QED
  BY <1>1, KernelInvariant, PTL

(* The current priority of a live thread is what UpdatePriority would       *)
(* compute now: no call that changes a nominal priority, a mutex priority   *)
(* or the set of held mutexes forgets the update.                           *)
THEOREM PriorityInherited ==
  ASSUME ProperGuest
  PROVE  Spec => []InheritedPriority
<1>1. KInv(k) => InheritedPriority
  BY InvInherited
<1> QED
  BY <1>1, KernelInvariant, PTL

(* A thread that holds no mutex never waits for a holder of worse priority. *)
THEOREM NoInversion ==
  ASSUME ProperGuest
  PROVE  Spec => []NoDirectInversion
<1>1. KInv(k) => NoDirectInversion
  BY InvNoInversion
<1> QED
  BY <1>1, KernelInvariant, PTL

(* The ready queues hold exactly the ready threads, once, on the level of   *)
(* their priority, and every such level is linked in order.                 *)
THEOREM ReadyQueuesExact ==
  ASSUME ProperGuest
  PROVE  Spec => []ReadyQueueExact
<1>1. KInv(k) => ReadyQueueExact
  BY InvReadyQueue
<1> QED
  BY <1>1, KernelInvariant, PTL

(* No timeout and no callback outlives its wait. *)
THEOREM WaitsLeaveNothing ==
  ASSUME ProperGuest
  PROVE  Spec => []NothingLeftOfAWait
<1>1. KInv(k) => NothingLeftOfAWait
  BY InvNothingLeft
<1> QED
  BY <1>1, KernelInvariant, PTL

(* No ASSERT of thread.cpp, mutex.cpp, semaphore.cpp and process.cpp fails, *)
(* and no search of a ready queue follows a null pointer.                   *)
THEOREM AssertsHold ==
  ASSUME ProperGuest
  PROVE  Spec => []NoAssertFails
<1>1. KInv(k) => NoAssertFails
  BY InvNoAssert
<1> QED
  BY <1>1, KernelInvariant, PTL

(* PopNextReadyThread and SwitchContext leave the best schedulable thread   *)
(* of the core running, and no ready thread out of its queue, whatever the  *)
(* core ran before.                                                         *)
THEOREM BestThreadAlwaysRuns ==
  ASSUME ProperGuest
  PROVE  Spec => []BestThreadRuns
<1>1. KInv(k) => BestThreadRuns
  BY InvBest
<1> QED
  BY <1>1, KernelInvariant, PTL

(* On any number of cores, whatever threads are created, exit and are       *)
(* terminated, Stop and CreateThread keep the count of the resource limit   *)
(* in step with the threads of each process, but for the two steps that     *)
(* ThreadCountKept names.                                                   *)
THEOREM ThreadsCounted ==
  ASSUME ProperGuest
  PROVE  Spec => ThreadCountKept
<1> DEFINE Step == \/ \A p \in Procs : Drift(k', p) = Drift(k, p)
                   \/ \E c \in Cores, t \in Threads, p \in NewPrios : CreateThread(c, t, p, FALSE)
                   \/ \E c, d \in Cores, p \in Procs :
                        /\ TerminateProcess(c, p)
                        /\ k.cur[d] # NoThread /\ ProcOf[k.cur[d]] = p /\ k.status[k.cur[d]] = "Dead"
<1>1. KInv(k) /\ [Next]_k => Step
  BY NextKept DEF KeptStep, Kept, SameDrift, Recounts, StopsAgain
<1>2. KInv(k) /\ [Next]_k => [Step]_k
  BY <1>1
<1> QED
  BY <1>2, KernelInvariant, PTL DEF Spec, ThreadCountKept

(* Nothing brings a dead thread back: not a wakeup of what it waited for, a *)
(* timeout that was scheduled before it ended, a switch of context on the   *)
(* core it was current on, nor a creation.                                  *)
THEOREM TheDeadStayDead ==
  ASSUME ProperGuest
  PROVE  Spec => DeadStayDead
<1>1. KInv(k) /\ [Next]_k => \A t \in Threads : k.status[t] = "Dead" => k'.status[t] = "Dead"
  BY NextKept DEF KeptStep, Kept, Lasting
<1>2. KInv(k) /\ [Next]_k => [\A t \in Threads : k.status[t] = "Dead" => k'.status[t] = "Dead"]_k
  BY <1>1
<1> QED
  BY <1>2, KernelInvariant, PTL DEF Spec, DeadStayDead

(* A mutex leaves the thread that holds it in two ways only: the thread     *)
(* ends, or calls ReleaseMutex and undoes its last lock.  No wakeup, no     *)
(* wait for all of several objects, no timeout and no call of another       *)
(* thread takes it away.                                                    *)
THEOREM MutexesAreNotTaken ==
  ASSUME ProperGuest
  PROVE  Spec => OnlyHolderReleases
<1> DEFINE A == \A m \in Mutexes, t \in Threads :
                  k.holder[m] = t /\ k'.holder[m] # t =>
                    \/ k'.status[t] = "Dead"
                    \/ k.lock[m] = 1 /\ \E c \in Cores : Caller(c) = t /\ ReleaseMutex(c, m)
<1>1. ASSUME KInv(k), [Next]_k PROVE A
  <2>1. PICK M \in SUBSET Mutexes : Kept(k, k', M) /\ GaveUp(M)
    BY <1>1, NextKept DEF KeptStep
  <2>2. ASSUME NEW m \in Mutexes, NEW t \in Threads, k.holder[m] = t, k'.holder[m] # t,
               k'.status[t] # "Dead"
        PROVE  k.lock[m] = 1 /\ \E c \in Cores : Caller(c) = t /\ ReleaseMutex(c, m)
    <3>1. m \in M
      BY <2>1, <2>2 DEF Kept, Holding
    <3> QED
      BY <2>1, <2>2, <3>1 DEF GaveUp
  <2> QED
    BY <2>2
<1>2. KInv(k) /\ [Next]_k => [A]_k
  BY <1>1
<1> QED
  BY <1>2, KernelInvariant, PTL DEF Spec, OnlyHolderReleases
=============================================================================
