--------------------------- MODULE CoreTimingProofs ---------------------------
(***************************************************************************)
(* Proofs about CoreTiming: the pump is armed exactly once, no core is     *)
(* given an empty slice, the cores stay together and events are dispatched *)
(* on time, for any number of cores, events, delays and loads.             *)
(***************************************************************************)
EXTENDS CoreTiming, FiniteSetTheorems, SequenceTheorems, WellFoundedInduction, TLAPS

-----------------------------------------------------------------------------
(* The inductive invariant. *)

Hows == {"own", "late", "cross", "async", "loaded"}
EventSet == [id : Events, time : Int, how : Hows]

(* event_queue: the earliest event first. *)
Sorted(q) == \A i, j \in DOMAIN q : i <= j => q[i].time <= q[j].time
HeapSet == {q \in Seq(EventSet) : Sorted(q)}

PCs == {"start", "sync", "syncing", "advance", "advancing", "slice", "run", "call",
        "called", "ran", "loading", "restoring", "rearm", "split"}
LocSet == [core : 0 .. NumCores, global : Int, delay : Int, maxDelay : Nat, victim : Cores,
           maxSlice : Int, start : Int, alone : BOOLEAN]
ClockSet == [Cores -> Nat]
SnapSet == [heap : [Cores -> HeapSet], exec : ClockSet, slice : ClockSet,
            down : [Cores -> Int], current : Cores]

(* downcount lies between an overshoot and the slice. *)
InSlice(s, d) == \A c \in Cores : -Overshoot <= d[c] /\ d[c] <= s[c]

QueueTypes == heap \in [Cores -> HeapSet] /\ ts \in [Cores -> Seq(EventSet)]

ClockTypes ==
  /\ exec \in ClockSet /\ slice \in ClockSet /\ down \in [Cores -> Int]
  /\ InSlice(slice, down)
  /\ sane \in [Cores -> BOOLEAN]

ControlTypes == locked \in BOOLEAN /\ current \in Cores /\ pc \in PCs /\ loc \in LocSet

FileTypes ==
  /\ snap \in SnapSet /\ InSlice(snap.slice, snap.down)
  /\ loads \in 0 .. MaxLoads

Types == QueueTypes /\ ClockTypes /\ ControlTypes /\ FileTypes

(* Where the pump is: never in a thread-safe queue, and in one heap once. *)
NoPump(q) == \A i \in DOMAIN q : q[i].id # Pump
OnePump(q) == \E i \in DOMAIN q : /\ q[i].id = Pump
                                  /\ \A j \in DOMAIN q : q[j].id = Pump => j = i
Armed(h) == \E c \in Cores : OnePump(h[c]) /\ \A d \in Cores \ {c} : NoPump(h[d])

Pumps ==
  /\ \A c \in Cores : NoPump(ts[c])
  /\ pc \notin {"loading", "restoring", "rearm", "split"} => Armed(heap)
  /\ locked => pc = "restoring"

(* Every event of the core is in its future. *)
Future(c) == \A x \in ToSet(heap[c]) : x.time > exec[c]

Running == {"run", "call", "called", "ran"}

(* Cores that were advanced and have no slice yet. *)
Idling(c) ==
  \/ pc = "advance" /\ c < loc.core
  \/ pc = "advancing" /\ c < loc.core
  \/ pc = "slice" /\ c >= loc.core
  \/ pc \in Running /\ ~loc.alone /\ c > loc.core

(* The core inside Advance. *)
Advancing(c) == pc \in {"syncing", "advancing"} /\ c = loc.core

IdlingCores ==
  \A c \in Cores : Idling(c) => Future(c) /\ slice[c] = 0 /\ down[c] = 0 /\ ~sane[c]

AdvancingCore ==
  /\ \A c \in Cores : Advancing(c) => slice[c] = 0 /\ down[c] = 0 /\ current = c
  /\ pc = "syncing" => loc.delay > 0

LocalCore == pc \in {"syncing", "advancing", "slice"} \cup Running => loc.core \in Cores

(* The core that will run alone has a slice. *)
Victim ==
  pc \in {"sync", "syncing"} /\ loc.maxDelay > 0 =>
    /\ loc.victim < loc.core
    /\ ~sane[loc.victim] /\ down[loc.victim] > 0
    /\ slice[loc.victim] = down[loc.victim] /\ slice[loc.victim] <= loc.maxDelay

CommonSlice ==
  /\ pc \in {"advance", "advancing", "slice"} => loc.maxSlice > 0 /\ ~loc.alone
  /\ pc \in {"advance", "advancing"} => loc.maxSlice <= MaxSlice

RunningCore ==
  pc \in Running =>
    /\ ~sane[loc.core] /\ current = loc.core
    /\ pc = "run" => down[loc.core] > 0
    /\ pc # "run" => down[loc.core] < slice[loc.core]
    /\ ~loc.alone => loc.start = exec[loc.core]

Phases == IdlingCores /\ AdvancingCore /\ LocalCore /\ Victim /\ CommonSlice /\ RunningCore

-----------------------------------------------------------------------------
(* Before the first load. *)

(* The ticks of a core, whatever is_timer_sane says. *)
Clock(c) == exec[c] + (slice[c] - down[c])

(* k overshoots. *)
Over(k) == k * Overshoot

(* By how much the k-th fastest core may be behind the fastest one. *)
Reach(k) == MinDelay + MaxSlice + Over(k)

Ranks == {r \in [Cores -> 1 .. NumCores] : \A c, d \in Cores : r[c] = r[d] => c = d}

(* f has every core at most at top, and behind it as its rank allows. *)
Spread(f, top, r) == \A c \in Cores : f[c] <= top /\ top - f[c] <= Reach(r[c])

ClockFcn == [c \in Cores |-> Clock(c)]

(* Between two rounds. *)
TogetherStart ==
  pc = "start" => \E d \in Cores, r \in Ranks : Spread(ClockFcn, Clock(d), r)

(* While the cores catch up. *)
TogetherSync ==
  pc \in {"sync", "syncing"} =>
    /\ \E d \in Cores, r \in Ranks : Clock(d) = loc.global /\ Spread(ClockFcn, Clock(d), r)
    /\ pc = "syncing" => loc.delay = loc.global - Clock(loc.core)
    /\ \A c \in Cores : c < loc.core => loc.global - Clock(c) <= loc.maxDelay
    /\ loc.maxDelay > 0 => loc.maxDelay = loc.global - Clock(loc.victim)

(* A round in which all cores run. *)
TogetherAdvance ==
  pc \in {"advance", "advancing"} => \A c, d \in Cores : Clock(c) - Clock(d) <= MinDelay

TogetherRound ==
  pc \in {"slice"} \cup Running /\ ~loc.alone => \A c, d \in Cores : exec[c] - exec[d] <= MinDelay

(* The slowest core runs alone, up to the fastest one. *)
Slowest(v, d, r) ==
  /\ d # v /\ exec[v] + slice[v] <= Clock(d)
  /\ \A c \in Cores : c # v => exec[v] <= Clock(c) /\ Clock(c) <= Clock(d)
                                                  /\ Clock(d) - Clock(c) <= Reach(r[c])
  /\ Clock(d) - exec[v] <= Reach(r[v])

TogetherAlone ==
  pc \in Running /\ loc.alone => \E d \in Cores, r \in Ranks : Slowest(loc.core, d, r)

Together == TogetherStart /\ TogetherSync /\ TogetherAdvance /\ TogetherRound /\ TogetherAlone

(* What the cores of a round have run, each not longer than the one before *)
(* but for an overshoot.                                                   *)
Ran(c) == slice[c] - down[c]

HasRun(c) == c < loc.core \/ (c = loc.core /\ pc \in Running)

(* The core c has at most n ticks. *)
Fits(c, n) ==
  /\ n <= MaxSlice + Over(c)
  /\ \A b \in Cores : b < c => n <= Ran(b) + Over(c - 1 - b)

Rounds ==
  pc \in {"slice"} \cup Running /\ ~loc.alone =>
    /\ \A c \in Cores : HasRun(c) =>
         /\ Ran(c) >= 0 /\ Ran(c) <= MaxSlice + Over(c + 1)
         /\ \A b \in Cores : b < c => Ran(c) <= Ran(b) + Over(c - b)
    /\ pc = "slice" => Fits(loc.core, loc.maxSlice)
    /\ pc \in Running => Fits(loc.core, slice[loc.core])

(* No core has a slice beyond an event it scheduled for itself. *)
OwnBound(c, x) ==
  IF Advancing(c) THEN exec[c] - x.time <= Overshoot ELSE exec[c] + slice[c] <= x.time

EventsInTime(c) ==
  /\ \A x \in ToSet(heap[c]) : x.how = "own" => OwnBound(c, x)
  /\ \A x \in ToSet(ts[c]) : x.how # "own"

Slices ==
  \A c \in Cores : (sane[c] => slice[c] = down[c]) /\ slice[c] <= MaxSlice + Drift

Early ==
  /\ pc \notin {"loading", "restoring", "rearm", "split"}
  /\ Slices /\ Together /\ Rounds
  /\ \A c \in Cores : EventsInTime(c)

Unloaded == loads = 0 => Early

Basic == Types /\ Pumps /\ Phases

IInv == Basic /\ Unloaded

-----------------------------------------------------------------------------
(* Induction along a queue, and the loops over one. *)

LEMMA Least ==
  ASSUME NEW T \in SUBSET Nat, T # {}
  PROVE  \E n \in T : \A m \in T : n <= m
<1>1. PICK n \in T : \A m \in T : ~(<<m, n>> \in OpToRel(<, Nat))
  BY WFMin, NatLessThanWellFounded
<1>2. \A m \in T : ~(m < n)
  BY <1>1 DEF OpToRel
<1> QED
  BY <1>2

(* A set that holds 0 and, with a number below n, the next one holds n. *)
Inductive(T, n) == 0 \in T /\ \A i \in 1 .. n : i - 1 \in T => i \in T

LEMMA UpTo ==
  ASSUME NEW n \in Nat, NEW T, Inductive(T, n)
  PROVE  n \in T
<1> USE DEF Inductive
<1> SUFFICES ASSUME n \notin T PROVE FALSE
  OBVIOUS
<1> DEFINE F == {i \in 0 .. n : i \notin T}
<1>1. F \in SUBSET Nat /\ F # {}
  OBVIOUS
<1>2. PICK k \in F : \A m \in F : k <= m
  BY <1>1, Least
<1>3. k \in 1 .. n /\ k - 1 \in 0 .. n
  BY <1>2
<1>4. k - 1 \in T
  BY <1>2, <1>3
<1> QED
  BY <1>2, <1>3, <1>4

(* A loop of n steps from a has a value after each step. *)
IsLoop(f, n, S, a, step) ==
  f \in [0 .. n -> S] /\ f[0] = a /\ \A i \in 1 .. n : f[i] = step[<<i, f[i - 1]>>]

LEMMA LoopExists ==
  ASSUME NEW n \in Nat, NEW S, NEW a \in S, NEW step \in [(1 .. n) \X S -> S]
  PROVE  \E f : IsLoop(f, n, S, a, step)
<1> DEFINE Part(m, f) == f[0] = a /\ \A i \in 1 .. m : f[i] = step[<<i, f[i - 1]>>]
           T == {m \in 0 .. n : \E f \in [0 .. m -> S] : Part(m, f)}
<1>1. 0 \in T
  <2> DEFINE f == [i \in 0 .. 0 |-> a]
  <2>1. f \in [0 .. 0 -> S] /\ Part(0, f)
    OBVIOUS
  <2> HIDE DEF f
  <2> QED
    BY <2>1
<1>2. ASSUME NEW m \in 1 .. n, m - 1 \in T PROVE m \in T
  <2>1. PICK f \in [0 .. m - 1 -> S] : Part(m - 1, f)
    BY <1>2
  <2> DEFINE v == step[<<m, f[m - 1]>>]
             g == [i \in 0 .. m |-> IF i = m THEN v ELSE f[i]]
  <2>2. f[m - 1] \in S /\ <<m, f[m - 1]>> \in (1 .. n) \X S
    BY <2>1
  <2>3. v \in S
    BY <2>2
  <2> HIDE DEF v
  <2>4. g \in [0 .. m -> S]
    BY <2>1, <2>3
  <2>5. g[0] = a
    BY <2>1
  <2>6. ASSUME NEW i \in 1 .. m PROVE g[i] = step[<<i, g[i - 1]>>]
    <3>1. CASE i = m
      <4>1. g[i] = v /\ g[i - 1] = f[m - 1]
        BY <3>1
      <4> QED
        BY <4>1, <3>1 DEF v
    <3>2. CASE i # m
      <4>1. i \in 1 .. m - 1 /\ g[i] = f[i] /\ g[i - 1] = f[i - 1]
        BY <3>2
      <4>2. f[i] = step[<<i, f[i - 1]>>]
        BY <4>1, <2>1
      <4> QED
        BY <4>1, <4>2
    <3> QED
      BY <3>1, <3>2
  <2> HIDE DEF g
  <2> QED
    BY <2>4, <2>5, <2>6
<1> HIDE DEF T
<1>3. n \in T
  BY <1>1, <1>2, UpTo DEF Inductive
<1> QED
  BY <1>3 DEF T, IsLoop

-----------------------------------------------------------------------------
(* Heaps. *)

(* Where Push puts an event: behind every event that is not later. *)
Placed(q, x, p, n) ==
  /\ p \in Seq(EventSet) /\ Len(p) = Len(q) + 1
  /\ \A i \in 1 .. n : q[i].time <= x.time /\ p[i] = q[i]
  /\ p[n + 1] = x
  /\ \A i \in n + 1 .. Len(q) : q[i].time > x.time /\ p[i + 1] = q[i]

Inserted(q, x, n) == SubSeq(q, 1, n) \o <<x>> \o SubSeq(q, n + 1, Len(q))

IsInserted(p, S, q, x, n) ==
  /\ p \in Seq(S) /\ Len(p) = Len(q) + 1
  /\ \A i \in 1 .. n : p[i] = q[i]
  /\ p[n + 1] = x
  /\ \A i \in n + 1 .. Len(q) : p[i + 1] = q[i]

LEMMA InsertFacts ==
  ASSUME NEW S, NEW q \in Seq(S), NEW x \in S, NEW n \in 0 .. Len(q)
  PROVE  IsInserted(Inserted(q, x, n), S, q, x, n)
<1> DEFINE a == SubSeq(q, 1, n)
           b == SubSeq(q, n + 1, Len(q))
           d == a \o <<x>>
           p == d \o b
<1>1. Len(q) \in Nat /\ DOMAIN q = 1 .. Len(q) /\ \A i \in 1 .. Len(q) : q[i] \in S
  OBVIOUS
<1>2. a \in Seq(S) /\ Len(a) = n /\ \A i \in 1 .. n : a[i] = q[i]
  BY <1>1, SubSeqProperties
<1>3. n + 1 \in Int /\ Len(q) \in Int /\ \A i \in n + 1 .. Len(q) : q[i] \in S
  BY <1>1
<1>4. /\ b \in Seq(S)
      /\ Len(b) = IF n + 1 <= Len(q) THEN Len(q) - (n + 1) + 1 ELSE 0
      /\ \A i \in 1 .. Len(q) - (n + 1) + 1 : b[i] = q[n + 1 + i - 1]
  BY <1>3, SubSeqProperties
<1> HIDE DEF a, b
<1> DEFINE k == Len(q)
<1>a. k \in Nat /\ n \in Nat /\ n <= k
  BY <1>1
<1>b. /\ Len(b) = IF n + 1 <= k THEN k - (n + 1) + 1 ELSE 0
      /\ \A i \in 1 .. k - (n + 1) + 1 : b[i] = q[n + 1 + i - 1]
  BY <1>4
<1> HIDE DEF k
<1>5. Len(b) = k - n
  BY <1>a, <1>b
<1>6. \A i \in 1 .. k - n : b[i] = q[n + i]
  <2> TAKE i \in 1 .. k - n
  <2>1. i \in 1 .. k - (n + 1) + 1 /\ n + 1 + i - 1 = n + i
    BY <1>a
  <2> QED
    BY <2>1, <1>b
<1>7. <<x>> \in Seq(S) /\ Len(<<x>>) = 1 /\ <<x>>[1] = x
  OBVIOUS
<1>8. d \in Seq(S) /\ Len(d) = n + 1
  BY <1>2, <1>7, ConcatProperties
<1>9. \A i \in 1 .. n : d[i] = q[i]
  BY <1>2, <1>7, ConcatProperties
<1>10. d[n + 1] = x
  BY <1>2, <1>7, <1>1, ConcatProperties
<1> HIDE DEF d
<1>11. /\ p \in Seq(S) /\ Len(p) = Len(d) + Len(b)
       /\ \A i \in 1 .. Len(d) + Len(b) : p[i] = IF i <= Len(d) THEN d[i] ELSE b[i - Len(d)]
  BY <1>4, <1>8, ConcatProperties
<1> HIDE DEF p
<1>12. Len(p) = k + 1 /\ \A i \in 1 .. n + 1 : p[i] = d[i]
  BY <1>a, <1>5, <1>8, <1>11
<1>13. \A i \in n + 1 .. k : p[i + 1] = q[i]
  <2> TAKE i \in n + 1 .. k
  <2> DEFINE j == i + 1
  <2>1. /\ j \in 1 .. Len(d) + Len(b) /\ ~(j <= Len(d))
        /\ i - n \in 1 .. k - n /\ j - Len(d) = i - n /\ n + (i - n) = i
    BY <1>a, <1>5, <1>8
  <2> HIDE DEF j
  <2>2. p[j] = b[j - Len(d)]
    BY <2>1, <1>11
  <2>3. b[i - n] = q[n + (i - n)]
    BY <2>1, <1>6
  <2> QED
    BY <2>1, <2>2, <2>3 DEF j
<1>14. Inserted(q, x, n) = p
  BY DEF p, a, b, d, Inserted
<1> QED
  BY <1>9, <1>10, <1>11, <1>12, <1>13, <1>14 DEF k, IsInserted

LEMMA PushPlaces ==
  ASSUME NEW q, q \in HeapSet, NEW x \in EventSet
  PROVE  \E n \in 0 .. Len(q) : Placed(q, x, Push(q, x), n)
<1> USE DEF HeapSet
<1> DEFINE L == {i \in DOMAIN q : q[i].time <= x.time}
           F == {i \in 1 .. Len(q) + 1 : i = Len(q) + 1 \/ ~(q[i].time <= x.time)}
<1>1. Len(q) \in Nat /\ DOMAIN q = 1 .. Len(q) /\ \A i \in 1 .. Len(q) : q[i] \in EventSet
  OBVIOUS
<1>2. F \in SUBSET Nat /\ F # {}
  BY <1>1
<1>3. PICK k \in F : \A m \in F : k <= m
  BY <1>2, Least
<1> DEFINE n == k - 1
<1>4. n \in 0 .. Len(q)
  BY <1>3, <1>1
<1>5. \A i \in 1 .. n : q[i].time <= x.time
  BY <1>3, <1>1
<1>6. \A i \in n + 1 .. Len(q) : q[i].time > x.time
  <2>1. CASE k = Len(q) + 1
    BY <2>1, <1>1
  <2>2. CASE k # Len(q) + 1
    <3>1. k \in DOMAIN q /\ ~(q[k].time <= x.time)
      BY <2>2, <1>3, <1>1
    <3>2. ASSUME NEW i \in n + 1 .. Len(q) PROVE q[i].time > x.time
      <4>1. i \in DOMAIN q /\ k <= i
        BY <1>1, <1>3
      <4>2. q[k].time <= q[i].time
        BY <3>1, <4>1 DEF Sorted
      <4>3. q[k].time \in Int /\ q[i].time \in Int /\ x.time \in Int
        BY <3>1, <4>1, <1>1 DEF EventSet
      <4> QED
        BY <3>1, <4>2, <4>3
    <3> QED
      BY <3>2
  <2> QED
    BY <2>1, <2>2
<1>7. \A i \in 1 .. Len(q) : q[i].time \in Int /\ x.time \in Int
  BY <1>1 DEF EventSet
<1>8. L = 1 .. n
  BY <1>1, <1>4, <1>5, <1>6, <1>7
<1> HIDE DEF L, n
<1>9. Cardinality(L) = n
  <2>1. Cardinality(1 .. n) = n
    BY <1>4, <1>1, FS_Interval
  <2> QED
    BY <1>8, <2>1
<1>10. Push(q, x) = Inserted(q, x, n)
  BY <1>9 DEF Push, L, Inserted
<1>11. IsInserted(Inserted(q, x, n), EventSet, q, x, n)
  BY <1>4, InsertFacts
<1>12. Placed(q, x, Inserted(q, x, n), n)
  BY <1>5, <1>6, <1>11 DEF Placed, IsInserted
<1> QED
  BY <1>4, <1>10, <1>12

(* A queue that differs from q in events other than the pump. *)
SamePump(p, q) == (NoPump(q) => NoPump(p)) /\ (OnePump(q) => OnePump(p))

LEMMA PushHeap ==
  ASSUME NEW q, q \in HeapSet, NEW x \in EventSet
  PROVE  /\ Push(q, x) \in HeapSet
         /\ ToSet(Push(q, x)) = ToSet(q) \cup {x}
<1> DEFINE p == Push(q, x)
<1>1. PICK n \in 0 .. Len(q) : Placed(q, x, p, n)
  BY PushPlaces
<1> HIDE DEF p
<1>2. q \in Seq(EventSet) /\ Len(q) \in Nat /\ DOMAIN q = 1 .. Len(q) /\ n \in Nat /\ n <= Len(q)
  BY DEF HeapSet
<1>3. DOMAIN p = 1 .. Len(q) + 1
  BY <1>1, <1>2 DEF Placed
<1>4. /\ \A i \in 1 .. n : p[i] = q[i] /\ q[i].time <= x.time
      /\ p[n + 1] = x
      /\ \A i \in n + 1 .. Len(q) : p[i + 1] = q[i] /\ q[i].time > x.time
  BY <1>1 DEF Placed
<1>5. \A i \in DOMAIN q : q[i].time \in Int
  <2>1. \A i \in DOMAIN q : q[i] \in EventSet
    BY <1>2
  <2> QED
    BY <2>1 DEF EventSet
<1>6. x.time \in Int
  BY DEF EventSet
<1>7. \A i, j \in DOMAIN q : i <= j => q[i].time <= q[j].time
  BY DEF HeapSet, Sorted
<1>8. ASSUME NEW i \in DOMAIN p
      PROVE  \/ i \in 1 .. n /\ i \in DOMAIN q /\ p[i] = q[i]
             \/ i = n + 1 /\ p[i] = x
             \/ i - 1 \in n + 1 .. Len(q) /\ i - 1 \in DOMAIN q /\ p[i] = q[i - 1]
  <2>1. CASE i <= n
    BY <2>1, <1>2, <1>3, <1>4
  <2>2. CASE i = n + 1
    BY <2>2, <1>4
  <2>3. CASE i > n + 1
    <3> DEFINE j == i - 1
    <3>1. j \in n + 1 .. Len(q) /\ j \in DOMAIN q /\ i = j + 1
      BY <2>3, <1>2, <1>3
    <3> HIDE DEF j
    <3>2. p[j + 1] = q[j]
      BY <3>1, <1>4
    <3> QED
      BY <3>1, <3>2 DEF j
  <2> QED
    BY <2>1, <2>2, <2>3, <1>2, <1>3
<1>9. ASSUME NEW i \in DOMAIN p, NEW j \in DOMAIN p, i <= j PROVE p[i].time <= p[j].time
  <2>0. i \in Int /\ j \in Int /\ i <= j
    BY <1>3, <1>9
  <2>1. CASE i \in 1 .. n /\ i \in DOMAIN q /\ p[i] = q[i]
    <3>1. p[i].time <= x.time
      BY <2>1, <1>4
    <3>2. CASE j \in 1 .. n /\ j \in DOMAIN q /\ p[j] = q[j]
      BY <2>1, <3>2, <1>7, <1>9
    <3>3. CASE j = n + 1 /\ p[j] = x
      BY <3>1, <3>3
    <3>4. CASE j - 1 \in n + 1 .. Len(q) /\ j - 1 \in DOMAIN q /\ p[j] = q[j - 1]
      <4>1. i <= j - 1
        BY <2>1, <3>4, <1>2
      <4> QED
        BY <2>1, <3>4, <4>1, <1>7
    <3> QED
      BY <1>8, <3>2, <3>3, <3>4
  <2>2. CASE i = n + 1 /\ p[i] = x
    <3>1. CASE j = n + 1
      BY <2>2, <3>1, <1>6
    <3>2. CASE j - 1 \in n + 1 .. Len(q) /\ j - 1 \in DOMAIN q /\ p[j] = q[j - 1]
      <4>1. q[j - 1].time > x.time
        BY <3>2, <1>4
      <4> QED
        BY <2>2, <3>2, <4>1, <1>5, <1>6
    <3> QED
      BY <1>8, <2>0, <2>2, <3>1, <3>2, <1>2
  <2>3. CASE i - 1 \in n + 1 .. Len(q) /\ i - 1 \in DOMAIN q /\ p[i] = q[i - 1]
    <3>1. j - 1 \in n + 1 .. Len(q) /\ j - 1 \in DOMAIN q /\ p[j] = q[j - 1]
      BY <1>8, <2>0, <2>3, <1>2
    <3>2. i - 1 <= j - 1
      BY <2>0
    <3> QED
      BY <2>3, <3>1, <3>2, <1>7
  <2> QED
    BY <1>8, <2>1, <2>2, <2>3
<1>10. p \in HeapSet
  <2>1. p \in Seq(EventSet)
    BY <1>1 DEF Placed
  <2> QED
    BY <2>1, <1>9 DEF HeapSet, Sorted
<1>11. ToSet(p) \subseteq ToSet(q) \cup {x}
  BY <1>8 DEF ToSet
<1>12. ASSUME NEW i \in DOMAIN q PROVE q[i] \in ToSet(p)
  <2>1. CASE i <= n
    <3>1. i \in 1 .. n /\ i \in DOMAIN p
      BY <2>1, <1>2, <1>3
    <3> QED
      BY <3>1, <1>4 DEF ToSet
  <2>2. CASE ~(i <= n)
    <3>1. i \in n + 1 .. Len(q) /\ i + 1 \in DOMAIN p
      BY <2>2, <1>2, <1>3
    <3>2. p[i + 1] = q[i]
      BY <3>1, <1>4
    <3> QED
      BY <3>1, <3>2 DEF ToSet
  <2> QED
    BY <2>1, <2>2
<1>13. x \in ToSet(p)
  <2>1. n + 1 \in DOMAIN p
    BY <1>2, <1>3
  <2> QED
    BY <2>1, <1>4 DEF ToSet
<1>14. ToSet(q) \subseteq ToSet(p)
  BY <1>12 DEF ToSet
<1> QED
  BY <1>10, <1>11, <1>13, <1>14 DEF p

LEMMA PushPump ==
  ASSUME NEW q, q \in HeapSet, NEW x \in EventSet
  PROVE  /\ x.id # Pump => SamePump(Push(q, x), q)
         /\ x.id = Pump /\ NoPump(q) => OnePump(Push(q, x))
<1> DEFINE p == Push(q, x)
<1>1. PICK n \in 0 .. Len(q) : Placed(q, x, p, n)
  BY PushPlaces
<1> HIDE DEF p
<1>2. q \in Seq(EventSet) /\ Len(q) \in Nat /\ DOMAIN q = 1 .. Len(q) /\ n \in Nat /\ n <= Len(q)
  BY DEF HeapSet
<1>3. DOMAIN p = 1 .. Len(q) + 1
  BY <1>1, <1>2 DEF Placed
<1> DEFINE old(i) == IF i <= n THEN i ELSE i - 1
           new(i) == IF i <= n THEN i ELSE i + 1
<1>4. \A i \in DOMAIN p : i # n + 1 => old(i) \in DOMAIN q /\ p[i] = q[old(i)] /\ new(old(i)) = i
  <2> TAKE i \in DOMAIN p
  <2> HAVE i # n + 1
  <2>1. CASE i <= n
    BY <2>1, <1>1, <1>2, <1>3 DEF Placed
  <2>2. CASE i > n + 1
    <3> DEFINE j == i - 1
    <3>1. j \in n + 1 .. Len(q) /\ j \in DOMAIN q /\ i = j + 1 /\ old(i) = j /\ new(j) = i
      BY <2>2, <1>2, <1>3
    <3> HIDE DEF j
    <3>2. p[j + 1] = q[j]
      BY <3>1, <1>1 DEF Placed
    <3> HIDE DEF new, old
    <3> QED
      BY <3>1, <3>2
  <2> QED
    BY <2>1, <2>2, <1>2, <1>3
<1>5. \A i \in DOMAIN q : new(i) \in DOMAIN p /\ new(i) # n + 1 /\ p[new(i)] = q[i]
  BY <1>1, <1>2, <1>3 DEF Placed
<1>6. n + 1 \in DOMAIN p /\ p[n + 1] = x
  BY <1>1, <1>2, <1>3 DEF Placed
<1> HIDE DEF old, new
<1>7. ASSUME x.id # Pump, NoPump(q) PROVE NoPump(p)
  BY <1>4, <1>6, <1>7 DEF NoPump
<1>8. ASSUME x.id # Pump, OnePump(q) PROVE OnePump(p)
  <2>1. PICK i \in DOMAIN q : q[i].id = Pump /\ \A j \in DOMAIN q : q[j].id = Pump => j = i
    BY <1>8 DEF OnePump
  <2>2. new(i) \in DOMAIN p /\ p[new(i)].id = Pump
    BY <2>1, <1>5
  <2>3. ASSUME NEW j \in DOMAIN p, p[j].id = Pump PROVE j = new(i)
    <3>1. j # n + 1
      BY <2>3, <1>6, <1>8
    <3>2. old(j) = i /\ new(old(j)) = j
      BY <3>1, <2>1, <2>3, <1>4
    <3> QED
      BY <3>2
  <2> QED
    BY <2>2, <2>3 DEF OnePump
<1>9. ASSUME x.id = Pump, NoPump(q) PROVE OnePump(p)
  <2>1. ASSUME NEW j \in DOMAIN p, p[j].id = Pump PROVE j = n + 1
    BY <2>1, <1>4, <1>9 DEF NoPump
  <2> QED
    BY <2>1, <1>6, <1>9 DEF OnePump
<1> QED
  BY <1>7, <1>8, <1>9 DEF p, SamePump

(* MoveEvents: the events of a thread-safe queue pushed one by one. *)
LEMMA PushAllHeap ==
  ASSUME NEW q, q \in HeapSet, NEW xs \in Seq(EventSet)
  PROVE  /\ PushAll(q, xs) \in HeapSet
         /\ ToSet(PushAll(q, xs)) \subseteq ToSet(q) \cup ToSet(xs)
         /\ NoPump(xs) => SamePump(PushAll(q, xs), q)
<1> DEFINE n == Len(xs)
           Def(g) == g = [i \in 0 .. n |-> IF i = 0 THEN q ELSE Push(g[i - 1], xs[i])]
           step == [w \in (1 .. n) \X HeapSet |-> Push(w[2], xs[w[1]])]
           g == CHOOSE g : Def(g)
<1>1. n \in Nat /\ \A i \in 1 .. n : xs[i] \in EventSet /\ xs[i] \in ToSet(xs)
  BY DEF ToSet
<1>2. q \in HeapSet
  OBVIOUS
<1>3. \A h \in HeapSet, i \in 1 .. n : Push(h, xs[i]) \in HeapSet
  BY <1>1, PushHeap
<1> HIDE DEF n
<1>4. step \in [(1 .. n) \X HeapSet -> HeapSet]
  BY <1>3
<1>5. \A h \in HeapSet, i \in 1 .. n : step[<<i, h>>] = Push(h, xs[i])
  OBVIOUS
<1> HIDE DEF step
<1>0. PICK f : IsLoop(f, n, HeapSet, q, step)
  BY <1>1, <1>2, <1>4, LoopExists
<1>6. /\ f \in [0 .. n -> HeapSet]
      /\ f[0] = q /\ \A i \in 1 .. n : f[i] = step[<<i, f[i - 1]>>]
  BY <1>0 DEF IsLoop
<1>7. \A i \in 1 .. n : f[i] = Push(f[i - 1], xs[i])
  <2> TAKE i \in 1 .. n
  <2>1. f[i - 1] \in HeapSet
    BY <1>1, <1>6
  <2> QED
    BY <2>1, <1>5, <1>6
<1>8. Def(f)
  BY <1>1, <1>6, <1>7
<1>9. Def(g)
  BY <1>8
<1> HIDE DEF g
<1>10. g[0] = q /\ \A i \in 1 .. n : g[i] = Push(g[i - 1], xs[i])
  BY <1>1, <1>9
<1> DEFINE Good(h) == /\ h \in HeapSet
                      /\ ToSet(h) \subseteq ToSet(q) \cup ToSet(xs)
                      /\ NoPump(xs) => SamePump(h, q)
           T == {i \in 0 .. n : Good(g[i])}
<1>11. 0 \in T
  BY <1>1, <1>10 DEF SamePump
<1>12. ASSUME NEW i \in 1 .. n, i - 1 \in T PROVE i \in T
  <2> DEFINE h == g[i - 1]
             x == xs[i]
  <2>1. Good(h) /\ x \in EventSet /\ x \in ToSet(xs)
    BY <1>1, <1>12
  <2>2. g[i] = Push(h, x)
    BY <1>10
  <2>3. NoPump(xs) => x.id # Pump
    <3>1. i \in DOMAIN xs
      BY DEF n
    <3> QED
      BY <3>1 DEF NoPump
  <2> HIDE DEF h, x
  <2>4. Push(h, x) \in HeapSet /\ ToSet(Push(h, x)) = ToSet(h) \cup {x}
    BY <2>1, PushHeap
  <2>5. x.id # Pump => SamePump(Push(h, x), h)
    BY <2>1, PushPump
  <2>6. Good(Push(h, x))
    BY <2>1, <2>3, <2>4, <2>5 DEF SamePump
  <2> HIDE DEF Good
  <2> QED
    BY <2>2, <2>6
<1> HIDE DEF T
<1>a. Inductive(T, n)
  BY <1>11, <1>12 DEF Inductive
<1>13. n \in T
  BY <1>1, <1>a, UpTo
<1>14. Good(g[n])
  BY <1>13 DEF T
<1>15. PushAll(q, xs) = g[n]
  BY DEF PushAll, g, n
<1> QED
  BY <1>14, <1>15

LEMMA AppendFacts ==
  ASSUME NEW h \in Seq(EventSet), NEW x \in EventSet
  PROVE  /\ Append(h, x) \in Seq(EventSet) /\ ToSet(Append(h, x)) = ToSet(h) \cup {x}
         /\ Sorted(h) /\ (\A k \in DOMAIN h : h[k].time <= x.time) => Sorted(Append(h, x))
         /\ x.id # Pump => SamePump(Append(h, x), h)
         /\ x.id = Pump /\ NoPump(h) => OnePump(Append(h, x))
<1> DEFINE p == Append(h, x)
           m == Len(h)
<1>1. /\ m \in Nat /\ DOMAIN h = 1 .. m /\ DOMAIN p = 1 .. m + 1
      /\ \A k \in 1 .. m : p[k] = h[k] /\ k # m + 1
      /\ p[m + 1] = x
      /\ p \in Seq(EventSet)
  OBVIOUS
<1> HIDE DEF p, m
<1>2. \A k \in DOMAIN p : k \in DOMAIN h \/ k = m + 1
  BY <1>1
<1>3. \A k \in DOMAIN h : k \in DOMAIN p /\ p[k] = h[k] /\ k # m + 1
  BY <1>1
<1>4. m + 1 \in DOMAIN p /\ p[m + 1] = x
  BY <1>1
<1>5. ToSet(p) = ToSet(h) \cup {x}
  <2>1. \A y : y \in ToSet(p) => y \in ToSet(h) \cup {x}
    BY <1>2, <1>3, <1>4 DEF ToSet
  <2>2. \A y : y \in ToSet(h) => y \in ToSet(p)
    BY <1>3 DEF ToSet
  <2>3. x \in ToSet(p)
    BY <1>4 DEF ToSet
  <2> QED
    BY <2>1, <2>2, <2>3
<1>6. ASSUME Sorted(h), \A k \in DOMAIN h : h[k].time <= x.time PROVE Sorted(p)
  <2>1. x.time <= x.time
    BY DEF EventSet
  <2>2. \A j \in DOMAIN p : m + 1 <= j => j = m + 1
    BY <1>1
  <2> QED
    BY <1>2, <1>3, <1>4, <1>6, <2>1, <2>2 DEF Sorted
<1>7. x.id # Pump => SamePump(p, h)
  BY <1>2, <1>3, <1>4 DEF SamePump, NoPump, OnePump
<1>8. x.id = Pump /\ NoPump(h) => OnePump(p)
  BY <1>2, <1>3, <1>4 DEF NoPump, OnePump
<1> QED
  BY <1>1, <1>5, <1>6, <1>7, <1>8 DEF p

(* RemoveEvent, and UnscheduleEvent for each event of a type. *)
LEMMA EraseHeap ==
  ASSUME NEW q, q \in HeapSet, NEW e
  PROVE  /\ Erase(q, e) \in HeapSet
         /\ ToSet(Erase(q, e)) \subseteq ToSet(q)
         /\ NoPump(q) => NoPump(Erase(q, e))
         /\ e = Pump => NoPump(Erase(q, e))
         /\ e # Pump => SamePump(Erase(q, e), q)
<1> DEFINE n == Len(q)
           Def(g) == g = [i \in 0 .. n |-> IF i = 0 THEN <<>> ELSE Keep(g[i - 1], q[i], e)]
           step == [w \in (1 .. n) \X Seq(EventSet) |-> Keep(w[2], q[w[1]], e)]
           g == CHOOSE g : Def(g)
<1>1. n \in Nat /\ DOMAIN q = 1 .. n /\ \A i \in 1 .. n : q[i] \in EventSet /\ q[i] \in ToSet(q)
  BY DEF ToSet, HeapSet
<1>2. <<>> \in Seq(EventSet)
  OBVIOUS
<1>3. \A h \in Seq(EventSet), i \in 1 .. n : Keep(h, q[i], e) \in Seq(EventSet)
  BY <1>1 DEF Keep
<1> HIDE DEF n
<1>4. step \in [(1 .. n) \X Seq(EventSet) -> Seq(EventSet)]
  BY <1>3
<1>5. \A h \in Seq(EventSet), i \in 1 .. n : step[<<i, h>>] = Keep(h, q[i], e)
  OBVIOUS
<1> HIDE DEF step
<1>0. PICK f : IsLoop(f, n, Seq(EventSet), <<>>, step)
  BY <1>1, <1>2, <1>4, LoopExists
<1>6. /\ f \in [0 .. n -> Seq(EventSet)]
      /\ f[0] = <<>> /\ \A i \in 1 .. n : f[i] = step[<<i, f[i - 1]>>]
  BY <1>0 DEF IsLoop
<1>7. \A i \in 1 .. n : f[i] = Keep(f[i - 1], q[i], e)
  <2> TAKE i \in 1 .. n
  <2>1. f[i - 1] \in Seq(EventSet)
    BY <1>1, <1>6
  <2> QED
    BY <2>1, <1>5, <1>6
<1>8. Def(f)
  BY <1>1, <1>6, <1>7
<1>9. Def(g)
  BY <1>8
<1> HIDE DEF g
<1>10. /\ g[0] = <<>>
       /\ \A i \in 1 .. n : g[i] = Keep(g[i - 1], q[i], e)
  BY <1>1, <1>9
(* What is kept of the first i events: each pump among them keeps a place. *)
<1> DEFINE Good(h, i) == /\ h \in Seq(EventSet) /\ Sorted(h) /\ ToSet(h) \subseteq ToSet(q)
                         /\ i = 0 => h = <<>>
                         /\ \A k \in DOMAIN h : h[k].id # e
                         /\ i > 0 => \A k \in DOMAIN h : h[k].time <= q[i].time
                         /\ (\A k \in 1 .. i : q[k].id # Pump) => NoPump(h)
                         /\ e # Pump /\ (\E k \in 1 .. i : q[k].id = Pump) /\ OnePump(q) => OnePump(h)
           T == {i \in 0 .. n : Good(g[i], i)}
<1>11. 0 \in T
  <2>1. Good(<<>>, 0)
    BY DEF Sorted, NoPump, ToSet
  <2> HIDE DEF Good
  <2> QED
    BY <2>1, <1>1, <1>10
<1>12. ASSUME NEW i \in 1 .. n, i - 1 \in T PROVE i \in T
  <2> DEFINE h == g[i - 1]
             x == q[i]
  <2>1. Good(h, i - 1) /\ g[i] = Keep(h, x, e) /\ x \in EventSet /\ x \in ToSet(q)
    BY <1>1, <1>10, <1>12
  <2>2. \A k \in DOMAIN h : h[k].time <= x.time
    <3>1. CASE i - 1 = 0
      BY <2>1, <3>1
    <3>2. CASE i - 1 # 0
      <4>1. i - 1 > 0 /\ i - 1 \in DOMAIN q /\ i \in DOMAIN q /\ i - 1 <= i
        BY <3>2, <1>1
      <4>2. \A k \in DOMAIN h : h[k].time <= q[i - 1].time
        BY <2>1, <4>1
      <4>3. q[i - 1].time <= q[i].time
        BY <4>1 DEF HeapSet, Sorted
      <4>4. q[i - 1].time \in Int /\ q[i].time \in Int
        BY <4>1, <1>1 DEF EventSet
      <4>5. \A k \in DOMAIN h : h[k] \in EventSet
        BY <2>1
      <4>6. \A k \in DOMAIN h : h[k].time \in Int
        BY <4>5 DEF EventSet
      <4> QED
        BY <4>2, <4>3, <4>4, <4>6
    <3> QED
      BY <3>1, <3>2
  <2>3. i > 0 /\ i # 0 /\ \A k \in 1 .. i : k \in 1 .. i - 1 \/ k = i
    BY <1>1
  <2>4. i \in DOMAIN q /\ i \in 1 .. i /\ \A k \in 1 .. i - 1 : k \in DOMAIN q /\ k \in 1 .. i /\ k # i
    BY <1>1
  <2>5. Good(h, i - 1) => /\ h \in Seq(EventSet) /\ Sorted(h) /\ ToSet(h) \subseteq ToSet(q)
                          /\ \A k \in DOMAIN h : h[k].id # e
                          /\ (\A k \in 1 .. i - 1 : q[k].id # Pump) => NoPump(h)
                          /\ e # Pump /\ (\E k \in 1 .. i - 1 : q[k].id = Pump) /\ OnePump(q)
                               => OnePump(h)
    OBVIOUS
  <2> HIDE DEF h
  <2>6. CASE x.id = e
    <3>1. g[i] = h
      BY <2>1, <2>6 DEF Keep
    <3>2. (\A k \in 1 .. i : q[k].id # Pump) => NoPump(h)
      BY <2>1, <2>5, <2>4
    <3>3. e # Pump /\ (\E k \in 1 .. i : q[k].id = Pump) /\ OnePump(q) => OnePump(h)
      BY <2>1, <2>5, <2>3, <2>6
    <3>4. Good(h, i)
      BY <2>1, <2>2, <2>3, <2>5, <3>2, <3>3
    <3> HIDE DEF Good
    <3> QED
      BY <3>1, <3>4
  <2>7. CASE x.id # e
    <3> DEFINE p == Append(h, x)
    <3>1. g[i] = p
      BY <2>1, <2>7 DEF Keep
    <3>2. /\ p \in Seq(EventSet) /\ ToSet(p) = ToSet(h) \cup {x}
          /\ Sorted(p)
          /\ x.id # Pump => SamePump(p, h)
          /\ x.id = Pump /\ NoPump(h) => OnePump(p)
      BY <2>1, <2>2, <2>5, AppendFacts
    <3>3. \A k \in DOMAIN p : (k \in DOMAIN h /\ p[k] = h[k]) \/ p[k] = x
      BY <2>1, <2>5
    <3> HIDE DEF p
    <3>4. \A k \in DOMAIN p : p[k].id # e /\ p[k].time <= x.time
      <4>1. x.time <= x.time
        BY <2>1 DEF EventSet
      <4> QED
        BY <3>3, <2>1, <2>2, <2>5, <2>7, <4>1
    <3>5. (\A k \in 1 .. i : q[k].id # Pump) => NoPump(p)
      BY <2>1, <2>5, <2>4, <3>2 DEF SamePump
    <3>6. ASSUME e # Pump, \E k \in 1 .. i : q[k].id = Pump, OnePump(q) PROVE OnePump(p)
      <4>1. CASE x.id = Pump
        <5>1. \A k \in 1 .. i - 1 : q[k].id # Pump
          BY <4>1, <3>6, <2>4 DEF OnePump
        <5> QED
          BY <5>1, <4>1, <2>1, <2>5, <3>2
      <4>2. CASE x.id # Pump
        <5>1. \E k \in 1 .. i - 1 : q[k].id = Pump
          BY <4>2, <3>6, <2>3
        <5> QED
          BY <5>1, <4>2, <3>6, <2>1, <2>5, <3>2 DEF SamePump
      <4> QED
        BY <4>1, <4>2
    <3>7. ToSet(p) \subseteq ToSet(q)
      BY <2>1, <2>5, <3>2
    <3>8. Good(p, i)
      BY <2>3, <3>2, <3>4, <3>5, <3>6, <3>7
    <3> HIDE DEF Good
    <3> QED
      BY <3>1, <3>8
  <2> QED
    BY <2>6, <2>7
<1> HIDE DEF T
<1>a. Inductive(T, n)
  BY <1>11, <1>12 DEF Inductive
<1>13. n \in T
  BY <1>1, <1>a, UpTo
<1>14. Good(g[n], n)
  BY <1>13 DEF T
<1>15. Erase(q, e) = g[n]
  BY DEF Erase, g, n
<1>16. g[n] \in HeapSet /\ ToSet(g[n]) \subseteq ToSet(q)
  BY <1>14 DEF HeapSet
<1>17. NoPump(q) => NoPump(g[n])
  BY <1>1, <1>14 DEF NoPump
<1>18. e = Pump => NoPump(g[n])
  BY <1>14 DEF NoPump
<1>19. e # Pump /\ OnePump(q) => OnePump(g[n])
  <2>1. OnePump(q) => \E k \in 1 .. n : q[k].id = Pump
    BY <1>1 DEF OnePump
  <2> QED
    BY <1>14, <2>1
<1> QED
  BY <1>15, <1>16, <1>17, <1>18, <1>19 DEF SamePump

LEMMA TailHeap ==
  ASSUME NEW q, q \in HeapSet, q # <<>>
  PROVE  /\ Tail(q) \in HeapSet /\ ToSet(Tail(q)) \subseteq ToSet(q)
         /\ NoPump(q) => NoPump(Tail(q))
         /\ q[1].id = Pump /\ OnePump(q) => NoPump(Tail(q))
         /\ q[1].id # Pump => SamePump(Tail(q), q)
<1> DEFINE p == Tail(q)
           n == Len(q)
<1>1. /\ n \in Nat /\ n > 0 /\ DOMAIN q = 1 .. n /\ DOMAIN p = 1 .. n - 1
      /\ \A i \in 1 .. n - 1 : p[i] = q[i + 1]
      /\ p \in Seq(EventSet)
  BY DEF HeapSet
<1> HIDE DEF p, n
<1>2. \A i \in DOMAIN p : p[i] = q[i + 1] /\ i + 1 \in DOMAIN q /\ i + 1 # 1
  BY <1>1
<1>3. 1 \in DOMAIN q /\ \A i \in DOMAIN q : i # 1 => i - 1 \in DOMAIN p /\ p[i - 1] = q[i]
  <2>1. \A i \in DOMAIN q : i # 1 => i - 1 \in 1 .. n - 1 /\ i - 1 + 1 = i
    BY <1>1
  <2> QED
    BY <1>1, <2>1
<1>4. p \in HeapSet
  <2>1. \A i, j \in DOMAIN p : i <= j => i + 1 <= j + 1
    BY <1>1
  <2> QED
    BY <1>1, <1>2, <2>1 DEF HeapSet, Sorted
<1>5. ToSet(p) \subseteq ToSet(q)
  BY <1>2 DEF ToSet
<1>6. NoPump(q) => NoPump(p)
  BY <1>2 DEF NoPump
<1>7. q[1].id = Pump /\ OnePump(q) => NoPump(p)
  BY <1>2, <1>3 DEF NoPump, OnePump
<1>8. ASSUME q[1].id # Pump, OnePump(q) PROVE OnePump(p)
  <2>1. PICK i \in DOMAIN q : q[i].id = Pump /\ \A j \in DOMAIN q : q[j].id = Pump => j = i
    BY <1>8 DEF OnePump
  <2>2. i - 1 \in DOMAIN p /\ p[i - 1].id = Pump
    BY <2>1, <1>3, <1>8
  <2>3. \A j \in DOMAIN p : p[j].id = Pump => j + 1 = i
    BY <2>1, <1>2
  <2>4. \A j \in DOMAIN p : p[j].id = Pump => j = i - 1
    BY <2>3, <1>1
  <2> QED
    BY <2>2, <2>4 DEF OnePump
<1> QED
  BY <1>4, <1>5, <1>6, <1>7, <1>8 DEF p, SamePump

(* The first event is the earliest. *)
LEMMA FirstHeap ==
  ASSUME NEW q, q \in HeapSet, q # <<>>
  PROVE  /\ q[1] \in ToSet(q) /\ q[1] \in EventSet
         /\ \A x \in ToSet(q) : x \in EventSet /\ q[1].time <= x.time
<1>1. 1 \in DOMAIN q /\ \A i \in DOMAIN q : 1 <= i /\ q[i] \in EventSet
  BY DEF HeapSet
<1> QED
  BY <1>1 DEF HeapSet, Sorted, ToSet

LEMMA ToSetTypes ==
  ASSUME NEW q \in Seq(EventSet), NEW x \in ToSet(q)
  PROVE  x \in EventSet /\ x.time \in Int /\ x.id \in Events /\ x.how \in Hows
<1>1. x \in EventSet
  BY DEF ToSet
<1> QED
  BY <1>1 DEF EventSet

(* Another origin of the time. *)
Shifted(p, q, b) ==
  /\ DOMAIN p = DOMAIN q
  /\ \A i \in DOMAIN q : p[i] = [q[i] EXCEPT !.time = @ - b]

AllShifted(P, Q, b) == \A y \in P : \E x \in Q : y.time = x.time - b /\ y.how = x.how

LEMMA ShiftHeap ==
  ASSUME NEW q \in Seq(EventSet), NEW b \in Int, NEW p, p \in Seq(EventSet), Shifted(p, q, b)
  PROVE  /\ Sorted(q) => Sorted(p)
         /\ NoPump(q) => NoPump(p)
         /\ OnePump(q) => OnePump(p)
         /\ AllShifted(ToSet(p), ToSet(q), b)
<1>1. \A i \in DOMAIN q : q[i] \in EventSet
  OBVIOUS
<1>2. \A x \in EventSet : /\ x.time \in Int
                          /\ [x EXCEPT !.time = @ - b].time = x.time - b
                          /\ [x EXCEPT !.time = @ - b].id = x.id
                          /\ [x EXCEPT !.time = @ - b].how = x.how
  BY DEF EventSet
<1>3. /\ DOMAIN p = DOMAIN q
      /\ \A i \in DOMAIN q : /\ q[i].time \in Int /\ p[i].time = q[i].time - b
                             /\ p[i].id = q[i].id /\ p[i].how = q[i].how
  BY <1>1, <1>2 DEF Shifted
<1>4. Sorted(q) => Sorted(p)
  BY <1>3 DEF Sorted
<1>5. NoPump(q) => NoPump(p)
  BY <1>3 DEF NoPump
<1>6. OnePump(q) => OnePump(p)
  BY <1>3 DEF OnePump
<1>7. ASSUME NEW y \in ToSet(p) PROVE \E x \in ToSet(q) : y.time = x.time - b /\ y.how = x.how
  <2>1. PICK i \in DOMAIN p : y = p[i]
    BY <1>7 DEF ToSet
  <2>2. q[i] \in ToSet(q)
    BY <2>1, <1>3 DEF ToSet
  <2> QED
    BY <2>1, <2>2, <1>3
<1> QED
  BY <1>4, <1>5, <1>6, <1>7 DEF AllShifted

-----------------------------------------------------------------------------
(* Numbers. *)

LEMMA MinPair ==
  ASSUME NEW a \in Int, NEW b \in Int
  PROVE  Min({a, b}) = IF a <= b THEN a ELSE b
<1>1. \E x \in {a, b} : \A y \in {a, b} : x <= y
  OBVIOUS
<1>2. Min({a, b}) \in {a, b} /\ \A y \in {a, b} : Min({a, b}) <= y
  BY <1>1 DEF Min
<1> QED
  BY <1>2

LEMMA MaxZero ==
  ASSUME NEW b \in Int
  PROVE  Max({0, b}) = IF b >= 0 THEN b ELSE 0
<1>1. \E x \in {0, b} : \A y \in {0, b} : x >= y
  OBVIOUS
<1>2. Max({0, b}) \in {0, b} /\ \A y \in {0, b} : Max({0, b}) >= y
  BY <1>1 DEF Max
<1> QED
  BY <1>2

LEMMA CoreFacts ==
  /\ NumCores \in Nat /\ NumCores > 0 /\ 0 \in Cores /\ NumCores - 1 \in Cores
  /\ \A c \in Cores : c \in Nat /\ c < NumCores /\ c + 1 \in 0 .. NumCores /\ c \in 0 .. NumCores
  /\ \A c \in 0 .. NumCores : c # NumCores => c \in Cores
  /\ \A c \in Cores : c # NumCores - 1 => c + 1 \in Cores
  /\ MaxSlice \in Nat /\ MaxSlice > 0 /\ MinDelay \in Nat /\ Overshoot \in Nat /\ MaxLoads \in Nat
  /\ 0 \notin {NumCores}
BY TimingAssumption DEF Cores

(* A core is slowest, and another fastest. *)
LEMMA SlowestCore ==
  ASSUME NEW f \in [Cores -> Int]
  PROVE  \E d \in Cores : \A c \in Cores : f[d] <= f[c]
<1> DEFINE T == {k \in 0 .. NumCores - 1 : \E d \in 0 .. k : \A c \in 0 .. k : f[d] <= f[c]}
<1>1. NumCores - 1 \in Nat /\ Cores = 0 .. NumCores - 1
  BY CoreFacts DEF Cores
<1>2. 0 \in T
  BY <1>1
<1>3. ASSUME NEW k \in 1 .. NumCores - 1, k - 1 \in T PROVE k \in T
  <2>1. PICK d \in 0 .. k - 1 : \A c \in 0 .. k - 1 : f[d] <= f[c]
    BY <1>3
  <2>2. d \in 0 .. k /\ d \in Cores /\ k \in Cores /\ \A c \in 0 .. k : c \in Cores /\ (c \in 0 .. k - 1 \/ c = k)
    BY <1>1
  <2>3. CASE f[d] <= f[k]
    BY <2>1, <2>2, <2>3
  <2>4. CASE ~(f[d] <= f[k])
    <3>1. \A c \in 0 .. k : f[k] <= f[c]
      BY <2>1, <2>2, <2>4
    <3> QED
      BY <3>1
  <2> QED
    BY <2>3, <2>4
<1> HIDE DEF T
<1>4. NumCores - 1 \in T
  BY <1>1, <1>2, <1>3, UpTo DEF Inductive
<1> QED
  BY <1>1, <1>4 DEF T

LEMMA FastestCore ==
  ASSUME NEW f \in [Cores -> Int]
  PROVE  \E d \in Cores : \A c \in Cores : f[c] <= f[d]
<1> DEFINE g == [c \in Cores |-> -f[c]]
<1>1. g \in [Cores -> Int] /\ \A c \in Cores : g[c] = -f[c] /\ f[c] \in Int
  OBVIOUS
<1> HIDE DEF g
<1>2. PICK d \in Cores : \A c \in Cores : g[d] <= g[c]
  BY <1>1, SlowestCore
<1> QED
  BY <1>1, <1>2

LEMMA MinCores ==
  ASSUME NEW f \in [Cores -> Int]
  PROVE  \E d \in Cores : Min({f[c] : c \in Cores}) = f[d] /\ \A c \in Cores : f[d] <= f[c]
<1> DEFINE S == {f[c] : c \in Cores}
<1>1. \E x \in S : \A y \in S : x <= y
  BY SlowestCore
<1>2. Min(S) \in S /\ \A y \in S : Min(S) <= y
  BY <1>1 DEF Min
<1> QED
  BY <1>2

LEMMA MaxCores ==
  ASSUME NEW f \in [Cores -> Int]
  PROVE  \E d \in Cores : Max({f[c] : c \in Cores}) = f[d] /\ \A c \in Cores : f[c] <= f[d]
<1> DEFINE S == {f[c] : c \in Cores}
<1>1. \E x \in S : \A y \in S : x >= y
  BY FastestCore
<1>2. Max(S) \in S /\ \A y \in S : Max(S) >= y
  BY <1>1 DEF Max
<1> QED
  BY <1>2

LEMMA OverFacts ==
  /\ \A k \in Int : Over(k) \in Int /\ Over(k + 1) = Over(k) + Overshoot
  /\ Over(0) = 0 /\ Over(1) = Overshoot
  /\ \A j, k \in Int : j <= k => Over(j) <= Over(k)
  /\ Drift = MinDelay + Over(NumCores) /\ Drift \in Nat
<1>1. Overshoot \in Nat /\ MinDelay \in Nat /\ NumCores \in Nat
  BY CoreFacts
<1>2. \A k \in Int : Over(k) \in Int /\ Over(k + 1) = Over(k) + Overshoot
  BY <1>1 DEF Over
<1>3. Over(0) = 0 /\ Over(1) = Overshoot
  BY <1>1 DEF Over
<1>4. ASSUME NEW j \in Int, NEW k \in Int, j <= k PROVE Over(j) <= Over(k)
  <2>1. k - j \in Nat /\ (k - j) * Overshoot >= 0
    BY <1>1, <1>4
  <2> QED
    BY <2>1, <1>1 DEF Over
<1>5. Drift = MinDelay + Over(NumCores)
  BY DEF Drift, Over
<1>6. Over(NumCores) >= 0
  BY <1>1, <1>3, <1>4
<1>7. Drift \in Nat
  BY <1>1, <1>2, <1>5, <1>6
<1> QED
  BY <1>2, <1>3, <1>4, <1>5, <1>7

-----------------------------------------------------------------------------
(* Each action keeps the part of the invariant that holds with loads. *)
LEMMA BasicTypes ==
  ASSUME Basic
  PROVE  /\ \A c \in Cores : /\ heap[c] \in HeapSet /\ ts[c] \in Seq(EventSet)
                             /\ exec[c] \in Nat /\ slice[c] \in Nat /\ down[c] \in Int
                             /\ -Overshoot <= down[c] /\ down[c] <= slice[c]
                             /\ sane[c] \in BOOLEAN
                             /\ Clock(c) \in Int /\ Ticks(c) \in Int
         /\ loc.core \in 0 .. NumCores /\ loc.global \in Int /\ loc.delay \in Int
         /\ loc.maxDelay \in Nat /\ loc.victim \in Cores
         /\ loc.maxSlice \in Int /\ loc.start \in Int /\ loc.alone \in BOOLEAN
<1>1. /\ \A c \in Cores : /\ heap[c] \in HeapSet /\ ts[c] \in Seq(EventSet)
                          /\ exec[c] \in Nat /\ slice[c] \in Nat /\ down[c] \in Int
                          /\ -Overshoot <= down[c] /\ down[c] <= slice[c]
                          /\ sane[c] \in BOOLEAN
  BY DEF Basic, Types, QueueTypes, ClockTypes, InSlice, ClockSet
<1>2. \A c \in Cores : Clock(c) \in Int /\ Ticks(c) \in Int
  BY <1>1 DEF Clock, Ticks
<1>3. loc \in LocSet
  BY DEF Basic, Types, ControlTypes
<1> QED
  BY <1>1, <1>2, <1>3 DEF LocSet

LEMMA IdleBasic ==
  ASSUME Basic, Idle
  PROVE  Basic'
<1>1. loc.core \in Cores /\ pc = "run" /\ pc' = "ran" /\ down' = [down EXCEPT ![loc.core] = 0]
  BY DEF Basic, Phases, LocalCore, Running, Idle, UseUpSlice
<1>2. /\ heap' = heap /\ ts' = ts /\ exec' = exec /\ slice' = slice /\ sane' = sane
      /\ locked' = locked /\ current' = current /\ loc' = loc /\ snap' = snap /\ loads' = loads
  BY DEF Idle, queues, files
<1>3. /\ down' \in [Cores -> Int] /\ down'[loc.core] = 0
      /\ \A c \in Cores : c # loc.core => down'[c] = down[c]
  BY <1>1 DEF Basic, Types, ClockTypes
<1>4. \A c \in Cores : slice[c] \in Nat /\ down[c] \in Int /\ -Overshoot <= down[c] /\ down[c] <= slice[c]
  BY BasicTypes
<1>5. Types'
  <2>1. InSlice(slice', down')
    BY <1>2, <1>3, <1>4, CoreFacts DEF InSlice
  <2> QED
    BY <1>1, <1>2, <1>3, <2>1 DEF Basic, Types, QueueTypes, ClockTypes, ControlTypes, FileTypes, PCs
<1>6. Pumps'
  BY <1>1, <1>2 DEF Basic, Pumps
<1>7. IdlingCores'
  <2>1. \A c \in Cores : Idling(c)' => Idling(c) /\ c # loc.core
    BY <1>1, <1>2, CoreFacts DEF Idling, Running
  <2> QED
    BY <2>1, <1>2, <1>3 DEF Basic, Phases, IdlingCores, Future
<1>8. RunningCore'
  <2>1. /\ ~sane[loc.core] /\ current = loc.core /\ down[loc.core] > 0
        /\ ~loc.alone => loc.start = exec[loc.core]
    BY <1>1 DEF Basic, Phases, RunningCore, Running
  <2>2. down'[loc.core] < slice[loc.core]
    BY <1>1, <1>3, <1>4, <2>1
  <2> QED
    BY <1>1, <1>2, <2>1, <2>2 DEF RunningCore
<1>9. AdvancingCore' /\ LocalCore' /\ Victim' /\ CommonSlice'
  BY <1>1, <1>2 DEF AdvancingCore, Advancing, LocalCore, Victim, CommonSlice, Running
<1> QED
  BY <1>5, <1>6, <1>7, <1>8, <1>9 DEF Basic, Phases

LEMMA ExecuteBasic ==
  ASSUME Basic, Execute
  PROVE  Basic'
<1>1. loc.core \in Cores /\ pc = "run" /\ pc' = "call"
  BY DEF Basic, Phases, LocalCore, Running, Execute
<1>2. /\ heap' = heap /\ ts' = ts /\ exec' = exec /\ slice' = slice /\ sane' = sane
      /\ locked' = locked /\ current' = current /\ loc' = loc /\ snap' = snap /\ loads' = loads
  BY DEF Execute, queues, files
<1>0. PICK n \in 1 .. down[loc.core] + Overshoot : down' = [down EXCEPT ![loc.core] = @ - n]
  BY DEF Execute
<1>4. \A c \in Cores : slice[c] \in Nat /\ down[c] \in Int /\ -Overshoot <= down[c] /\ down[c] <= slice[c]
  BY BasicTypes
<1>3. /\ down' \in [Cores -> Int] /\ down'[loc.core] = down[loc.core] - n
      /\ \A c \in Cores : c # loc.core => down'[c] = down[c]
      /\ n \in Int /\ 1 <= n /\ n <= down[loc.core] + Overshoot
  BY <1>0, <1>1, <1>4, CoreFacts DEF Basic, Types, ClockTypes
<1>5. Types'
  <2>1. InSlice(slice', down')
    BY <1>1, <1>2, <1>3, <1>4, CoreFacts DEF InSlice
  <2> QED
    BY <1>1, <1>2, <1>3, <2>1 DEF Basic, Types, QueueTypes, ClockTypes, ControlTypes, FileTypes, PCs
<1>6. Pumps'
  BY <1>1, <1>2 DEF Basic, Pumps
<1>7. IdlingCores'
  <2>1. \A c \in Cores : Idling(c)' => Idling(c) /\ c # loc.core
    BY <1>1, <1>2, CoreFacts DEF Idling, Running
  <2> QED
    BY <2>1, <1>2, <1>3 DEF Basic, Phases, IdlingCores, Future
<1>8. RunningCore'
  BY <1>1, <1>2, <1>3, <1>4 DEF Basic, Phases, RunningCore, Running
<1>9. AdvancingCore' /\ LocalCore' /\ Victim' /\ CommonSlice'
  BY <1>1, <1>2 DEF AdvancingCore, Advancing, LocalCore, Victim, CommonSlice, Running
<1> QED
  BY <1>5, <1>6, <1>7, <1>8, <1>9 DEF Basic, Phases

LEMMA ProceedBasic ==
  ASSUME Basic, Proceed
  PROVE  Basic'
<1>1. /\ loc.core \in Cores /\ pc \in {"call", "called"} /\ pc' \in {"run", "ran"}
      /\ pc' = "run" => down[loc.core] > 0
  BY DEF Basic, Phases, LocalCore, Running, Proceed
<1>2. /\ heap' = heap /\ ts' = ts /\ exec' = exec /\ slice' = slice /\ sane' = sane /\ down' = down
      /\ locked' = locked /\ current' = current /\ loc' = loc /\ snap' = snap /\ loads' = loads
  BY DEF Proceed, queues, files, clocks
<1>5. Types'
  BY <1>1, <1>2 DEF Basic, Types, QueueTypes, ClockTypes, ControlTypes, FileTypes, PCs
<1>6. Pumps'
  BY <1>1, <1>2 DEF Basic, Pumps
<1>7. IdlingCores'
  BY <1>1, <1>2 DEF Basic, Phases, IdlingCores, Idling, Future, Running
<1>8. RunningCore'
  BY <1>1, <1>2 DEF Basic, Phases, RunningCore, Running
<1>9. AdvancingCore' /\ LocalCore' /\ Victim' /\ CommonSlice'
  BY <1>1, <1>2 DEF AdvancingCore, Advancing, LocalCore, Victim, CommonSlice, Running
<1> QED
  BY <1>5, <1>6, <1>7, <1>8, <1>9 DEF Basic, Phases

LEMMA EndRunBasic ==
  ASSUME Basic, EndRun
  PROVE  Basic'
<1>1. /\ loc.core \in Cores /\ pc = "ran" /\ ~sane[loc.core]
      /\ down[loc.core] < slice[loc.core] /\ (~loc.alone => loc.start = exec[loc.core])
  BY DEF Basic, Phases, LocalCore, RunningCore, Running, EndRun
<1>2. /\ heap' = heap /\ ts' = ts /\ exec' = exec /\ slice' = slice /\ sane' = sane /\ down' = down
      /\ locked' = locked /\ current' = current /\ snap' = snap /\ loads' = loads
  BY DEF EndRun, queues, files, clocks
<1>a. CASE loc.alone \/ loc.core = NumCores - 1
  <2>1. pc' = "start" /\ loc' = NoLoc
    BY <1>a DEF EndRun
  <2>2. NoLoc \in LocSet
    BY CoreFacts DEF NoLoc, LocSet
  <2>3. Types'
    BY <2>1, <2>2, <1>2 DEF Basic, Types, QueueTypes, ClockTypes, ControlTypes, FileTypes, PCs
  <2>4. Pumps'
    BY <2>1, <1>1, <1>2 DEF Basic, Pumps
  <2>5. Phases'
    BY <2>1 DEF Phases, IdlingCores, Idling, RunningCore, AdvancingCore, Advancing, LocalCore,
                Victim, CommonSlice, Running
  <2> QED
    BY <2>3, <2>4, <2>5 DEF Basic
<1>b. CASE ~(loc.alone \/ loc.core = NumCores - 1)
  <2> DEFINE n == slice[loc.core] - down[loc.core]
  <2>0. /\ exec[loc.core] \in Nat /\ slice[loc.core] \in Nat /\ down[loc.core] \in Int
        /\ loc.start = exec[loc.core]
    BY <1>1, <1>b, BasicTypes
  <2>1. n \in Int /\ n > 0 /\ Ticks(loc.core) - loc.start = n
    BY <2>0, <1>1 DEF Ticks
  <2> HIDE DEF n
  <2>2. /\ pc' = "slice"
        /\ loc' = [loc EXCEPT !.core = @ + 1, !.start = 0, !.maxSlice = n]
    BY <2>1, <1>b DEF EndRun
  <2>a. loc.core + 1 \in Cores /\ loc.core + 1 \in 0 .. NumCores /\ loc \in LocSet
    BY <1>1, <1>b, CoreFacts DEF Basic, Types, ControlTypes
  <2>3. loc' \in LocSet /\ loc'.core = loc.core + 1 /\ loc'.maxSlice = n /\ loc'.alone = loc.alone
    <3>1. 0 \in Int
      OBVIOUS
    <3>2. loc' \in LocSet
      BY <3>1, <2>1, <2>2, <2>a, Zenon DEF LocSet
    <3>3. loc'.core = loc.core + 1 /\ loc'.maxSlice = n /\ loc'.alone = loc.alone
      BY <2>2, <2>a DEF LocSet
    <3> QED
      BY <3>2, <3>3
  <2>4. Types'
    BY <2>2, <2>3, <1>2 DEF Basic, Types, QueueTypes, ClockTypes, ControlTypes, FileTypes, PCs
  <2>5. Pumps'
    BY <2>2, <1>1, <1>2 DEF Basic, Pumps
  <2>6. IdlingCores'
    <3>1. \A c \in Cores : Idling(c)' => Idling(c)
      BY <2>2, <2>3, <1>1, <1>b, CoreFacts DEF Idling, Running
    <3> QED
      BY <3>1, <1>2 DEF Basic, Phases, IdlingCores, Future
  <2>7. AdvancingCore' /\ LocalCore' /\ Victim' /\ CommonSlice' /\ RunningCore'
    BY <2>1, <2>2, <2>3, <2>a, <1>b
       DEF AdvancingCore, Advancing, LocalCore, Victim, CommonSlice, RunningCore, Running
  <2> QED
    BY <2>4, <2>5, <2>6, <2>7 DEF Basic, Phases
<1> QED
  BY <1>a, <1>b

(* Once no event is due, all are in the future. *)
LEMMA NotDue ==
  ASSUME Basic, NEW c \in Cores, ~Due(c)
  PROVE  Future(c)
<1>1. heap[c] \in HeapSet /\ exec[c] \in Nat
  BY BasicTypes
<1>2. CASE heap[c] = <<>>
  BY <1>2 DEF Future, ToSet
<1>3. CASE heap[c] # <<>>
  <2>1. heap[c][1] \in EventSet /\ \A x \in ToSet(heap[c]) : x \in EventSet /\ heap[c][1].time <= x.time
    BY <1>1, <1>3, FirstHeap
  <2>2. heap[c][1].time \in Int /\ \A x \in ToSet(heap[c]) : x.time \in Int
    BY <2>1 DEF EventSet
  <2>3. ~(heap[c][1].time <= exec[c])
    BY <1>3 DEF Due
  <2> QED
    BY <1>1, <2>1, <2>2, <2>3 DEF Future
<1> QED
  BY <1>2, <1>3

(* A slice of at most n ticks that ends before the next event. *)
LEMMA SliceFits ==
  ASSUME Basic, NEW c \in Cores, Future(c), NEW n \in Int, n > 0
  PROVE  /\ NextSlice(c, n) \in Int /\ NextSlice(c, n) > 0 /\ NextSlice(c, n) <= n
         /\ \A x \in ToSet(heap[c]) : exec[c] + NextSlice(c, n) <= x.time
<1>1. heap[c] \in HeapSet /\ exec[c] \in Nat
  BY BasicTypes
<1>2. CASE heap[c] = <<>>
  BY <1>2 DEF NextSlice, ToSet
<1>3. CASE heap[c] # <<>>
  <2> DEFINE t == heap[c][1].time
  <2>1. /\ heap[c][1] \in ToSet(heap[c]) /\ heap[c][1] \in EventSet
        /\ \A x \in ToSet(heap[c]) : x \in EventSet /\ t <= x.time
    BY <1>1, <1>3, FirstHeap
  <2>2. t \in Int /\ t > exec[c] /\ \A x \in ToSet(heap[c]) : x.time \in Int /\ t <= x.time
    BY <2>1 DEF EventSet, Future
  <2>3. NextSlice(c, n) = Min({t - exec[c], n})
    BY <1>3 DEF NextSlice
  <2> HIDE DEF t
  <2>4. NextSlice(c, n) = IF t - exec[c] <= n THEN t - exec[c] ELSE n
    BY <2>2, <2>3, <1>1, MinPair
  <2> QED
    BY <1>1, <2>2, <2>4
<1> QED
  BY <1>2, <1>3

LEMMA MaxSliceFits ==
  ASSUME Basic, NEW c \in Cores, Future(c)
  PROVE  GetMaxSliceLength(c) \in Int /\ GetMaxSliceLength(c) > 0
<1>1. heap[c] \in HeapSet /\ exec[c] \in Nat
  BY BasicTypes
<1>2. CASE heap[c] = <<>>
  BY <1>2, CoreFacts DEF GetMaxSliceLength
<1>3. CASE heap[c] # <<>>
  <2> DEFINE t == heap[c][1].time
  <2>1. heap[c][1] \in ToSet(heap[c]) /\ heap[c][1] \in EventSet
    BY <1>1, <1>3, FirstHeap
  <2>2. t \in Int /\ t > exec[c]
    BY <2>1 DEF EventSet, Future
  <2>3. GetMaxSliceLength(c) = t - exec[c]
    BY <1>3 DEF GetMaxSliceLength
  <2> QED
    BY <1>1, <2>2, <2>3
<1> QED
  BY <1>2, <1>3

LEMMA SyncAdvancedBasic ==
  ASSUME Basic, SyncAdvanced
  PROVE  Basic'
<1> DEFINE c == loc.core
           n == NextSlice(c, loc.delay)
           worst == loc.delay > loc.maxDelay
<1>1. /\ c \in Cores /\ pc = "syncing" /\ pc' = "sync" /\ loc.delay > 0 /\ ~Due(c)
      /\ sane' = [sane EXCEPT ![c] = FALSE]
      /\ slice' = [slice EXCEPT ![c] = n] /\ down' = [down EXCEPT ![c] = n]
      /\ loc' = [loc EXCEPT !.core = @ + 1, !.delay = 0,
                            !.maxDelay = IF worst THEN loc.delay ELSE @,
                            !.victim = IF worst THEN c ELSE @]
  BY DEF Basic, Phases, LocalCore, AdvancingCore, SyncAdvanced
<1>2. /\ heap' = heap /\ ts' = ts /\ exec' = exec
      /\ locked' = locked /\ current' = current /\ snap' = snap /\ loads' = loads
  BY DEF SyncAdvanced, queues, files
<1>3. /\ \A d \in Cores : /\ slice[d] \in Nat /\ down[d] \in Int /\ -Overshoot <= down[d]
                          /\ down[d] <= slice[d]
      /\ loc.delay \in Int /\ loc.maxDelay \in Nat /\ loc.victim \in Cores
  BY BasicTypes
<1>4. n \in Int /\ n > 0 /\ n <= loc.delay
  BY <1>1, <1>3, NotDue, SliceFits
<1> HIDE DEF n
<1>5. /\ slice' \in ClockSet /\ down' \in [Cores -> Int] /\ sane' \in [Cores -> BOOLEAN]
      /\ slice'[c] = n /\ down'[c] = n /\ ~sane'[c]
      /\ \A d \in Cores : d # c => slice'[d] = slice[d] /\ down'[d] = down[d] /\ sane'[d] = sane[d]
  BY <1>1, <1>4 DEF Basic, Types, ClockTypes, ClockSet
<1>6. loc' \in LocSet
  <2>1. /\ loc \in LocSet /\ 0 \in Int /\ loc.core + 1 \in 0 .. NumCores
        /\ (IF worst THEN loc.delay ELSE loc.maxDelay) \in Nat
        /\ (IF worst THEN loc.core ELSE loc.victim) \in Cores
    BY <1>1, <1>3, CoreFacts DEF Basic, Types, ControlTypes
  <2> HIDE DEF worst
  <2> QED
    BY <2>1, <1>1, Zenon DEF LocSet
<1>7. /\ loc'.core = c + 1
      /\ loc'.maxDelay = IF worst THEN loc.delay ELSE loc.maxDelay
      /\ loc'.victim = IF worst THEN c ELSE loc.victim
  <2>1. loc \in LocSet
    BY DEF Basic, Types, ControlTypes
  <2> HIDE DEF worst
  <2> QED
    BY <2>1, <1>1 DEF LocSet
<1>8. Types'
  <2>1. InSlice(slice', down')
    BY <1>3, <1>4, <1>5, CoreFacts DEF InSlice
  <2> QED
    BY <1>1, <1>2, <1>5, <1>6, <2>1 DEF Basic, Types, QueueTypes, ClockTypes, ControlTypes, FileTypes, PCs
<1>9. Pumps'
  BY <1>1, <1>2 DEF Basic, Pumps
<1>10. Victim'
  <2>1. CASE worst
    BY <2>1, <1>1, <1>3, <1>4, <1>5, <1>7, CoreFacts DEF Victim
  <2>2. CASE ~worst
    <3>1. loc'.maxDelay = loc.maxDelay /\ loc'.victim = loc.victim
      BY <2>2, <1>7
    <3>2. loc.maxDelay > 0
      BY <2>2, <1>1, <1>3
    <3>3. /\ loc.victim < c /\ ~sane[loc.victim] /\ down[loc.victim] > 0
          /\ slice[loc.victim] = down[loc.victim] /\ slice[loc.victim] <= loc.maxDelay
      BY <3>2, <1>1 DEF Basic, Phases, Victim
    <3>4. loc.victim # c /\ loc.victim < c + 1
      BY <3>3, <1>1, <1>3, CoreFacts
    <3> QED
      BY <3>1, <3>3, <3>4, <1>1, <1>3, <1>5, <1>7 DEF Victim
  <2> QED
    BY <2>1, <2>2
<1>11. IdlingCores' /\ AdvancingCore' /\ LocalCore' /\ CommonSlice' /\ RunningCore'
  BY <1>1 DEF IdlingCores, Idling, AdvancingCore, Advancing, LocalCore, CommonSlice, RunningCore, Running
<1> QED
  BY <1>8, <1>9, <1>10, <1>11 DEF Basic, Phases

LEMMA SyncedBasic ==
  ASSUME Basic, Synced
  PROVE  Basic'
<1>1. /\ pc = "sync" /\ heap' = heap /\ ts' = ts /\ exec' = exec /\ slice' = slice /\ down' = down
      /\ sane' = sane /\ locked' = locked /\ snap' = snap /\ loads' = loads
  BY DEF Synced, queues, clocks, files
<1>2. loc.maxDelay \in Nat /\ loc.victim \in Cores /\ NoLoc \in LocSet /\ MinDelay \in Nat
  BY BasicTypes, CoreFacts DEF NoLoc, LocSet
<1>3. CASE FarBehind
  <2>1. /\ loc' = [NoLoc EXCEPT !.core = loc.victim, !.alone = TRUE]
        /\ current' = loc.victim /\ pc' = "run"
    BY <1>3 DEF Synced
  <2>2. loc' \in LocSet /\ loc'.core = loc.victim /\ loc'.alone
    BY <2>1, <1>2, CoreFacts DEF LocSet, NoLoc
  <2>3. loc.maxDelay > 0
    BY <1>2, <1>3 DEF FarBehind
  <2>4. ~sane[loc.victim] /\ down[loc.victim] > 0
    BY <2>3, <1>1 DEF Basic, Phases, Victim
  <2>5. Types'
    BY <1>1, <1>2, <2>1, <2>2 DEF Basic, Types, QueueTypes, ClockTypes, ControlTypes, FileTypes, PCs
  <2>6. Pumps'
    BY <1>1, <2>1 DEF Basic, Pumps
  <2>7. IdlingCores' /\ RunningCore' /\ LocalCore'
    BY <1>1, <1>2, <2>1, <2>2, <2>4 DEF IdlingCores, Idling, RunningCore, LocalCore, Running
  <2>8. AdvancingCore' /\ Victim' /\ CommonSlice'
    BY <2>1 DEF AdvancingCore, Advancing, Victim, CommonSlice
  <2> QED
    BY <2>5, <2>6, <2>7, <2>8 DEF Basic, Phases
<1>4. CASE ~FarBehind
  <2>1. loc' = [NoLoc EXCEPT !.maxSlice = MaxSlice] /\ current' = current /\ pc' = "advance"
    BY <1>4 DEF Synced
  <2>2. loc' \in LocSet /\ loc'.core = 0 /\ loc'.maxSlice = MaxSlice /\ ~loc'.alone
    <3>1. MaxSlice \in Int
      BY CoreFacts
    <3>2. loc' \in LocSet
      BY <3>1, <2>1, <1>2, Zenon DEF LocSet
    <3>3. loc'.core = 0 /\ loc'.maxSlice = MaxSlice /\ ~loc'.alone
      BY <2>1 DEF NoLoc
    <3> QED
      BY <3>2, <3>3
  <2>5. Types'
    BY <1>1, <1>2, <2>1, <2>2 DEF Basic, Types, QueueTypes, ClockTypes, ControlTypes, FileTypes, PCs
  <2>6. Pumps'
    BY <1>1, <2>1 DEF Basic, Pumps
  <2>7. IdlingCores' /\ CommonSlice'
    BY <1>1, <1>2, <2>1, <2>2, CoreFacts DEF IdlingCores, Idling, CommonSlice, Running
  <2>8. AdvancingCore' /\ Victim' /\ RunningCore' /\ LocalCore'
    BY <2>1 DEF AdvancingCore, Advancing, Victim, RunningCore, LocalCore, Running
  <2> QED
    BY <2>5, <2>6, <2>7, <2>8 DEF Basic, Phases
<1> QED
  BY <1>3, <1>4

(* The queues after the first half of Advance. *)
LEMMA MoveEventsHeap ==
  ASSUME Basic, NEW c \in Cores, MoveEvents(c)
  PROVE  /\ QueueTypes'
         /\ ToSet(heap'[c]) \subseteq ToSet(heap[c]) \cup ToSet(ts[c]) /\ SamePump(heap'[c], heap[c])
         /\ \A d \in Cores : d # c => heap'[d] = heap[d] /\ ts'[d] = ts[d]
         /\ ts'[c] = <<>>
<1>1. /\ heap[c] \in HeapSet /\ ts[c] \in Seq(EventSet) /\ NoPump(ts[c])
      /\ heap \in [Cores -> HeapSet] /\ ts \in [Cores -> Seq(EventSet)]
  BY BasicTypes DEF Basic, Pumps, Types, QueueTypes
<1> DEFINE q == PushAll(heap[c], ts[c])
<1>2. /\ q \in HeapSet /\ ToSet(q) \subseteq ToSet(heap[c]) \cup ToSet(ts[c])
      /\ SamePump(q, heap[c])
  BY <1>1, PushAllHeap
<1>3. heap' = [heap EXCEPT ![c] = q] /\ ts' = [ts EXCEPT ![c] = <<>>]
  BY DEF MoveEvents
<1> HIDE DEF q
<1>4. heap' \in [Cores -> HeapSet] /\ heap'[c] = q /\ \A d \in Cores : d # c => heap'[d] = heap[d]
  BY <1>1, <1>2, <1>3
<1>5. /\ ts' \in [Cores -> Seq(EventSet)] /\ ts'[c] = <<>>
      /\ \A d \in Cores : d # c => ts'[d] = ts[d]
  BY <1>1, <1>3
<1> QED
  BY <1>2, <1>4, <1>5 DEF QueueTypes

(* Heaps whose pumps are where they were. *)
LEMMA ArmedSame ==
  ASSUME NEW g, NEW h, \A c \in Cores : SamePump(h[c], g[c]), Armed(g)
  PROVE  Armed(h)
BY DEF Armed, SamePump

LEMMA SamePumpRefl == \A q : SamePump(q, q)
BY DEF SamePump

LEMMA BeginAdvanceFacts ==
  ASSUME Basic, NEW c \in Cores, BeginAdvance(c)
  PROVE  /\ QueueTypes' /\ ClockTypes' /\ current' = c
         /\ ToSet(heap'[c]) \subseteq ToSet(heap[c]) \cup ToSet(ts[c])
         /\ \A d \in Cores : SamePump(heap'[d], heap[d])
         /\ \A d \in Cores : NoPump(ts'[d])
         /\ ts'[c] = <<>> /\ exec'[c] = Clock(c) /\ slice'[c] = 0 /\ down'[c] = 0 /\ sane'[c]
         /\ \A d \in Cores : d # c => /\ heap'[d] = heap[d] /\ ts'[d] = ts[d] /\ exec'[d] = exec[d]
                                      /\ slice'[d] = slice[d] /\ down'[d] = down[d] /\ sane'[d] = sane[d]
<1>1. /\ MoveEvents(c) /\ current' = c
      /\ exec' = [exec EXCEPT ![c] = @ + (slice[c] - down[c])]
      /\ slice' = [slice EXCEPT ![c] = 0] /\ down' = [down EXCEPT ![c] = 0]
      /\ sane' = [sane EXCEPT ![c] = TRUE]
  BY DEF BeginAdvance
<1>2. /\ QueueTypes'
      /\ ToSet(heap'[c]) \subseteq ToSet(heap[c]) \cup ToSet(ts[c]) /\ SamePump(heap'[c], heap[c])
      /\ \A d \in Cores : d # c => heap'[d] = heap[d] /\ ts'[d] = ts[d]
      /\ ts'[c] = <<>>
  BY <1>1, MoveEventsHeap
<1>3. /\ exec \in [Cores -> Nat] /\ slice \in [Cores -> Nat] /\ down \in [Cores -> Int]
      /\ sane \in [Cores -> BOOLEAN]
  BY DEF Basic, Types, ClockTypes, ClockSet
<1>4. /\ \A d \in Cores : slice[d] \in Nat /\ down[d] \in Int /\ -Overshoot <= down[d] /\ down[d] <= slice[d]
      /\ exec[c] \in Nat
  BY BasicTypes
<1>5. /\ exec'[c] = Clock(c) /\ Clock(c) \in Nat /\ slice'[c] = 0 /\ down'[c] = 0 /\ sane'[c]
      /\ \A d \in Cores : d # c => /\ exec'[d] = exec[d] /\ slice'[d] = slice[d]
                                   /\ down'[d] = down[d] /\ sane'[d] = sane[d]
  BY <1>1, <1>3, <1>4 DEF Clock
<1>6. exec' \in [Cores -> Nat]
  BY <1>1, <1>3, <1>5 DEF Clock
<1>7. slice' \in [Cores -> Nat] /\ down' \in [Cores -> Int] /\ sane' \in [Cores -> BOOLEAN]
  BY <1>1, <1>3
<1>8. InSlice(slice', down')
  BY <1>4, <1>5, CoreFacts DEF InSlice
<1>9. ClockTypes'
  BY <1>6, <1>7, <1>8 DEF ClockTypes, ClockSet
<1>10. \A d \in Cores : NoPump(ts'[d])
  BY <1>2 DEF Basic, Pumps, NoPump
<1>11. \A d \in Cores : SamePump(heap'[d], heap[d])
  BY <1>2, SamePumpRefl
<1> QED
  BY <1>1, <1>2, <1>5, <1>9, <1>10, <1>11

LEMMA SyncCoreBasic ==
  ASSUME Basic, SyncCore
  PROVE  Basic'
<1> DEFINE c == loc.core
<1>1. pc = "sync" /\ c \in Cores /\ locked' = locked /\ snap' = snap /\ loads' = loads
  BY DEF SyncCore, files
<1>2. loc \in LocSet /\ loc.core + 1 \in 0 .. NumCores /\ loc.global \in Int /\ Ticks(c) \in Int
  BY <1>1, CoreFacts, BasicTypes DEF Basic, Types, ControlTypes
<1>3. CASE Ticks(c) < loc.global
  <2> DEFINE n == loc.global - Ticks(c)
  <2>1. BeginAdvance(c) /\ loc' = [loc EXCEPT !.delay = n] /\ pc' = "syncing"
    BY <1>3 DEF SyncCore
  <2>2. n \in Int /\ n > 0
    BY <1>2, <1>3
  <2> HIDE DEF n
  <2>3. /\ QueueTypes' /\ ClockTypes' /\ current' = c
        /\ \A d \in Cores : SamePump(heap'[d], heap[d])
        /\ \A d \in Cores : NoPump(ts'[d])
        /\ slice'[c] = 0 /\ down'[c] = 0
        /\ \A d \in Cores : d # c => slice'[d] = slice[d] /\ down'[d] = down[d] /\ sane'[d] = sane[d]
    BY <1>1, <2>1, BeginAdvanceFacts
  <2>4. /\ loc' \in LocSet /\ loc'.core = c /\ loc'.delay = n /\ loc'.maxDelay = loc.maxDelay
        /\ loc'.victim = loc.victim
    BY <1>2, <2>1, <2>2 DEF LocSet
  <2>5. Types'
    BY <1>1, <2>1, <2>3, <2>4 DEF Basic, Types, ControlTypes, FileTypes, PCs
  <2>6. Pumps'
    <3>1. Armed(heap) => Armed(heap')
      BY <2>3, ArmedSame
    <3> QED
      BY <1>1, <2>1, <2>3, <3>1 DEF Basic, Pumps
  <2>7. Victim'
    <3>1. loc.victim \in Cores /\ loc.maxDelay \in Nat
      BY BasicTypes
    <3>2. loc.maxDelay > 0 =>
            /\ loc.victim < c /\ loc.victim # c /\ ~sane[loc.victim] /\ down[loc.victim] > 0
            /\ slice[loc.victim] = down[loc.victim] /\ slice[loc.victim] <= loc.maxDelay
      BY <1>1, <3>1, CoreFacts DEF Basic, Phases, Victim
    <3> QED
      BY <2>1, <2>3, <2>4, <3>1, <3>2 DEF Victim
  <2>8. AdvancingCore' /\ LocalCore'
    BY <1>1, <2>1, <2>2, <2>3, <2>4 DEF AdvancingCore, Advancing, LocalCore
  <2>9. IdlingCores' /\ CommonSlice' /\ RunningCore'
    BY <2>1 DEF IdlingCores, Idling, CommonSlice, RunningCore, Running
  <2> QED
    BY <2>5, <2>6, <2>7, <2>8, <2>9 DEF Basic, Phases
<1>4. CASE ~(Ticks(c) < loc.global)
  <2>1. /\ loc' = [loc EXCEPT !.core = @ + 1] /\ pc' = pc /\ heap' = heap /\ ts' = ts
        /\ exec' = exec /\ slice' = slice /\ down' = down /\ sane' = sane /\ current' = current
    BY <1>4 DEF SyncCore, queues, clocks
  <2>2. loc' \in LocSet
    BY <1>2, <2>1, Zenon DEF LocSet
  <2>3. /\ loc'.core = c + 1 /\ loc'.maxDelay = loc.maxDelay /\ loc'.victim = loc.victim
    BY <1>2, <2>1 DEF LocSet
  <2>4. Types'
    BY <1>1, <2>1, <2>2 DEF Basic, Types, QueueTypes, ClockTypes, ControlTypes, FileTypes
  <2>5. Pumps'
    BY <1>1, <2>1 DEF Basic, Pumps
  <2>6. Victim'
    <3>1. loc.victim \in Cores /\ loc.maxDelay \in Nat
      BY BasicTypes
    <3> QED
      BY <1>1, <2>1, <2>3, <3>1, CoreFacts DEF Basic, Phases, Victim
  <2>7. IdlingCores' /\ AdvancingCore' /\ LocalCore' /\ CommonSlice' /\ RunningCore'
    BY <1>1, <2>1 DEF IdlingCores, Idling, AdvancingCore, Advancing, LocalCore, CommonSlice, RunningCore, Running
  <2> QED
    BY <2>4, <2>5, <2>6, <2>7 DEF Basic, Phases
<1> QED
  BY <1>3, <1>4

LEMMA AdvanceCoreBasic ==
  ASSUME Basic, AdvanceCore
  PROVE  Basic'
<1> DEFINE c == loc.core
<1>1. /\ pc = "advance" /\ c \in Cores /\ BeginAdvance(c) /\ pc' = "advancing"
      /\ locked' = locked /\ snap' = snap /\ loads' = loads /\ loc' = loc
  BY DEF AdvanceCore, files
<1>2. /\ QueueTypes' /\ ClockTypes' /\ current' = c
      /\ \A d \in Cores : SamePump(heap'[d], heap[d])
      /\ \A d \in Cores : NoPump(ts'[d])
      /\ slice'[c] = 0 /\ down'[c] = 0
      /\ \A d \in Cores : d # c => /\ heap'[d] = heap[d] /\ exec'[d] = exec[d] /\ slice'[d] = slice[d]
                                   /\ down'[d] = down[d] /\ sane'[d] = sane[d]
  BY <1>1, BeginAdvanceFacts
<1>3. Types'
  BY <1>1, <1>2 DEF Basic, Types, ControlTypes, FileTypes, PCs
<1>4. Pumps'
  <2>1. Armed(heap) => Armed(heap')
    BY <1>2, ArmedSame
  <2> QED
    BY <1>1, <1>2, <2>1 DEF Basic, Pumps
<1>5. IdlingCores'
  <2>1. \A d \in Cores : Idling(d)' => Idling(d) /\ d # c
    BY <1>1, CoreFacts DEF Idling, Running
  <2> QED
    BY <1>2, <2>1 DEF Basic, Phases, IdlingCores, Future
<1>6. AdvancingCore' /\ LocalCore' /\ Victim' /\ CommonSlice' /\ RunningCore'
  BY <1>1, <1>2 DEF Basic, Phases, AdvancingCore, Advancing, LocalCore, Victim, CommonSlice, RunningCore, Running
<1> QED
  BY <1>3, <1>4, <1>5, <1>6 DEF Basic, Phases

LEMMA AdvancedBasic ==
  ASSUME Basic, Advanced
  PROVE  Basic'
<1> DEFINE c == loc.core
           n == Min({loc.maxSlice, GetMaxSliceLength(c)})
<1>1. /\ pc = "advancing" /\ c \in Cores /\ ~Due(c) /\ pc' = "advance"
      /\ sane' = [sane EXCEPT ![c] = FALSE]
      /\ loc' = [loc EXCEPT !.core = @ + 1, !.maxSlice = n]
      /\ loc.maxSlice > 0 /\ loc.maxSlice <= MaxSlice /\ ~loc.alone
  BY DEF Advanced, Basic, Phases, LocalCore, CommonSlice
<1>2. /\ heap' = heap /\ ts' = ts /\ exec' = exec /\ slice' = slice /\ down' = down
      /\ locked' = locked /\ current' = current /\ snap' = snap /\ loads' = loads
  BY DEF Advanced, queues, files
<1>3. loc \in LocSet /\ loc.core + 1 \in 0 .. NumCores /\ loc.maxSlice \in Int /\ MaxSlice \in Nat
  BY <1>1, CoreFacts, BasicTypes DEF Basic, Types, ControlTypes
<1>4. Future(c)
  BY <1>1, NotDue
<1>5. GetMaxSliceLength(c) \in Int /\ GetMaxSliceLength(c) > 0
  BY <1>1, <1>4, MaxSliceFits
<1>6. n \in Int /\ n > 0 /\ n <= MaxSlice
  <2>1. n = IF loc.maxSlice <= GetMaxSliceLength(c) THEN loc.maxSlice ELSE GetMaxSliceLength(c)
    BY <1>3, <1>5, MinPair
  <2> QED
    BY <2>1, <1>1, <1>3, <1>5
<1> HIDE DEF n
<1>7. loc' \in LocSet
  BY <1>1, <1>3, <1>6, Zenon DEF LocSet
<1>8. loc'.core = c + 1 /\ loc'.maxSlice = n /\ loc'.alone = loc.alone
  BY <1>1, <1>3 DEF LocSet
<1>9. /\ sane' \in [Cores -> BOOLEAN] /\ ~sane'[c]
      /\ \A d \in Cores : d # c => sane'[d] = sane[d]
  BY <1>1 DEF Basic, Types, ClockTypes
<1>10. Types'
  BY <1>1, <1>2, <1>7, <1>9 DEF Basic, Types, QueueTypes, ClockTypes, ControlTypes, FileTypes, PCs
<1>11. Pumps'
  BY <1>1, <1>2 DEF Basic, Pumps
<1>12. IdlingCores'
  <2>1. \A d \in Cores : Idling(d)' => (Idling(d) /\ d # c) \/ d = c
    BY <1>1, <1>8, CoreFacts DEF Idling, Running
  <2>2. slice[c] = 0 /\ down[c] = 0
    BY <1>1 DEF Basic, Phases, AdvancingCore, Advancing
  <2>3. \A d \in Cores : Future(d)' <=> Future(d)
    BY <1>2 DEF Future
  <2> QED
    BY <1>2, <1>4, <1>9, <2>1, <2>2, <2>3 DEF Basic, Phases, IdlingCores
<1>13. AdvancingCore' /\ LocalCore' /\ Victim' /\ CommonSlice' /\ RunningCore'
  BY <1>1, <1>6, <1>8 DEF AdvancingCore, Advancing, LocalCore, Victim, CommonSlice, RunningCore, Running
<1> QED
  BY <1>10, <1>11, <1>12, <1>13 DEF Basic, Phases

LEMMA AllAdvancedBasic ==
  ASSUME Basic, AllAdvanced
  PROVE  Basic'
<1>1. /\ pc = "advance" /\ loc.core = NumCores /\ loc' = [loc EXCEPT !.core = 0] /\ pc' = "slice"
      /\ heap' = heap /\ ts' = ts /\ exec' = exec /\ slice' = slice /\ down' = down /\ sane' = sane
      /\ locked' = locked /\ current' = current /\ snap' = snap /\ loads' = loads
  BY DEF AllAdvanced, queues, clocks, files
<1>2. loc \in LocSet /\ 0 \in 0 .. NumCores /\ 0 \in Cores
  BY CoreFacts DEF Basic, Types, ControlTypes
<1>3. /\ loc' \in LocSet /\ loc'.core = 0 /\ loc'.maxSlice = loc.maxSlice /\ loc'.alone = loc.alone
  BY <1>1, <1>2 DEF LocSet
<1>4. Types'
  BY <1>1, <1>3 DEF Basic, Types, QueueTypes, ClockTypes, ControlTypes, FileTypes, PCs
<1>5. Pumps'
  BY <1>1 DEF Basic, Pumps
<1>6. IdlingCores'
  <2>1. \A d \in Cores : Idling(d)
    BY <1>1, CoreFacts DEF Idling
  <2> QED
    BY <1>1, <2>1 DEF Basic, Phases, IdlingCores, Future
<1>7. AdvancingCore' /\ LocalCore' /\ Victim' /\ CommonSlice' /\ RunningCore'
  BY <1>1, <1>2, <1>3
     DEF Basic, Phases, AdvancingCore, Advancing, LocalCore, Victim, CommonSlice, RunningCore, Running
<1> QED
  BY <1>4, <1>5, <1>6, <1>7 DEF Basic, Phases

LEMMA SetNextSliceBasic ==
  ASSUME Basic, SetNextSlice
  PROVE  Basic'
<1> DEFINE c == loc.core
           n == NextSlice(c, loc.maxSlice)
<1>1. /\ pc = "slice" /\ c \in Cores /\ pc' = "run"
      /\ slice' = [slice EXCEPT ![c] = n] /\ down' = [down EXCEPT ![c] = n]
      /\ loc' = [loc EXCEPT !.start = exec[c]] /\ current' = c
  BY DEF SetNextSlice
<1>2. /\ heap' = heap /\ ts' = ts /\ exec' = exec /\ sane' = sane
      /\ locked' = locked /\ snap' = snap /\ loads' = loads
  BY DEF SetNextSlice, queues, files
<1>3. /\ loc \in LocSet /\ loc.maxSlice \in Int /\ exec[c] \in Int
      /\ \A d \in Cores : slice[d] \in Nat /\ down[d] \in Int /\ -Overshoot <= down[d] /\ down[d] <= slice[d]
  BY <1>1, BasicTypes DEF Basic, Types, ControlTypes
<1>4. Future(c) /\ ~sane[c] /\ loc.maxSlice > 0 /\ ~loc.alone
  <2>1. Idling(c)
    BY <1>1, CoreFacts DEF Idling
  <2> QED
    BY <1>1, <2>1 DEF Basic, Phases, IdlingCores, CommonSlice
<1>5. n \in Int /\ n > 0
  BY <1>1, <1>3, <1>4, SliceFits
<1> HIDE DEF n
<1>6. /\ loc' \in LocSet /\ loc'.core = c /\ loc'.start = exec[c] /\ loc'.alone = loc.alone
  BY <1>1, <1>3 DEF LocSet
<1>7. /\ slice' \in ClockSet /\ down' \in [Cores -> Int] /\ slice'[c] = n /\ down'[c] = n
      /\ \A d \in Cores : d # c => slice'[d] = slice[d] /\ down'[d] = down[d]
  BY <1>1, <1>5 DEF Basic, Types, ClockTypes, ClockSet
<1>8. Types'
  <2>1. InSlice(slice', down')
    BY <1>3, <1>5, <1>7, CoreFacts DEF InSlice
  <2> QED
    BY <1>1, <1>2, <1>6, <1>7, <2>1 DEF Basic, Types, QueueTypes, ClockTypes, ControlTypes, FileTypes, PCs
<1>9. Pumps'
  BY <1>1, <1>2 DEF Basic, Pumps
<1>10. IdlingCores'
  <2>1. \A d \in Cores : Idling(d)' => Idling(d) /\ d # c
    BY <1>1, <1>6, CoreFacts DEF Idling, Running
  <2> QED
    BY <1>2, <1>7, <2>1 DEF Basic, Phases, IdlingCores, Future
<1>11. RunningCore' /\ LocalCore'
  BY <1>1, <1>2, <1>4, <1>5, <1>6, <1>7 DEF RunningCore, LocalCore
<1>12. AdvancingCore' /\ Victim' /\ CommonSlice'
  BY <1>1 DEF AdvancingCore, Advancing, Victim, CommonSlice
<1> QED
  BY <1>8, <1>9, <1>10, <1>11, <1>12 DEF Basic, Phases

(* What a callback leaves in the queue of its core. *)
LEMMA DispatchHeap ==
  ASSUME Basic, Dispatch
  PROVE  /\ loc.core \in Cores /\ pc \in {"syncing", "advancing"}
         /\ heap' \in [Cores -> HeapSet]
         /\ \A d \in Cores : d # loc.core => heap'[d] = heap[d]
         /\ \A d \in Cores : SamePump(heap'[d], heap[d])
         /\ \A x \in ToSet(heap'[loc.core]) :
              x \in ToSet(heap[loc.core]) \/ (x.how = "own" /\ x.time >= exec[loc.core]) \/ x.how = "late"
<1> DEFINE c == loc.core
<1>1. c \in Cores /\ pc \in {"syncing", "advancing"} /\ Due(c)
  BY DEF Basic, Phases, LocalCore, Dispatch
<1>2. /\ heap \in [Cores -> HeapSet] /\ heap[c] \in HeapSet /\ exec[c] \in Nat /\ heap[c] # <<>>
  BY <1>1, BasicTypes DEF Basic, Types, QueueTypes, Due
<1> DEFINE x == heap[c][1]
<1>3. x \in EventSet /\ x \in ToSet(heap[c])
  BY <1>2, FirstHeap
<1>4. x.time \in Int /\ x.id \in Events
  BY <1>3 DEF EventSet
<1>5. PICK again \in IF x.id = Pump THEN {MaxSlice}
                     ELSE IF x.id \in Guest THEN (Delays \ {0}) \cup {-1} ELSE {-1} :
        heap' = [heap EXCEPT ![c] =
                   IF again = -1 THEN Tail(@)
                   ELSE Push(Tail(@), Event(x.id, exec[c] + (again - (exec[c] - x.time)),
                               IF exec[c] + (again - (exec[c] - x.time)) < exec[c] THEN "late" ELSE "own"))]
  BY DEF Dispatch
<1>6. again \in Int /\ (x.id = Pump => again # -1)
  BY CoreFacts, TimingAssumption
<1> DEFINE t == exec[c] + (again - (exec[c] - x.time))
           how == IF t < exec[c] THEN "late" ELSE "own"
           y == Event(x.id, t, how)
           r == Tail(heap[c])
<1>7. t \in Int
  BY <1>2, <1>4, <1>6
<1> HIDE DEF t
<1>8. how \in Hows /\ (how = "late" \/ (how = "own" /\ t >= exec[c]))
  BY <1>2, <1>7 DEF Hows
<1>9. y \in EventSet /\ y.id = x.id /\ y.time = t /\ y.how = how
  BY <1>4, <1>7, <1>8, Zenon DEF EventSet, Event
<1>10. /\ r \in HeapSet /\ ToSet(r) \subseteq ToSet(heap[c])
       /\ x.id = Pump /\ OnePump(heap[c]) => NoPump(r)
       /\ NoPump(heap[c]) => NoPump(r)
       /\ x.id # Pump => SamePump(r, heap[c])
  BY <1>2, TailHeap
<1> DEFINE p == IF again = -1 THEN r ELSE Push(r, y)
<1>11. heap' = [heap EXCEPT ![c] = p]
  BY <1>5 DEF t
<1>12. NoPump(heap[c]) => x.id # Pump
  <2>1. 1 \in DOMAIN heap[c]
    BY <1>2 DEF HeapSet
  <2> QED
    BY <2>1 DEF NoPump
<1> HIDE DEF x, y, r, how
<1>13. Push(r, y) \in HeapSet /\ ToSet(Push(r, y)) = ToSet(r) \cup {y}
  BY <1>9, <1>10, PushHeap
<1>14. /\ y.id # Pump => SamePump(Push(r, y), r)
       /\ y.id = Pump /\ NoPump(r) => OnePump(Push(r, y))
  BY <1>9, <1>10, PushPump
<1>15. p \in HeapSet /\ \A z \in ToSet(p) : z \in ToSet(heap[c]) \/ z = y
  BY <1>10, <1>13
<1>16. SamePump(p, heap[c])
  BY <1>6, <1>9, <1>10, <1>12, <1>14 DEF SamePump
<1> HIDE DEF p
<1>17. /\ heap' \in [Cores -> HeapSet] /\ heap'[c] = p
       /\ \A d \in Cores : d # c => heap'[d] = heap[d]
  BY <1>1, <1>2, <1>11, <1>15
<1>18. \A d \in Cores : SamePump(heap'[d], heap[d])
  BY <1>16, <1>17, SamePumpRefl
<1>19. \A z \in ToSet(p) : z \in ToSet(heap[c]) \/ (z.how = "own" /\ z.time >= exec[c]) \/ z.how = "late"
  BY <1>8, <1>9, <1>15
<1> QED
  BY <1>1, <1>17, <1>18, <1>19

LEMMA DispatchBasic ==
  ASSUME Basic, Dispatch
  PROVE  Basic'
<1>1. /\ loc.core \in Cores /\ pc \in {"syncing", "advancing"}
      /\ heap' \in [Cores -> HeapSet]
      /\ \A d \in Cores : d # loc.core => heap'[d] = heap[d]
      /\ \A d \in Cores : SamePump(heap'[d], heap[d])
  BY DispatchHeap
<1>2. /\ ts' = ts /\ locked' = locked /\ current' = current /\ pc' = pc /\ loc' = loc /\ exec' = exec
      /\ slice' = slice /\ down' = down /\ sane' = sane /\ snap' = snap /\ loads' = loads
  BY DEF Dispatch, clocks, files
<1>3. Types'
  BY <1>1, <1>2 DEF Basic, Types, QueueTypes, ClockTypes, ControlTypes, FileTypes
<1>4. Pumps'
  <2>1. Armed(heap) => Armed(heap')
    BY <1>1, ArmedSame
  <2> QED
    BY <1>1, <1>2, <2>1 DEF Basic, Pumps
<1>5. IdlingCores'
  <2>1. \A d \in Cores : Idling(d)' => Idling(d) /\ d # loc.core
    BY <1>1, <1>2, CoreFacts DEF Idling, Running
  <2> QED
    BY <1>1, <1>2, <2>1 DEF Basic, Phases, IdlingCores, Future
<1>6. AdvancingCore' /\ LocalCore' /\ Victim' /\ CommonSlice' /\ RunningCore'
  BY <1>2 DEF Basic, Phases, AdvancingCore, Advancing, LocalCore, Victim, CommonSlice, RunningCore, Running
<1> QED
  BY <1>3, <1>4, <1>5, <1>6 DEF Basic, Phases

(* The running slice is cut, what was run of it stays. *)
LEMMA ForceFacts ==
  ASSUME Basic, NEW c \in Cores, NEW cycles \in Nat, ForceExceptionCheck(c, cycles)
  PROVE  /\ slice' \in ClockSet /\ down' \in [Cores -> Int] /\ InSlice(slice', down')
         /\ \A d \in Cores : slice'[d] - down'[d] = slice[d] - down[d] /\ slice'[d] <= slice[d]
         /\ \A d \in Cores : d # c => slice'[d] = slice[d] /\ down'[d] = down[d]
         /\ down'[c] <= cycles
<1>1. /\ slice \in ClockSet /\ down \in [Cores -> Int]
      /\ \A d \in Cores : slice[d] \in Nat /\ down[d] \in Int /\ -Overshoot <= down[d] /\ down[d] <= slice[d]
  BY BasicTypes DEF Basic, Types, ClockTypes
<1>2. Max({0, cycles}) = cycles
  BY MaxZero
<1>3. CASE down[c] > cycles
  <2>1. /\ slice' = [slice EXCEPT ![c] = @ - (down[c] - cycles)]
        /\ down' = [down EXCEPT ![c] = cycles]
    BY <1>2, <1>3 DEF ForceExceptionCheck
  <2>2. slice[c] - (down[c] - cycles) \in Nat
    BY <1>1
  <2>3. slice' \in ClockSet /\ down' \in [Cores -> Int]
    BY <1>1, <2>1, <2>2 DEF ClockSet
  <2>4. /\ slice'[c] = slice[c] - (down[c] - cycles) /\ down'[c] = cycles
        /\ \A d \in Cores : d # c => slice'[d] = slice[d] /\ down'[d] = down[d]
    BY <1>1, <2>1 DEF ClockSet
  <2>5. \A d \in Cores : slice'[d] - down'[d] = slice[d] - down[d] /\ slice'[d] <= slice[d]
    BY <1>1, <1>3, <2>4
  <2>6. InSlice(slice', down')
    BY <1>1, <2>4, CoreFacts DEF InSlice
  <2> QED
    BY <2>3, <2>4, <2>5, <2>6
<1>4. CASE ~(down[c] > cycles)
  <2>1. slice' = slice /\ down' = down
    BY <1>2, <1>4 DEF ForceExceptionCheck
  <2>2. down'[c] <= cycles /\ InSlice(slice', down')
    BY <1>1, <1>4, <2>1 DEF InSlice
  <2> QED
    BY <1>1, <2>1, <2>2
<1> QED
  BY <1>3, <1>4

(* What ScheduleEvent adds to the queues and takes from the slice. *)
LEMMA ScheduleFacts ==
  ASSUME Basic, NEW e \in Events, NEW cycles \in Nat, NEW c \in Cores,
         ScheduleEvent(e, cycles, c), exec' = exec, sane' = sane
  PROVE  /\ QueueTypes' /\ ClockTypes'
         /\ \A d \in Cores : slice'[d] - down'[d] = slice[d] - down[d] /\ slice'[d] <= slice[d]
         /\ \A d \in Cores : d # current => /\ heap'[d] = heap[d]
                                            /\ slice'[d] = slice[d] /\ down'[d] = down[d]
         /\ e # Pump => \A d \in Cores : SamePump(heap'[d], heap[d])
         /\ e # Pump \/ c = current => \A d \in Cores : NoPump(ts'[d])
         /\ \A x \in ToSet(heap'[current]) :
              \/ x \in ToSet(heap[current])
              \/ /\ x.how = "own" /\ x.time \in Int
                 /\ x.time >= Ticks(current)
                 /\ ~sane[current] => exec[current] + slice'[current] <= x.time
         /\ \A d \in Cores : \A x \in ToSet(ts'[d]) : x \in ToSet(ts[d]) \/ x.how = "cross"
<1>1. /\ heap \in [Cores -> HeapSet] /\ ts \in [Cores -> Seq(EventSet)] /\ ClockTypes
      /\ current \in Cores /\ \A d \in Cores : NoPump(ts[d])
  BY DEF Basic, Types, QueueTypes, ControlTypes, Pumps
<1>2. \A d \in Cores : /\ heap[d] \in HeapSet /\ ts[d] \in Seq(EventSet)
                       /\ exec[d] \in Nat /\ slice[d] \in Nat /\ down[d] \in Int
                       /\ down[d] <= slice[d]
                       /\ Clock(d) \in Int /\ Ticks(d) \in Int
  BY BasicTypes
<1>3. CASE locked
  <2>1. heap' = heap /\ ts' = ts /\ slice' = slice /\ down' = down
    BY <1>3 DEF ScheduleEvent
  <2> QED
    BY <1>1, <1>2, <2>1, SamePumpRefl DEF QueueTypes, ClockTypes
<1>4. CASE ~locked /\ c = current
  <2> DEFINE t == Ticks(c) + cycles
             x == Event(e, t, IF cycles < 0 THEN "late" ELSE "own")
             q == Push(heap[c], x)
  <2>1. /\ heap' = [heap EXCEPT ![c] = q] /\ ts' = ts
        /\ IF sane[c] THEN slice' = slice /\ down' = down ELSE ForceExceptionCheck(c, cycles)
    BY <1>4 DEF ScheduleEvent
  <2>2. t \in Int /\ t >= Ticks(c)
    BY <1>2
  <2>3. x = Event(e, t, "own")
    OBVIOUS
  <2> HIDE DEF x, t
  <2>4. x \in EventSet /\ x.id = e /\ x.time = t /\ x.how = "own"
    BY <2>2, <2>3 DEF Event, EventSet, Hows
  <2>5. q \in HeapSet /\ ToSet(q) = ToSet(heap[c]) \cup {x}
    BY <1>2, <2>4, PushHeap
  <2>6. e # Pump => SamePump(q, heap[c])
    BY <1>2, <2>4, PushPump
  <2> HIDE DEF q
  <2>7. /\ heap' \in [Cores -> HeapSet] /\ heap'[c] = q
        /\ \A d \in Cores : d # c => heap'[d] = heap[d]
    BY <1>1, <2>1, <2>5
  <2>8. /\ slice' \in ClockSet /\ down' \in [Cores -> Int] /\ InSlice(slice', down')
        /\ \A d \in Cores : slice'[d] - down'[d] = slice[d] - down[d] /\ slice'[d] <= slice[d]
        /\ \A d \in Cores : d # c => slice'[d] = slice[d] /\ down'[d] = down[d]
        /\ ~sane[c] => down'[c] <= cycles
    <3>1. CASE sane[c]
      <4>1. slice' = slice /\ down' = down
        BY <2>1, <3>1
      <4> QED
        BY <4>1, <3>1, <1>1, <1>2 DEF ClockTypes
    <3>2. CASE ~sane[c]
      <4>1. ForceExceptionCheck(c, cycles)
        BY <2>1, <3>2
      <4> QED
        BY <4>1, ForceFacts
    <3> QED
      BY <3>1, <3>2
  <2>9. ~sane[c] => exec[c] + slice'[c] <= t
    <3>1. slice'[c] \in Nat /\ down'[c] \in Int
      BY <2>8 DEF ClockSet
    <3>2. ~sane[c] => Ticks(c) = exec[c] + (slice[c] - down[c])
      BY DEF Ticks
    <3>3. /\ exec[c] \in Nat /\ slice[c] \in Nat /\ down[c] \in Int /\ t = Ticks(c) + cycles
          /\ slice'[c] - down'[c] = slice[c] - down[c] /\ (~sane[c] => down'[c] <= cycles)
      BY <2>8, <1>2 DEF t
    <3> QED
      BY ONLY <3>1, <3>2, <3>3, cycles \in Nat
  <2>10. QueueTypes' /\ ClockTypes'
    BY <1>1, <2>1, <2>7, <2>8 DEF QueueTypes, ClockTypes
  <2>11. e # Pump => \A d \in Cores : SamePump(heap'[d], heap[d])
    BY <2>6, <2>7, SamePumpRefl
  <2>12. \A y \in ToSet(heap'[current]) :
              \/ y \in ToSet(heap[current])
              \/ /\ y.how = "own" /\ y.time \in Int
                 /\ y.time >= Ticks(current)
                 /\ ~sane[current] => exec[current] + slice'[current] <= y.time
    BY <1>4, <2>2, <2>4, <2>5, <2>7, <2>9
  <2> QED
    BY <1>1, <1>4, <2>1, <2>7, <2>8, <2>10, <2>11, <2>12
<1>5. CASE ~locked /\ c # current
  <2> DEFINE t == Ticks(c) + cycles
             x == Event(e, t, "cross")
             q == Append(ts[c], x)
  <2>1. heap' = heap /\ ts' = [ts EXCEPT ![c] = q] /\ slice' = slice /\ down' = down
    BY <1>5 DEF ScheduleEvent
  <2>2. t \in Int
    BY <1>2
  <2> HIDE DEF t
  <2>4. x \in EventSet /\ x.id = e /\ x.time = t /\ x.how = "cross"
    BY <2>2 DEF Event, EventSet, Hows
  <2> HIDE DEF x
  <2>5. q \in Seq(EventSet) /\ ToSet(q) = ToSet(ts[c]) \cup {x} /\ (e # Pump => SamePump(q, ts[c]))
    BY <1>2, <2>4, AppendFacts
  <2> HIDE DEF q
  <2>6. /\ ts' \in [Cores -> Seq(EventSet)] /\ ts'[c] = q
        /\ \A d \in Cores : d # c => ts'[d] = ts[d]
    BY <1>1, <2>1, <2>5
  <2>7. QueueTypes' /\ ClockTypes'
    BY <1>1, <2>1, <2>6 DEF QueueTypes, ClockTypes
  <2>8. e # Pump => \A d \in Cores : NoPump(ts'[d])
    BY <1>1, <2>5, <2>6 DEF SamePump
  <2>9. \A d \in Cores : \A y \in ToSet(ts'[d]) : y \in ToSet(ts[d]) \/ y.how = "cross"
    BY <2>4, <2>5, <2>6
  <2> QED
    BY <1>2, <1>5, <2>1, <2>7, <2>8, <2>9, SamePumpRefl
<1> QED
  BY <1>3, <1>4, <1>5

LEMMA GuestScheduleBasic ==
  ASSUME Basic, NEW e \in Guest, NEW cycles \in Delays, NEW c \in Cores, GuestSchedule(e, cycles, c)
  PROVE  Basic'
<1>1. /\ pc = "call" /\ pc' = "called" /\ ScheduleEvent(e, cycles, c) /\ exec' = exec /\ sane' = sane
      /\ locked' = locked /\ current' = current /\ loc' = loc /\ snap' = snap /\ loads' = loads
  BY DEF GuestSchedule, files
<1>2. e \in Events /\ e # Pump /\ cycles \in Nat
  BY TimingAssumption DEF Events
<1>3. /\ QueueTypes' /\ ClockTypes'
      /\ \A d \in Cores : slice'[d] - down'[d] = slice[d] - down[d] /\ slice'[d] <= slice[d]
      /\ \A d \in Cores : d # current => /\ heap'[d] = heap[d]
                                         /\ slice'[d] = slice[d] /\ down'[d] = down[d]
      /\ \A d \in Cores : SamePump(heap'[d], heap[d])
      /\ \A d \in Cores : NoPump(ts'[d])
  BY <1>1, <1>2, ScheduleFacts
<1>4. loc.core \in Cores /\ current = loc.core /\ ~sane[loc.core] /\ down[loc.core] < slice[loc.core]
      /\ (~loc.alone => loc.start = exec[loc.core])
  BY <1>1 DEF Basic, Phases, LocalCore, RunningCore, Running
<1>5. Types'
  BY <1>1, <1>3 DEF Basic, Types, ControlTypes, FileTypes, PCs
<1>6. Pumps'
  <2>1. Armed(heap) => Armed(heap')
    BY <1>3, ArmedSame
  <2> QED
    BY <1>1, <1>3, <2>1 DEF Basic, Pumps
<1>7. IdlingCores'
  <2>1. \A d \in Cores : Idling(d)' => Idling(d) /\ d # loc.core
    BY <1>1, <1>4, CoreFacts DEF Idling, Running
  <2> QED
    BY <1>1, <1>3, <1>4, <2>1 DEF Basic, Phases, IdlingCores, Future
<1>8. RunningCore'
  <2>1. /\ slice[loc.core] \in Nat /\ down[loc.core] \in Int
        /\ slice'[loc.core] \in Nat /\ down'[loc.core] \in Int
    BY <1>3, <1>4, BasicTypes DEF ClockTypes, ClockSet
  <2>2. down'[loc.core] < slice'[loc.core]
    BY <1>3, <1>4, <2>1
  <2> QED
    BY <1>1, <1>4, <2>2 DEF RunningCore
<1>9. AdvancingCore' /\ LocalCore' /\ Victim' /\ CommonSlice'
  BY <1>1, <1>4 DEF AdvancingCore, Advancing, LocalCore, Victim, CommonSlice, Running
<1> QED
  BY <1>5, <1>6, <1>7, <1>8, <1>9 DEF Basic, Phases

(* What UnscheduleEvent leaves. *)
LEMMA UnscheduleFacts ==
  ASSUME Basic, NEW e, UnscheduleEvent(e)
  PROVE  /\ QueueTypes' /\ ts' = ts
         /\ e # Pump => \A d \in Cores : SamePump(heap'[d], heap[d])
         /\ \A d \in Cores : ToSet(heap'[d]) \subseteq ToSet(heap[d])
<1>1. /\ heap \in [Cores -> HeapSet] /\ ts \in [Cores -> Seq(EventSet)] /\ ts' = ts
      /\ \A d \in Cores : heap[d] \in HeapSet
  BY DEF Basic, Types, QueueTypes, UnscheduleEvent
<1>2. CASE locked
  <2>1. heap' = heap
    BY <1>2 DEF UnscheduleEvent
  <2> QED
    BY <1>1, <2>1, SamePumpRefl DEF QueueTypes
<1>3. CASE ~locked
  <2>1. heap' = [d \in Cores |-> Erase(heap[d], e)]
    BY <1>3 DEF UnscheduleEvent, Without
  <2>2. \A d \in Cores : /\ Erase(heap[d], e) \in HeapSet /\ ToSet(Erase(heap[d], e)) \subseteq ToSet(heap[d])
                         /\ e # Pump => SamePump(Erase(heap[d], e), heap[d])
    BY <1>1, EraseHeap
  <2> QED
    BY <1>1, <2>1, <2>2 DEF QueueTypes
<1> QED
  BY <1>2, <1>3

LEMMA GuestUnscheduleBasic ==
  ASSUME Basic, NEW e \in Guest, GuestUnschedule(e)
  PROVE  Basic'
<1>1. /\ pc = "call" /\ pc' = "called" /\ UnscheduleEvent(e) /\ exec' = exec /\ sane' = sane
      /\ slice' = slice /\ down' = down
      /\ locked' = locked /\ current' = current /\ loc' = loc /\ snap' = snap /\ loads' = loads
  BY DEF GuestUnschedule, files, clocks
<1>2. e # Pump
  BY TimingAssumption
<1>3. /\ QueueTypes' /\ ts' = ts
      /\ \A d \in Cores : SamePump(heap'[d], heap[d])
      /\ \A d \in Cores : ToSet(heap'[d]) \subseteq ToSet(heap[d])
  BY <1>1, <1>2, UnscheduleFacts
<1>5. Types'
  BY <1>1, <1>3 DEF Basic, Types, ControlTypes, FileTypes, PCs, ClockTypes
<1>6. Pumps'
  <2>1. Armed(heap) => Armed(heap')
    BY <1>3, ArmedSame
  <2> QED
    BY <1>1, <1>3, <2>1 DEF Basic, Pumps
<1>7. IdlingCores'
  <2>1. \A d \in Cores : Idling(d)' => Idling(d)
    BY <1>1 DEF Idling, Running
  <2>2. \A d \in Cores : Future(d) => Future(d)'
    BY <1>1, <1>3 DEF Future
  <2> QED
    BY <1>1, <2>1, <2>2 DEF Basic, Phases, IdlingCores
<1>9. AdvancingCore' /\ LocalCore' /\ Victim' /\ CommonSlice' /\ RunningCore'
  BY <1>1 DEF Basic, Phases, AdvancingCore, Advancing, LocalCore, Victim, CommonSlice, RunningCore, Running
<1> QED
  BY <1>5, <1>6, <1>7, <1>9 DEF Basic, Phases

(* A callback schedules on the core inside Advance, whose slice is over,   *)
(* or in the thread-safe queue of another one.                             *)
LEMMA CallbackFacts ==
  ASSUME Basic, NEW e \in Guest, NEW cycles \in Delays \ {0}, NEW c \in Cores,
         CallbackSchedules(e, cycles, c)
  PROVE  /\ QueueTypes' /\ slice' = slice /\ down' = down
         /\ loc.core \in Cores /\ Advancing(loc.core)
         /\ \A d \in Cores : d # loc.core => heap'[d] = heap[d]
         /\ \A d \in Cores : SamePump(heap'[d], heap[d]) /\ NoPump(ts'[d])
         /\ \A x \in ToSet(heap'[loc.core]) :
              x \in ToSet(heap[loc.core]) \/ (x.how = "own" /\ x.time >= exec[loc.core])
         /\ \A d \in Cores : \A x \in ToSet(ts'[d]) : x \in ToSet(ts[d]) \/ x.how = "cross"
<1>1. ScheduleEvent(e, cycles, c) /\ exec' = exec /\ sane' = sane
  BY DEF CallbackSchedules
<1>2. e \in Events /\ e # Pump /\ cycles \in Nat
  BY TimingAssumption DEF Events
<1>3. loc.core \in Cores /\ Advancing(loc.core)
  BY DEF CallbackSchedules, Basic, Phases, LocalCore, Advancing
<1>4. current = loc.core /\ slice[loc.core] = 0 /\ down[loc.core] = 0
  BY <1>3 DEF Basic, Phases, AdvancingCore
<1>5. exec[loc.core] \in Nat /\ Ticks(loc.core) = exec[loc.core]
  <2>1. exec[loc.core] \in Nat
    BY <1>3, BasicTypes
  <2> QED
    BY <2>1, <1>4 DEF Ticks
<1>6. slice' = slice /\ down' = down
  <2>1. Max({0, cycles}) = cycles
    BY <1>2, MaxZero
  <2>2. c = current => (ForceExceptionCheck(c, cycles) => slice' = slice /\ down' = down)
    BY <2>1, <1>2, <1>4 DEF ForceExceptionCheck
  <2> QED
    BY <2>2, <1>1 DEF ScheduleEvent
<1>7. /\ QueueTypes'
      /\ \A d \in Cores : d # current => heap'[d] = heap[d]
      /\ \A d \in Cores : SamePump(heap'[d], heap[d])
      /\ \A d \in Cores : NoPump(ts'[d])
      /\ \A x \in ToSet(heap'[current]) :
           x \in ToSet(heap[current]) \/ (x.how = "own" /\ x.time >= Ticks(current))
      /\ \A d \in Cores : \A x \in ToSet(ts'[d]) : x \in ToSet(ts[d]) \/ x.how = "cross"
  BY <1>1, <1>2, ScheduleFacts
<1> QED
  BY <1>3, <1>4, <1>5, <1>6, <1>7

LEMMA CallbackSchedulesBasic ==
  ASSUME Basic, NEW e \in Guest, NEW cycles \in Delays \ {0}, NEW c \in Cores,
         CallbackSchedules(e, cycles, c)
  PROVE  Basic'
<1>1. /\ QueueTypes' /\ slice' = slice /\ down' = down
      /\ loc.core \in Cores /\ pc \in {"syncing", "advancing"}
      /\ \A d \in Cores : d # loc.core => heap'[d] = heap[d]
      /\ \A d \in Cores : SamePump(heap'[d], heap[d]) /\ NoPump(ts'[d])
  BY CallbackFacts DEF Advancing
<1>2. /\ locked' = locked /\ current' = current /\ pc' = pc /\ loc' = loc /\ exec' = exec
      /\ sane' = sane /\ snap' = snap /\ loads' = loads
  BY DEF CallbackSchedules, files
<1>3. Types'
  BY <1>1, <1>2 DEF Basic, Types, ClockTypes, ControlTypes, FileTypes
<1>4. Pumps'
  <2>1. Armed(heap) => Armed(heap')
    BY <1>1, ArmedSame
  <2> QED
    BY <1>1, <1>2, <2>1 DEF Basic, Pumps
<1>5. IdlingCores'
  <2>1. \A d \in Cores : Idling(d)' => Idling(d) /\ d # loc.core
    BY <1>1, <1>2, CoreFacts DEF Idling, Running
  <2> QED
    BY <1>1, <1>2, <2>1 DEF Basic, Phases, IdlingCores, Future
<1>6. AdvancingCore' /\ LocalCore' /\ Victim' /\ CommonSlice' /\ RunningCore'
  BY <1>1, <1>2 DEF Basic, Phases, AdvancingCore, Advancing, LocalCore, Victim, CommonSlice, RunningCore,
                    Running
<1> QED
  BY <1>3, <1>4, <1>5, <1>6 DEF Basic, Phases

LEMMA CallbackUnschedulesBasic ==
  ASSUME Basic, NEW e \in Guest, CallbackUnschedules(e)
  PROVE  Basic'
<1>1. /\ UnscheduleEvent(e) /\ exec' = exec /\ sane' = sane /\ slice' = slice /\ down' = down
      /\ locked' = locked /\ current' = current /\ pc' = pc /\ loc' = loc /\ snap' = snap /\ loads' = loads
  BY DEF CallbackUnschedules, files, clocks
<1>2. e # Pump
  BY TimingAssumption
<1>3. /\ QueueTypes' /\ ts' = ts
      /\ \A d \in Cores : SamePump(heap'[d], heap[d])
      /\ \A d \in Cores : ToSet(heap'[d]) \subseteq ToSet(heap[d])
  BY <1>1, <1>2, UnscheduleFacts
<1>4. Types'
  BY <1>1, <1>3 DEF Basic, Types, ControlTypes, FileTypes, PCs, ClockTypes
<1>5. Pumps'
  <2>1. Armed(heap) => Armed(heap')
    BY <1>3, ArmedSame
  <2> QED
    BY <1>1, <1>3, <2>1 DEF Basic, Pumps
<1>6. IdlingCores'
  <2>1. \A d \in Cores : Idling(d)' => Idling(d)
    BY <1>1 DEF Idling, Running
  <2>2. \A d \in Cores : Future(d) => Future(d)'
    BY <1>1, <1>3 DEF Future
  <2> QED
    BY <1>1, <2>1, <2>2 DEF Basic, Phases, IdlingCores
<1>7. AdvancingCore' /\ LocalCore' /\ Victim' /\ CommonSlice' /\ RunningCore'
  BY <1>1 DEF Basic, Phases, AdvancingCore, Advancing, LocalCore, Victim, CommonSlice, RunningCore, Running
<1> QED
  BY <1>4, <1>5, <1>6, <1>7 DEF Basic, Phases

(* Another host thread only adds to a thread-safe queue. *)
LEMMA HostFacts ==
  ASSUME Basic, NEW e \in Async, NEW c \in Cores, HostSchedule(e, c)
  PROVE  /\ QueueTypes'
         /\ \A d \in Cores : NoPump(ts'[d])
         /\ \A d \in Cores : \A x \in ToSet(ts'[d]) : x \in ToSet(ts[d]) \/ x.how = "async"
<1>1. /\ heap \in [Cores -> HeapSet] /\ ts \in [Cores -> Seq(EventSet)]
      /\ \A d \in Cores : NoPump(ts[d])
      /\ Ticks(c) \in Int
      /\ ts[c] \in Seq(EventSet) /\ heap' = heap
  BY BasicTypes DEF Basic, Types, QueueTypes, Pumps, HostSchedule
<1>2. PICK off \in Readings :
        ts' = [ts EXCEPT ![c] = Append(@, Event(e, Ticks(c) + off + AsyncDelay, "async"))]
  BY DEF HostSchedule
<1> DEFINE t == Ticks(c) + off + AsyncDelay
           x == Event(e, t, "async")
           q == Append(ts[c], x)
<1>3. t \in Int
  <2>1. off \in Int /\ AsyncDelay \in Int
    BY CoreFacts, TimingAssumption DEF AsyncDelay
  <2> QED
    BY <1>1, <2>1
<1> HIDE DEF t
<1>4. e \in Events /\ e # Pump
  BY TimingAssumption DEF Events
<1>5. x \in EventSet /\ x.id = e /\ x.how = "async"
  BY <1>3, <1>4, Zenon DEF Event, EventSet, Hows
<1> HIDE DEF x
<1>6. q \in Seq(EventSet) /\ ToSet(q) = ToSet(ts[c]) \cup {x} /\ SamePump(q, ts[c])
  BY <1>1, <1>4, <1>5, AppendFacts
<1>7. ts' = [ts EXCEPT ![c] = q]
  BY <1>2 DEF x, t
<1> HIDE DEF q
<1>8. ts' \in [Cores -> Seq(EventSet)] /\ ts'[c] = q /\ \A d \in Cores : d # c => ts'[d] = ts[d]
  BY <1>1, <1>6, <1>7
<1>9. QueueTypes'
  BY <1>1, <1>8 DEF QueueTypes
<1>10. \A d \in Cores : NoPump(ts'[d])
  BY <1>1, <1>6, <1>8 DEF SamePump
<1>11. \A d \in Cores : \A y \in ToSet(ts'[d]) : y \in ToSet(ts[d]) \/ y.how = "async"
  BY <1>5, <1>6, <1>8
<1> QED
  BY <1>9, <1>10, <1>11

LEMMA HostScheduleBasic ==
  ASSUME Basic, NEW e \in Async, NEW c \in Cores, HostSchedule(e, c)
  PROVE  Basic'
<1>1. QueueTypes' /\ \A d \in Cores : NoPump(ts'[d])
  BY HostFacts
<1>2. /\ heap' = heap /\ locked' = locked /\ current' = current /\ pc' = pc /\ loc' = loc /\ exec' = exec
      /\ slice' = slice /\ down' = down /\ sane' = sane /\ snap' = snap /\ loads' = loads
  BY DEF HostSchedule, clocks, files
<1>3. Types'
  BY <1>1, <1>2 DEF Basic, Types, ClockTypes, ControlTypes, FileTypes
<1>4. Pumps'
  BY <1>1, <1>2 DEF Basic, Pumps
<1>5. Phases'
  BY <1>2 DEF Basic, Phases, IdlingCores, Idling, Future, AdvancingCore, Advancing, LocalCore, Victim,
              CommonSlice, RunningCore, Running
<1> QED
  BY <1>3, <1>4, <1>5 DEF Basic

(* The queues of a save. *)
LEMMA SaveFacts ==
  ASSUME Basic, SaveState
  PROVE  /\ QueueTypes'
         /\ \A c \in Cores : SamePump(heap'[c], heap[c]) /\ NoPump(ts'[c]) /\ ts'[c] = <<>>
         /\ \A c \in Cores : ToSet(heap'[c]) \subseteq ToSet(heap[c]) \cup ToSet(ts[c])
<1>1. /\ \A c \in Cores : heap[c] \in HeapSet /\ ts[c] \in Seq(EventSet) /\ NoPump(ts[c])
  BY BasicTypes DEF Basic, Pumps
<1>2. \A c \in Cores : /\ PushAll(heap[c], ts[c]) \in HeapSet
                       /\ ToSet(PushAll(heap[c], ts[c])) \subseteq ToSet(heap[c]) \cup ToSet(ts[c])
                       /\ SamePump(PushAll(heap[c], ts[c]), heap[c])
  BY <1>1, PushAllHeap
<1>3. heap' = [c \in Cores |-> PushAll(heap[c], ts[c])] /\ ts' = [c \in Cores |-> <<>>]
  BY DEF SaveState
<1>4. heap' \in [Cores -> HeapSet] /\ \A c \in Cores : heap'[c] = PushAll(heap[c], ts[c])
  BY <1>2, <1>3
<1>5. ts' \in [Cores -> Seq(EventSet)] /\ \A c \in Cores : ts'[c] = <<>> /\ NoPump(ts'[c])
  BY <1>3 DEF NoPump
<1> QED
  BY <1>2, <1>4, <1>5 DEF QueueTypes

LEMMA SaveStateBasic ==
  ASSUME Basic, SaveState
  PROVE  Basic'
<1>1. /\ QueueTypes'
      /\ \A c \in Cores : SamePump(heap'[c], heap[c]) /\ NoPump(ts'[c])
  BY SaveFacts
<1>2. /\ pc = "start" /\ locked' = locked /\ current' = current /\ pc' = pc /\ loc' = loc /\ exec' = exec
      /\ slice' = slice /\ down' = down /\ sane' = sane /\ snap' = snap /\ loads' = loads
  BY DEF SaveState, clocks, files
<1>3. Types'
  BY <1>1, <1>2 DEF Basic, Types, ClockTypes, ControlTypes, FileTypes
<1>4. Pumps'
  <2>1. Armed(heap) => Armed(heap')
    BY <1>1, ArmedSame
  <2> QED
    BY <1>1, <1>2, <2>1 DEF Basic, Pumps
<1>5. Phases'
  BY <1>2 DEF Phases, IdlingCores, Idling, AdvancingCore, Advancing, LocalCore, Victim,
              CommonSlice, RunningCore, Running
<1> QED
  BY <1>3, <1>4, <1>5 DEF Basic

(* Outside of a round the local variables do not matter. *)
LEMMA NoPhase ==
  ASSUME pc \in {"start", "loading", "restoring", "rearm", "split"}
  PROVE  Phases
BY DEF Phases, IdlingCores, Idling, AdvancingCore, Advancing, LocalCore, Victim,
       CommonSlice, RunningCore, Running

Shift(q, b) == [i \in DOMAIN q |-> [q[i] EXCEPT !.time = @ - b]]

LEMMA ShiftTypes ==
  ASSUME NEW q \in Seq(EventSet), NEW b \in Int
  PROVE  Shift(q, b) \in Seq(EventSet) /\ Shifted(Shift(q, b), q, b)
<1> DEFINE p == [i \in DOMAIN q |-> [q[i] EXCEPT !.time = @ - b]]
<1>1. Len(q) \in Nat /\ DOMAIN q = 1 .. Len(q) /\ \A i \in 1 .. Len(q) : q[i] \in EventSet
  OBVIOUS
<1>2. \A x \in EventSet : [x EXCEPT !.time = @ - b] \in EventSet
  BY DEF EventSet
<1>3. p \in [1 .. Len(q) -> EventSet]
  BY <1>1, <1>2
<1>4. p \in Seq(EventSet)
  BY <1>1, <1>3
<1>5. DOMAIN p = DOMAIN q /\ \A i \in DOMAIN q : p[i] = [q[i] EXCEPT !.time = @ - b]
  OBVIOUS
<1> QED
  BY <1>4, <1>5 DEF Shifted, Shift

(* A round begins: the slowest core is the origin of the time. *)
LEMMA BeginFacts ==
  ASSUME Basic, Begin
  PROVE  \E b \in Nat, g \in Cores :
           /\ QueueTypes' /\ exec' \in ClockSet /\ \A c \in Cores : exec'[c] = exec[c] - b
           /\ \A c \in Cores : Shifted(heap'[c], heap[c], b) /\ Shifted(ts'[c], ts[c], b)
           /\ loc' \in LocSet /\ loc'.core = 0 /\ loc'.maxDelay = 0
           /\ loc'.global = Ticks(g) - b /\ \A c \in Cores : Ticks(c) <= Ticks(g)
<1>1. exec \in [Cores -> Int] /\ exec \in [Cores -> Nat]
  BY DEF Basic, Types, ClockTypes, ClockSet
<1> DEFINE T == [c \in Cores |-> Ticks(c)]
           b == Min({exec[c] : c \in Cores})
           m == Max({T[c] : c \in Cores})
<1>2. \A c \in Cores : Ticks(c) \in Int /\ heap[c] \in HeapSet /\ ts[c] \in Seq(EventSet)
                       /\ heap[c] \in Seq(EventSet) /\ Sorted(heap[c])
  BY BasicTypes DEF HeapSet
<1>3. T \in [Cores -> Int] /\ \A c \in Cores : T[c] = Ticks(c)
  BY <1>2
<1>4. b \in Nat /\ \A c \in Cores : b <= exec[c]
  BY <1>1, MinCores
<1>5. PICK g \in Cores : m = T[g] /\ \A c \in Cores : T[c] <= T[g]
  BY <1>3, MaxCores
<1>6. m = Max({Ticks(c) : c \in Cores})
  <2>1. {T[c] : c \in Cores} = {Ticks(c) : c \in Cores}
    BY <1>3
  <2> QED
    BY <2>1
<1>7. /\ exec' = [c \in Cores |-> exec[c] - b]
      /\ heap' = [c \in Cores |-> Shift(heap[c], b)] /\ ts' = [c \in Cores |-> Shift(ts[c], b)]
      /\ loc' = [NoLoc EXCEPT !.global = Max({Ticks(c) : c \in Cores}) - b]
  BY DEF Begin, Shift
<1>8. loc' = [NoLoc EXCEPT !.global = Ticks(g) - b]
  BY <1>3, <1>5, <1>6, <1>7
<1> HIDE DEF b, m, T
<1>9. Ticks(g) - b \in Int
  BY <1>2, <1>4
<1>10. NoLoc \in LocSet
  BY CoreFacts DEF NoLoc, LocSet
<1>11. loc' \in LocSet
  BY <1>8, <1>9, <1>10, Zenon DEF LocSet
<1>12. loc'.core = 0 /\ loc'.maxDelay = 0 /\ loc'.global = Ticks(g) - b
  BY <1>8 DEF NoLoc
<1>13. \A c \in Cores : /\ Shift(heap[c], b) \in Seq(EventSet) /\ Shifted(Shift(heap[c], b), heap[c], b)
                        /\ Shift(ts[c], b) \in Seq(EventSet) /\ Shifted(Shift(ts[c], b), ts[c], b)
  <2>1. b \in Int
    BY <1>4
  <2> QED
    BY <2>1, <1>2, ShiftTypes, Zenon
<1>14. \A c \in Cores : Shift(heap[c], b) \in HeapSet
  <2> TAKE c \in Cores
  <2>1. Sorted(Shift(heap[c], b))
    BY <1>2, <1>4, <1>13, ShiftHeap
  <2> QED
    BY <2>1, <1>13 DEF HeapSet
<1>15. heap' \in [Cores -> HeapSet] /\ \A c \in Cores : heap'[c] = Shift(heap[c], b)
  BY <1>7, <1>14
<1>16. ts' \in [Cores -> Seq(EventSet)] /\ \A c \in Cores : ts'[c] = Shift(ts[c], b)
  BY <1>7, <1>13
<1>17. exec' \in ClockSet /\ \A c \in Cores : exec'[c] = exec[c] - b
  BY <1>1, <1>4, <1>7 DEF ClockSet
<1>18. \A c \in Cores : Ticks(c) <= Ticks(g)
  BY <1>3, <1>5
<1>19. \A c \in Cores : Shifted(heap'[c], heap[c], b) /\ Shifted(ts'[c], ts[c], b)
  BY <1>13, <1>15, <1>16
<1> QED
  BY <1>4, <1>11, <1>12, <1>15, <1>16, <1>17, <1>18, <1>19 DEF QueueTypes

LEMMA BeginBasic ==
  ASSUME Basic, Begin
  PROVE  Basic'
<1>1. /\ pc = "start" /\ pc' = "sync" /\ locked' = locked /\ current' = current
      /\ slice' = slice /\ down' = down /\ sane' = sane /\ snap' = snap /\ loads' = loads
  BY DEF Begin, files
<1>2. PICK b \in Nat, g \in Cores :
           /\ QueueTypes' /\ exec' \in ClockSet /\ \A c \in Cores : exec'[c] = exec[c] - b
           /\ \A c \in Cores : Shifted(heap'[c], heap[c], b) /\ Shifted(ts'[c], ts[c], b)
           /\ loc' \in LocSet /\ loc'.core = 0 /\ loc'.maxDelay = 0
  BY BeginFacts
<1>3. Types'
  BY <1>1, <1>2 DEF Basic, Types, ClockTypes, ControlTypes, FileTypes, PCs
<1>4. \A c \in Cores : /\ heap[c] \in Seq(EventSet) /\ ts[c] \in Seq(EventSet)
                       /\ heap'[c] \in Seq(EventSet) /\ ts'[c] \in Seq(EventSet)
  BY <1>2, BasicTypes DEF HeapSet, QueueTypes
<1>5. \A c \in Cores : /\ NoPump(heap[c]) => NoPump(heap'[c])
                       /\ OnePump(heap[c]) => OnePump(heap'[c])
                       /\ NoPump(ts[c]) => NoPump(ts'[c])
  <2> TAKE c \in Cores
  <2>1. /\ heap[c] \in Seq(EventSet) /\ heap'[c] \in Seq(EventSet) /\ Shifted(heap'[c], heap[c], b)
        /\ ts[c] \in Seq(EventSet) /\ ts'[c] \in Seq(EventSet) /\ Shifted(ts'[c], ts[c], b)
    BY <1>2, <1>4, Zenon
  <2>2. b \in Int
    BY <1>2
  <2>3. /\ NoPump(heap[c]) => NoPump(heap'[c])
        /\ OnePump(heap[c]) => OnePump(heap'[c])
    BY ONLY <2>1, <2>2, ShiftHeap, Zenon
  <2>4. NoPump(ts[c]) => NoPump(ts'[c])
    BY ONLY <2>1, <2>2, ShiftHeap, Zenon
  <2> QED
    BY <2>3, <2>4
<1>6. Armed(heap) => Armed(heap')
  BY <1>5 DEF Armed
<1>7. Pumps'
  BY <1>1, <1>5, <1>6 DEF Basic, Pumps
<1>8. Phases'
  BY <1>1, <1>2 DEF Phases, IdlingCores, Idling, AdvancingCore, Advancing, LocalCore, Victim,
              CommonSlice, RunningCore, Running
<1> QED
  BY <1>3, <1>7, <1>8 DEF Basic

(* A new Timing object. *)
LEMMA FreshFacts ==
  /\ FreshHeap \in [Cores -> HeapSet] /\ Armed(FreshHeap)
  /\ \A c \in Cores : \A x \in ToSet(FreshHeap[c]) : c = 0 /\ x.time = MaxSlice /\ x.how = "own"
  /\ [c \in Cores |-> <<>>] \in [Cores -> HeapSet]
  /\ [c \in Cores |-> <<>>] \in [Cores -> Seq(EventSet)]
  /\ NoPump(<<>>) /\ NoLoc \in LocSet
<1> DEFINE x == Event(Pump, MaxSlice, "own")
           q == <<x>>
<1>1. MaxSlice \in Int /\ Pump \in Events /\ "own" \in Hows
  BY CoreFacts DEF Events, Hows
<1>2. x \in EventSet /\ x.id = Pump /\ x.time = MaxSlice /\ x.how = "own" /\ x.time \in Int
  BY <1>1 DEF EventSet, Event
<1>3. FreshHeap = [c \in Cores |-> IF c = 0 THEN q ELSE <<>>]
  BY DEF FreshHeap
<1> HIDE DEF x
<1>4. q \in Seq(EventSet) /\ DOMAIN q = {1} /\ q[1] = x /\ ToSet(q) = {x}
  BY <1>2 DEF ToSet
<1>5. q \in HeapSet /\ OnePump(q)
  BY <1>2, <1>4 DEF HeapSet, Sorted, OnePump
<1>6. <<>> \in HeapSet /\ <<>> \in Seq(EventSet) /\ NoPump(<<>>) /\ ToSet(<<>>) = {}
  BY DEF HeapSet, Sorted, NoPump, ToSet
<1> HIDE DEF q
<1>7. /\ FreshHeap \in [Cores -> HeapSet]
      /\ \A c \in Cores : FreshHeap[c] = IF c = 0 THEN q ELSE <<>>
  BY <1>3, <1>5, <1>6
<1>8. Armed(FreshHeap)
  BY <1>5, <1>6, <1>7, CoreFacts DEF Armed
<1>9. NoLoc \in LocSet
  BY CoreFacts DEF NoLoc, LocSet
<1> QED
  BY <1>2, <1>4, <1>6, <1>7, <1>8, <1>9

(* What a file may hold. *)
LEMMA SnapTypes ==
  ASSUME NEW h \in [Cores -> HeapSet], NEW x \in ClockSet, NEW s \in ClockSet,
         NEW d \in [Cores -> Int], NEW cur \in Cores, InSlice(s, d)
  PROVE  /\ Snapshot(h, x, s, d, cur) \in SnapSet
         /\ InSlice(Snapshot(h, x, s, d, cur).slice, Snapshot(h, x, s, d, cur).down)
BY DEF Snapshot, SnapSet

LEMMA ConstantClocks ==
  /\ [c \in Cores |-> 0] \in ClockSet /\ [c \in Cores |-> 0] \in [Cores -> Int]
  /\ [c \in Cores |-> MaxSlice] \in ClockSet /\ [c \in Cores |-> MaxSlice] \in [Cores -> Int]
  /\ InSlice([c \in Cores |-> 0], [c \in Cores |-> 0])
  /\ InSlice([c \in Cores |-> MaxSlice], [c \in Cores |-> MaxSlice])
  /\ [c \in Cores |-> TRUE] \in [Cores -> BOOLEAN]
BY CoreFacts DEF ClockSet, InSlice

LEMMA FileFacts ==
  ASSUME Basic
  PROVE  /\ NoFile \in SnapSet /\ InSlice(NoFile.slice, NoFile.down)
         /\ \A f \in Files : f \in SnapSet /\ InSlice(f.slice, f.down)
<1> DEFINE zero == [c \in Cores |-> 0]
           full == [c \in Cores |-> MaxSlice]
           none == [c \in Cores |-> <<>>]
           boot(h) == Snapshot(h, zero, full, full, 0)
           now == Snapshot(heap, exec, slice, down, current)
<1>1. 0 \in Cores
  BY CoreFacts
<1>2. /\ zero \in ClockSet /\ zero \in [Cores -> Int] /\ InSlice(zero, zero)
      /\ full \in ClockSet /\ full \in [Cores -> Int] /\ InSlice(full, full)
      /\ none \in [Cores -> HeapSet] /\ FreshHeap \in [Cores -> HeapSet]
  BY ConstantClocks, FreshFacts
<1>3. NoFile = Snapshot(none, zero, zero, zero, 0)
  BY DEF NoFile
<1>4. /\ heap \in [Cores -> HeapSet] /\ exec \in ClockSet /\ slice \in ClockSet
      /\ down \in [Cores -> Int] /\ current \in Cores /\ InSlice(slice, down)
  BY DEF Basic, Types, QueueTypes, ClockTypes, ControlTypes
<1>5. \A f \in Files : f = boot(FreshHeap) \/ f = boot(none) \/ f = now
  BY DEF Files
<1> HIDE DEF zero, full, none
<1>6. NoFile \in SnapSet /\ InSlice(NoFile.slice, NoFile.down)
  BY <1>1, <1>2, <1>3, SnapTypes
<1>7. boot(FreshHeap) \in SnapSet /\ InSlice(boot(FreshHeap).slice, boot(FreshHeap).down)
  BY <1>1, <1>2, SnapTypes
<1>8. boot(none) \in SnapSet /\ InSlice(boot(none).slice, boot(none).down)
  BY <1>1, <1>2, SnapTypes
<1>9. now \in SnapSet /\ InSlice(now.slice, now.down)
  BY <1>4, SnapTypes
<1> HIDE DEF boot, now
<1> QED
  BY <1>5, <1>6, <1>7, <1>8, <1>9

LEMMA InitBasic ==
  ASSUME Init
  PROVE  Basic
<1> DEFINE zero == [c \in Cores |-> 0]
           none == [c \in Cores |-> <<>>]
<1>1. /\ heap = FreshHeap /\ ts = none /\ exec = zero
      /\ slice = [c \in Cores |-> MaxSlice] /\ down = [c \in Cores |-> MaxSlice]
      /\ sane = [c \in Cores |-> TRUE]
      /\ locked = FALSE /\ current = 0 /\ pc = "start" /\ loc = NoLoc /\ loads = 0
      /\ snap = Snapshot(none, zero, zero, zero, 0)
  BY DEF Init, NoFile
<1>2. QueueTypes
  BY <1>1, FreshFacts DEF QueueTypes
<1>3. ClockTypes
  BY <1>1, ConstantClocks DEF ClockTypes
<1>4. ControlTypes
  BY <1>1, FreshFacts, CoreFacts DEF ControlTypes, PCs
<1>5. FileTypes
  <2>1. none \in [Cores -> HeapSet] /\ zero \in ClockSet /\ zero \in [Cores -> Int] /\ InSlice(zero, zero)
        /\ 0 \in Cores
    BY ConstantClocks, FreshFacts, CoreFacts
  <2> HIDE DEF none, zero
  <2>2. snap \in SnapSet /\ InSlice(snap.slice, snap.down)
    BY <1>1, <2>1, SnapTypes
  <2> QED
    BY <1>1, <2>2, CoreFacts DEF FileTypes
<1>6. Pumps
  <2>1. Armed(heap) /\ NoPump(<<>>)
    BY <1>1, FreshFacts
  <2> QED
    BY <1>1, <2>1 DEF Pumps
<1>7. Phases
  BY <1>1, NoPhase
<1> QED
  BY <1>2, <1>3, <1>4, <1>5, <1>6, <1>7 DEF Basic, Types

LEMMA LoadStateBasic ==
  ASSUME Basic, LoadState
  PROVE  Basic'
<1>1. /\ heap' = FreshHeap /\ ts' = [c \in Cores |-> <<>>] /\ exec' = [c \in Cores |-> 0]
      /\ slice' = [c \in Cores |-> MaxSlice] /\ down' = [c \in Cores |-> MaxSlice]
      /\ sane' = [c \in Cores |-> TRUE] /\ loads < MaxLoads /\ loads' = loads + 1
      /\ locked' = locked /\ current' = 0 /\ pc \in {"start", "split"} /\ pc' = "loading" /\ loc' = loc
      /\ snap' \in Files
  BY DEF LoadState
<1>2. QueueTypes'
  BY <1>1, FreshFacts DEF QueueTypes
<1>3. ClockTypes'
  BY <1>1, ConstantClocks DEF ClockTypes
<1>4. ControlTypes'
  BY <1>1, CoreFacts DEF Basic, Types, ControlTypes, PCs
<1>5. FileTypes'
  BY <1>1, FileFacts, CoreFacts DEF Basic, Types, FileTypes
<1>6. Pumps'
  <2>1. \A c \in Cores : NoPump(ts'[c])
    BY <1>1, FreshFacts
  <2> QED
    BY <1>1, <2>1 DEF Basic, Pumps
<1>7. Phases'
  BY <1>1 DEF Phases, IdlingCores, Idling, AdvancingCore, Advancing, LocalCore, Victim,
              CommonSlice, RunningCore, Running
<1> QED
  BY <1>2, <1>3, <1>4, <1>5, <1>6, <1>7 DEF Basic, Types

LEMMA LoadTimingBasic ==
  ASSUME Basic, LoadTiming
  PROVE  Basic'
<1>1. /\ heap' = snap.heap /\ exec' = snap.exec /\ slice' = snap.slice /\ down' = snap.down
      /\ current' = snap.current /\ sane' = [c \in Cores |-> TRUE] /\ locked' = TRUE
      /\ snap' = NoFile /\ pc = "loading" /\ pc' = "restoring" /\ loc' = loc /\ loads' = loads
      /\ ts' = [c \in Cores |-> <<>>]
  BY DEF LoadTiming
<1>2. /\ snap.heap \in [Cores -> HeapSet] /\ snap.exec \in ClockSet /\ snap.slice \in ClockSet
      /\ snap.down \in [Cores -> Int] /\ snap.current \in Cores /\ InSlice(snap.slice, snap.down)
  BY DEF Basic, Types, FileTypes, SnapSet
<1>3. QueueTypes' /\ ClockTypes' /\ ControlTypes'
  BY <1>1, <1>2, FreshFacts DEF Basic, Types, QueueTypes, ClockTypes, ControlTypes, PCs
<1>4. FileTypes'
  BY <1>1, FileFacts DEF Basic, Types, FileTypes
<1>6. Pumps'
  <2>1. \A c \in Cores : NoPump(ts'[c])
    BY <1>1, FreshFacts
  <2> QED
    BY <1>1, <2>1 DEF Basic, Pumps
<1>7. Phases'
  BY <1>1 DEF Phases, IdlingCores, Idling, AdvancingCore, Advancing, LocalCore, Victim,
              CommonSlice, RunningCore, Running
<1> QED
  BY <1>3, <1>4, <1>6, <1>7 DEF Basic, Types

(* A load that throws while the Timers are read. *)
LEMMA LoadTimingThrowsBasic ==
  ASSUME Basic, NEW n \in 1 .. NumCores, LoadTimingThrows(n)
  PROVE  Basic'
<1> DEFINE read(f, g) == [c \in Cores |-> IF c < n THEN f[c] ELSE g[c]]
<1>1. /\ heap' = [c \in Cores |-> Erase(read(snap.heap, heap)[c], Pump)]
      /\ ts' = read([c \in Cores |-> <<>>], ts)
      /\ exec' = read(snap.exec, exec) /\ slice' = read(snap.slice, slice) /\ down' = read(snap.down, down)
      /\ snap' = NoFile /\ pc = "loading" /\ pc' = "split"
      /\ sane' = sane /\ locked' = locked /\ current' = current /\ loc' = loc /\ loads' = loads
  BY DEF LoadTimingThrows
<1>2. /\ snap.heap \in [Cores -> HeapSet] /\ snap.exec \in [Cores -> Nat] /\ snap.slice \in [Cores -> Nat]
      /\ snap.down \in [Cores -> Int] /\ InSlice(snap.slice, snap.down)
  BY DEF Basic, Types, FileTypes, SnapSet, ClockSet
<1>3. /\ heap \in [Cores -> HeapSet] /\ ts \in [Cores -> Seq(EventSet)] /\ exec \in [Cores -> Nat]
      /\ slice \in [Cores -> Nat] /\ down \in [Cores -> Int] /\ InSlice(slice, down)
      /\ sane \in [Cores -> BOOLEAN]
  BY DEF Basic, Types, QueueTypes, ClockTypes, ClockSet
<1>4. heap' \in [Cores -> HeapSet]
  <2>1. \A c \in Cores : read(snap.heap, heap)[c] \in HeapSet
    BY <1>2, <1>3
  <2> HIDE DEF read
  <2>2. \A c \in Cores : Erase(read(snap.heap, heap)[c], Pump) \in HeapSet
    BY <2>1, EraseHeap
  <2> QED
    BY <1>1, <2>2
<1>5. ts' \in [Cores -> Seq(EventSet)] /\ \A c \in Cores : NoPump(ts'[c])
  <2>1. <<>> \in Seq(EventSet) /\ NoPump(<<>>) /\ \A c \in Cores : NoPump(ts[c])
    BY FreshFacts DEF Basic, Pumps, NoPump
  <2>2. \A c \in Cores : ts'[c] = IF c < n THEN <<>> ELSE ts[c]
    BY <1>1
  <2>3. ts' = [c \in Cores |-> IF c < n THEN <<>> ELSE ts[c]]
    BY <1>1
  <2> QED
    BY <2>1, <2>2, <2>3, <1>3
<1>6. exec' \in [Cores -> Nat]
  BY <1>1, <1>2, <1>3
<1>7. slice' \in [Cores -> Nat]
  BY <1>1, <1>2, <1>3
<1>8. down' \in [Cores -> Int]
  BY <1>1, <1>2, <1>3
<1>9. InSlice(slice', down')
  <2>1. \A c \in Cores : /\ slice'[c] = IF c < n THEN snap.slice[c] ELSE slice[c]
                         /\ down'[c] = IF c < n THEN snap.down[c] ELSE down[c]
    BY <1>1
  <2> QED
    BY <2>1, <1>2, <1>3 DEF InSlice
<1>10. Types'
  <2>1. QueueTypes'
    BY <1>4, <1>5 DEF QueueTypes
  <2>2. ClockTypes'
    BY <1>1, <1>3, <1>6, <1>7, <1>8, <1>9 DEF ClockTypes, ClockSet
  <2>3. ControlTypes'
    BY <1>1 DEF Basic, Types, ControlTypes, PCs
  <2>4. FileTypes'
    BY <1>1, FileFacts DEF Basic, Types, FileTypes
  <2> QED
    BY <2>1, <2>2, <2>3, <2>4 DEF Types
<1>11. Pumps'
  BY <1>1, <1>5 DEF Basic, Pumps
<1>12. Phases'
  BY <1>1 DEF Phases, IdlingCores, Idling, AdvancingCore, Advancing, LocalCore, Victim,
              CommonSlice, RunningCore, Running
<1> QED
  BY <1>10, <1>11, <1>12 DEF Basic

LEMMA RestoreBasic ==
  ASSUME Basic, NEW e \in {Pump} \cup Guest, RestoreSchedules(e) \/ RestoreUnschedules(e)
  PROVE  Basic'
<1>1. /\ pc = "restoring" /\ pc' = pc /\ exec' = exec /\ sane' = sane /\ locked' = locked
      /\ current' = current /\ loc' = loc /\ snap' = snap /\ loads' = loads
  BY DEF RestoreSchedules, RestoreUnschedules, clocks, files
<1>2. QueueTypes' /\ ClockTypes' /\ \A d \in Cores : NoPump(ts'[d])
  <2>1. CASE RestoreSchedules(e)
    <3>1. e \in Events /\ MaxSlice \in Nat /\ current \in Cores /\ ScheduleEvent(e, MaxSlice, current)
      BY <2>1, CoreFacts DEF Events, RestoreSchedules, Basic, Types, ControlTypes
    <3> QED
      BY <3>1, <1>1, ScheduleFacts
  <2>2. CASE RestoreUnschedules(e)
    <3>1. UnscheduleEvent(e) /\ slice' = slice /\ down' = down
      BY <2>2 DEF RestoreUnschedules, clocks
    <3>2. QueueTypes' /\ ts' = ts
      BY <3>1, UnscheduleFacts
    <3> QED
      BY <1>1, <3>1, <3>2 DEF Basic, Types, ClockTypes, Pumps
  <2> QED
    BY <2>1, <2>2
<1>3. Types'
  BY <1>1, <1>2 DEF Basic, Types, ControlTypes, FileTypes
<1>4. Pumps'
  BY <1>1, <1>2 DEF Basic, Pumps
<1>7. Phases'
  BY <1>1 DEF Phases, IdlingCores, Idling, AdvancingCore, Advancing, LocalCore, Victim,
              CommonSlice, RunningCore, Running
<1> QED
  BY <1>3, <1>4, <1>7 DEF Basic

LEMMA LoadEndsBasic ==
  ASSUME Basic, LoadRefused \/ LoadFailsEarly \/ \E failed \in BOOLEAN : LoadDone(failed)
  PROVE  Basic'
<1>1. /\ pc' = "rearm" /\ heap' = heap /\ ts' = ts /\ exec' = exec /\ slice' = slice /\ down' = down
      /\ sane' = sane /\ current' = current /\ loc' = loc
      /\ locked' = FALSE \/ (locked' = locked /\ pc # "restoring")
      /\ snap' \in {snap, NoFile} /\ loads' \in 0 .. MaxLoads
  <2>1. CASE LoadRefused
    <3>1. loads' = loads + 1 /\ loads < MaxLoads
      BY <2>1 DEF LoadRefused
    <3>2. loads' \in 0 .. MaxLoads
      BY <3>1, CoreFacts DEF Basic, Types, FileTypes
    <3> QED
      BY <2>1, <3>2 DEF LoadRefused, queues, clocks
  <2>2. CASE LoadFailsEarly
    BY <2>2 DEF LoadFailsEarly, queues, clocks, Basic, Types, FileTypes
  <2>3. CASE \E failed \in BOOLEAN : LoadDone(failed)
    BY <2>3 DEF LoadDone, UnlockEventQueue, queues, clocks, files, Basic, Types, FileTypes
  <2> QED
    BY <2>1, <2>2, <2>3
<1>2. FileTypes'
  BY <1>1, FileFacts DEF Basic, Types, FileTypes
<1>3. Types'
  BY <1>1, <1>2 DEF Basic, Types, QueueTypes, ClockTypes, ControlTypes, PCs
<1>4. Pumps'
  BY <1>1 DEF Basic, Pumps
<1>7. Phases'
  BY <1>1 DEF Phases, IdlingCores, Idling, AdvancingCore, Advancing, LocalCore, Victim,
              CommonSlice, RunningCore, Running
<1> QED
  BY <1>3, <1>4, <1>7 DEF Basic

(* One pump is left, on the current core, whatever the load had left. *)
LEMMA RearmBasic ==
  ASSUME Basic, RearmUpdateEvents
  PROVE  Basic'
<1> DEFINE h == [c \in Cores |-> Erase(heap[c], Pump)]
           x == Event(Pump, Ticks(current) + MaxSlice, "loaded")
           q == Push(h[current], x)
<1>1. pc = "rearm" /\ ~locked
  BY DEF RearmUpdateEvents, Basic, Pumps
<1>2. /\ pc' \in {"start", "split"} /\ ts' = ts /\ exec' = exec /\ sane' = sane /\ locked' = locked
      /\ current' = current /\ loc' = loc /\ snap' = snap /\ loads' = loads
      /\ heap' = [h EXCEPT ![current] = q]
      /\ IF sane[current] THEN slice' = slice /\ down' = down ELSE ForceExceptionCheck(current, MaxSlice)
  BY <1>1 DEF RearmUpdateEvents, RearmHeap, Without, files
<1>3. current \in Cores /\ MaxSlice \in Nat /\ MaxSlice \in Int
  BY CoreFacts DEF Basic, Types, ControlTypes
<1>4. Ticks(current) + MaxSlice \in Int
  BY <1>3, BasicTypes
<1>5. x \in EventSet /\ x.id = Pump
  BY <1>4 DEF EventSet, Event, Hows, Events
<1>6. \A c \in Cores : Erase(heap[c], Pump) \in HeapSet /\ NoPump(Erase(heap[c], Pump))
  BY BasicTypes, EraseHeap
<1>7. h \in [Cores -> HeapSet] /\ \A c \in Cores : NoPump(h[c]) /\ h[c] \in HeapSet
  BY <1>6
<1> HIDE DEF h, x
<1>8. q \in HeapSet /\ OnePump(q)
  BY <1>3, <1>5, <1>7, PushHeap, PushPump
<1> HIDE DEF q
<1>9. heap' \in [Cores -> HeapSet] /\ heap'[current] = q /\ \A c \in Cores : c # current => heap'[c] = h[c]
  BY <1>2, <1>3, <1>7, <1>8
<1>10. Armed(heap')
  BY <1>3, <1>7, <1>8, <1>9 DEF Armed
<1>11. ClockTypes'
  <2>1. CASE sane[current]
    BY <2>1, <1>2 DEF Basic, Types, ClockTypes
  <2>2. CASE ~sane[current]
    <3>1. slice' \in ClockSet /\ down' \in [Cores -> Int] /\ InSlice(slice', down')
      BY <2>2, <1>2, <1>3, ForceFacts
    <3> QED
      BY <1>2, <3>1 DEF Basic, Types, ClockTypes
  <2> QED
    BY <2>1, <2>2
<1>12. Types'
  BY <1>2, <1>9, <1>11 DEF Basic, Types, QueueTypes, ControlTypes, FileTypes, PCs
<1>13. Pumps'
  BY <1>1, <1>2, <1>10 DEF Basic, Pumps
<1>14. Phases'
  BY <1>2 DEF Phases, IdlingCores, Idling, AdvancingCore, Advancing, LocalCore, Victim,
              CommonSlice, RunningCore, Running
<1> QED
  BY <1>12, <1>13, <1>14 DEF Basic

(* A step that leaves the Timers alone. *)
LEMMA StutterBasic ==
  ASSUME Basic, pc' = pc, loc' = loc, current' = current, locked' = locked,
         heap' = heap, ts' = ts, exec' = exec, slice' = slice, down' = down, sane' = sane,
         snap' = snap, loads' = loads
  PROVE  Basic'
BY DEF Basic, Types, QueueTypes, ClockTypes, ControlTypes, FileTypes, Pumps, Phases, IdlingCores,
       Idling, Future, AdvancingCore, Advancing, LocalCore, Victim, CommonSlice, RunningCore, Running

LEMMA NextBasic ==
  ASSUME Basic, [Next]_vars
  PROVE  Basic'
<1>1. CASE RunLoop
  BY <1>1, BeginBasic, SyncCoreBasic, DispatchBasic, SyncAdvancedBasic, SyncedBasic, AdvanceCoreBasic,
     AdvancedBasic, AllAdvancedBasic, SetNextSliceBasic, IdleBasic, ExecuteBasic, ProceedBasic, EndRunBasic
     DEF RunLoop
<1>2. CASE GuestCall
  BY <1>2, GuestScheduleBasic, GuestUnscheduleBasic DEF GuestCall
<1>3. CASE Load
  <2>1. CASE AttachCore \/ RunSplit
    BY <2>1, StutterBasic DEF AttachCore, RunSplit, vars, queues, clocks
  <2> QED
    BY <1>3, <2>1, LoadStateBasic, LoadTimingBasic, LoadTimingThrowsBasic, LoadEndsBasic, RearmBasic, RestoreBasic
       DEF Load
<1>4. CASE \E e \in Async, c \in Cores : HostSchedule(e, c)
  BY <1>4, HostScheduleBasic
<1>5. CASE vars' = vars
  BY <1>5, StutterBasic DEF vars
<1>6. CASE Callback
  BY <1>6, CallbackSchedulesBasic, CallbackUnschedulesBasic DEF Callback
<1> QED
  BY <1>1, <1>2, <1>3, <1>4, <1>5, <1>6, SaveStateBasic DEF Next

LEMMA AlwaysBasic == Spec => []Basic
<1>1. Init => Basic
  BY InitBasic
<1>2. Basic /\ [Next]_vars => Basic'
  BY NextBasic
<1> QED
  BY <1>1, <1>2, PTL DEF Spec

-----------------------------------------------------------------------------
(* Before the first load the cores stay together and events are in time.   *)

LEMMA TicksClock ==
  ASSUME Basic, Slices, NEW c \in Cores
  PROVE  Ticks(c) = Clock(c)
<1>1. exec[c] \in Nat /\ slice[c] \in Nat /\ down[c] \in Int /\ sane[c] \in BOOLEAN
  BY BasicTypes
<1> QED
  BY <1>1 DEF Slices, Ticks, Clock

LEMMA EventTimes ==
  ASSUME Basic, NEW c \in Cores
  PROVE  \A x \in ToSet(heap[c]) \cup ToSet(ts[c]) : x.time \in Int
<1>1. heap[c] \in Seq(EventSet) /\ ts[c] \in Seq(EventSet)
  BY BasicTypes DEF HeapSet
<1> QED
  BY <1>1, ToSetTypes

(* The types after a step. *)
LEMMA PrimedTypes ==
  ASSUME Basic'
  PROVE  /\ \A c \in Cores : /\ heap'[c] \in HeapSet /\ ts'[c] \in Seq(EventSet)
                             /\ exec'[c] \in Nat /\ slice'[c] \in Nat /\ down'[c] \in Int
                             /\ -Overshoot <= down'[c] /\ down'[c] <= slice'[c]
                             /\ Clock(c)' \in Int
                             /\ \A x \in ToSet(heap'[c]) \cup ToSet(ts'[c]) : x.time \in Int
         /\ loc'.core \in 0 .. NumCores /\ loc'.maxDelay \in Nat /\ loc'.victim \in Cores
<1>1. /\ \A c \in Cores : /\ heap'[c] \in HeapSet /\ ts'[c] \in Seq(EventSet)
                          /\ exec'[c] \in Nat /\ slice'[c] \in Nat /\ down'[c] \in Int
                          /\ -Overshoot <= down'[c] /\ down'[c] <= slice'[c]
  BY DEF Basic, Types, QueueTypes, ClockTypes, InSlice, ClockSet
<1>2. \A c \in Cores : Clock(c)' \in Int
  BY <1>1 DEF Clock
<1>3. loc'.core \in 0 .. NumCores /\ loc'.maxDelay \in Nat /\ loc'.victim \in Cores
  BY DEF Basic, Types, ControlTypes, LocSet
<1>4. ASSUME NEW c \in Cores PROVE \A x \in ToSet(heap'[c]) \cup ToSet(ts'[c]) : x.time \in Int
  <2>1. heap'[c] \in Seq(EventSet) /\ ts'[c] \in Seq(EventSet)
    BY <1>1 DEF HeapSet
  <2> QED
    BY <2>1, ToSetTypes
<1> QED
  BY <1>1, <1>2, <1>3, <1>4

(* A core whose queues lose events and whose slice is not extended. *)
LEMMA InTimeKept ==
  ASSUME Basic, Basic', NEW c \in Cores, EventsInTime(c),
         ToSet(heap'[c]) \subseteq ToSet(heap[c]), ToSet(ts'[c]) \subseteq ToSet(ts[c]),
         exec'[c] = exec[c], slice'[c] <= slice[c],
         Advancing(c)' <=> Advancing(c), Idling(c)' <=> Idling(c)
  PROVE  EventsInTime(c)'
<1>1. /\ exec[c] \in Nat /\ slice[c] \in Nat /\ slice'[c] \in Nat
      /\ MaxSlice \in Nat /\ Overshoot \in Nat /\ Drift \in Nat
      /\ \A x \in ToSet(heap[c]) \cup ToSet(ts[c]) : x.time \in Int
  BY BasicTypes, PrimedTypes, EventTimes, CoreFacts, OverFacts
<1>2. ASSUME NEW x \in ToSet(heap'[c]), x.how = "own" PROVE OwnBound(c, x)'
  BY <1>1, <1>2 DEF EventsInTime, OwnBound
<1> QED
  BY <1>2 DEF EventsInTime

(* What a core does in its slice. *)
LEMMA RunningEarly ==
  ASSUME Basic, Basic', Early, pc \in Running, pc' \in Running, loc' = loc, exec' = exec, sane' = sane,
         slice'[loc.core] <= slice[loc.core],
         \A d \in Cores : d # loc.core => slice'[d] = slice[d] /\ down'[d] = down[d]
  PROVE  Slices' /\ Together' /\ Rounds'
<1> DEFINE c == loc.core
<1>1. c \in Cores /\ ~sane[c] /\ c \in Nat
  BY CoreFacts DEF Basic, Phases, LocalCore, RunningCore, Running
<1>2. \A d \in Cores : /\ exec[d] \in Nat /\ slice[d] \in Nat /\ down[d] \in Int /\ slice'[d] \in Nat
                       /\ down'[d] \in Int /\ -Overshoot <= down'[d] /\ down'[d] <= slice'[d]
                       /\ Clock(d) \in Int
  BY BasicTypes, PrimedTypes
<1>3. \A d \in Cores : d # c => Clock(d)' = Clock(d) /\ Ran(d)' = Ran(d)
  BY DEF Clock, Ran
<1>4. Drift \in Nat /\ MaxSlice \in Nat /\ Overshoot \in Nat
  BY OverFacts, CoreFacts
<1>5. Slices'
  BY <1>1, <1>2, <1>4 DEF Early, Slices
<1>6. Together'
  <2>1. TogetherStart' /\ TogetherSync' /\ TogetherAdvance'
    BY DEF TogetherStart, TogetherSync, TogetherAdvance, Running
  <2>2. TogetherRound'
    BY DEF Early, Together, TogetherRound
  <2>3. TogetherAlone'
    <3> SUFFICES ASSUME loc.alone PROVE \E d \in Cores, r \in Ranks : Slowest(loc.core, d, r)'
      BY DEF TogetherAlone
    <3>1. PICK d \in Cores, r \in Ranks : Slowest(c, d, r)
      BY DEF Early, Together, TogetherAlone
    <3>2. d # c /\ exec[c] + slice[c] <= Clock(d)
      BY <3>1 DEF Slowest
    <3>3. exec'[c] + slice'[c] <= Clock(d)'
      BY <1>1, <1>2, <1>3, <3>2
    <3>4. Slowest(c, d, r)'
      BY <1>3, <3>1, <3>2, <3>3 DEF Slowest
    <3> QED
      BY <3>4
  <2> QED
    BY <2>1, <2>2, <2>3 DEF Together
<1>7. Rounds'
  <2> SUFFICES ASSUME ~loc.alone
               PROVE  /\ \A d \in Cores : HasRun(d)' =>
                           /\ Ran(d)' >= 0 /\ Ran(d)' <= MaxSlice + Over(d + 1)
                           /\ \A b \in Cores : b < d => Ran(d)' <= Ran(b)' + Over(d - b)
                      /\ Fits(c, slice[c])'
    BY DEF Rounds, Running
  <2>1. /\ \A d \in Cores : d <= c =>
             /\ Ran(d) >= 0 /\ Ran(d) <= MaxSlice + Over(d + 1)
             /\ \A b \in Cores : b < d => Ran(d) <= Ran(b) + Over(d - b)
        /\ Fits(c, slice[c])
    BY <1>1, CoreFacts DEF Early, Rounds, HasRun
  <2>2. \A d \in Cores : HasRun(d)' => d <= c
    BY <1>1, CoreFacts DEF HasRun
  <2>a. c \in Int /\ \A b \in Cores : c - 1 - b \in Int /\ (b < c => b # c)
    BY <1>1, CoreFacts
  <2>b. /\ Over(c) \in Int /\ Over(c + 1) = Over(c) + Overshoot
        /\ \A b \in Cores : Over(c - 1 - b) \in Int
    BY <2>a, OverFacts, Zenon
  <2>3. \A b \in Cores : b < c => Ran(b)' = Ran(b) /\ Ran(b) \in Int /\ Over(c - 1 - b) \in Int
    <3>1. \A b \in Cores : Ran(b) \in Int
      BY <1>2 DEF Ran
    <3> QED
      BY <3>1, <2>a, <2>b, <1>3
  <2>4. Fits(c, slice[c])'
    <3>1. slice[c] <= MaxSlice + Over(c) /\ \A b \in Cores : b < c => slice[c] <= Ran(b) + Over(c - 1 - b)
      BY <2>1 DEF Fits
    <3>3. slice'[c] <= MaxSlice + Over(c)
      BY <3>1, <2>b, <1>1, <1>2, <1>4
    <3>4. \A b \in Cores : b < c => slice'[c] <= Ran(b)' + Over(c - 1 - b)
      BY <3>1, <2>3, <1>1, <1>2
    <3> QED
      BY <3>3, <3>4 DEF Fits
  <2>5. Ran(c)' \in Int /\ Ran(c)' >= 0 /\ Ran(c)' <= slice[c] + Overshoot
    BY <1>1, <1>2, <1>4 DEF Ran
  <2>6. Ran(c)' <= MaxSlice + Over(c + 1)
    BY <2>b, <2>1, <2>5, <1>1, <1>2, <1>4 DEF Fits
  <2>7. ASSUME NEW b \in Cores, b < c PROVE Ran(c)' <= Ran(b)' + Over(c - b)
    <3>1. c - 1 - b \in Int /\ c - b = (c - 1 - b) + 1
      BY <1>1, CoreFacts
    <3>2. Over(c - b) = Over(c - 1 - b) + Overshoot
      BY <3>1, OverFacts
    <3>3. slice[c] <= Ran(b) + Over(c - 1 - b)
      BY <2>1, <2>7 DEF Fits
    <3> QED
      BY <3>2, <3>3, <2>3, <2>5, <2>7, <1>1, <1>2, <1>4
  <2>8. ASSUME NEW d \in Cores, HasRun(d)'
        PROVE  /\ Ran(d)' >= 0 /\ Ran(d)' <= MaxSlice + Over(d + 1)
               /\ \A b \in Cores : b < d => Ran(d)' <= Ran(b)' + Over(d - b)
    <3>1. CASE d = c
      BY <3>1, <2>5, <2>6, <2>7
    <3>2. CASE d # c
      <4>1. d < c /\ \A b \in Cores : b < d => b # c
        BY <2>2, <2>8, <3>2, <1>1, CoreFacts
      <4>2. Ran(d)' = Ran(d) /\ \A b \in Cores : b < d => Ran(b)' = Ran(b)
        BY <1>3, <3>2, <4>1
      <4> QED
        BY <2>1, <2>2, <2>8, <4>2
    <3> QED
      BY <3>1, <3>2
  <2> QED
    BY <2>4, <2>8
<1> QED
  BY <1>5, <1>6, <1>7

(* In a slice nothing moves between the phases of a round. *)
LEMMA RunningPhases ==
  ASSUME pc \in Running, pc' \in Running, loc' = loc
  PROVE  \A d \in Cores : ~Advancing(d) /\ ~Advancing(d)' /\ (Idling(d)' <=> Idling(d))
BY DEF Advancing, Idling, Running

LEMMA SliceStepEarly ==
  ASSUME Basic, Basic', Early, Idle \/ Execute \/ Proceed
  PROVE  Early'
<1>1. /\ pc \in Running /\ pc' \in Running /\ loc' = loc /\ exec' = exec /\ sane' = sane
      /\ heap' = heap /\ ts' = ts /\ slice' = slice
  BY DEF Idle, Execute, Proceed, Running, queues, clocks
<1>2. loc.core \in Cores
  BY <1>1 DEF Basic, Phases, LocalCore
<1>3. \A d \in Cores : slice[d] \in Nat
  BY BasicTypes
<1>4. \A d \in Cores : d # loc.core => down'[d] = down[d]
  BY <1>2 DEF Idle, UseUpSlice, Execute, Proceed, clocks, Basic, Types, ClockTypes
<1>5. Slices' /\ Together' /\ Rounds'
  BY <1>1, <1>2, <1>3, <1>4, RunningEarly
<1>6. ASSUME NEW d \in Cores PROVE EventsInTime(d)'
  <2>1. /\ ToSet(heap'[d]) \subseteq ToSet(heap[d]) /\ ToSet(ts'[d]) \subseteq ToSet(ts[d])
        /\ exec'[d] = exec[d] /\ slice'[d] <= slice[d]
    BY <1>1, <1>3
  <2>2. (Advancing(d)' <=> Advancing(d)) /\ (Idling(d)' <=> Idling(d))
    BY <1>1, RunningPhases
  <2>3. EventsInTime(d)
    BY DEF Early
  <2> QED
    BY <2>1, <2>2, <2>3, InTimeKept
<1> QED
  BY <1>1, <1>5, <1>6 DEF Early, Running

LEMMA GuestScheduleEarly ==
  ASSUME Basic, Basic', Early, NEW e \in Guest, NEW cycles \in Delays, NEW c \in Cores,
         GuestSchedule(e, cycles, c)
  PROVE  Early'
<1>1. /\ pc \in Running /\ pc' \in Running /\ ScheduleEvent(e, cycles, c) /\ exec' = exec /\ sane' = sane
      /\ loc' = loc /\ current' = current
  BY DEF GuestSchedule, Running
<1>2. e \in Events /\ e # Pump /\ cycles \in Nat
  BY TimingAssumption DEF Events
<1>3. /\ \A d \in Cores : slice'[d] <= slice[d]
      /\ \A d \in Cores : d # current => /\ heap'[d] = heap[d]
                                         /\ slice'[d] = slice[d] /\ down'[d] = down[d]
      /\ \A x \in ToSet(heap'[current]) :
           \/ x \in ToSet(heap[current])
           \/ x.how = "own" /\ (~sane[current] => exec[current] + slice'[current] <= x.time)
      /\ \A d \in Cores : \A x \in ToSet(ts'[d]) : x \in ToSet(ts[d]) \/ x.how = "cross"
  BY <1>1, <1>2, ScheduleFacts
<1>4. loc.core \in Cores /\ current = loc.core /\ ~sane[loc.core]
  BY <1>1 DEF Basic, Phases, LocalCore, RunningCore
<1>5. Slices' /\ Together' /\ Rounds'
  BY <1>1, <1>3, <1>4, RunningEarly
<1>6. ASSUME NEW d \in Cores PROVE EventsInTime(d)'
  <2>1. ~Advancing(d) /\ ~Advancing(d)' /\ (Idling(d)' <=> Idling(d))
    BY <1>1, RunningPhases
  <2>2. /\ exec[d] \in Nat /\ slice[d] \in Nat /\ slice'[d] \in Nat /\ exec'[d] = exec[d]
        /\ slice'[d] <= slice[d] /\ MaxSlice \in Nat /\ Drift \in Nat
        /\ \A x \in ToSet(heap[d]) \cup ToSet(ts[d]) : x.time \in Int
    BY <1>1, <1>3, BasicTypes, PrimedTypes, EventTimes, CoreFacts, OverFacts
  <2>3. EventsInTime(d)
    BY DEF Early
  <2>4. ASSUME NEW x \in ToSet(heap'[d]), x.how = "own" PROVE OwnBound(d, x)'
    <3>1. CASE x \in ToSet(heap[d])
      BY <3>1, <2>1, <2>2, <2>3, <2>4 DEF EventsInTime, OwnBound
    <3>2. CASE x \notin ToSet(heap[d])
      <4>1. d = current
        BY <3>2, <1>3
      <4> QED
        BY <3>2, <4>1, <1>1, <1>3, <1>4, <2>1 DEF OwnBound
    <3> QED
      BY <3>1, <3>2
  <2>6. ASSUME NEW x \in ToSet(ts'[d]) PROVE x.how # "own"
    <3>1. CASE x \in ToSet(ts[d])
      BY <3>1, <2>1, <2>2, <2>3 DEF EventsInTime
    <3>2. CASE x.how = "cross"
      BY <3>2
    <3> QED
      BY <3>1, <3>2, <1>3, <2>6
  <2> QED
    BY <2>4, <2>6 DEF EventsInTime
<1> QED
  BY <1>1, <1>5, <1>6 DEF Early, Running

LEMMA GuestUnscheduleEarly ==
  ASSUME Basic, Basic', Early, NEW e \in Guest, GuestUnschedule(e)
  PROVE  Early'
<1>1. /\ pc \in Running /\ pc' \in Running /\ UnscheduleEvent(e) /\ exec' = exec /\ sane' = sane
      /\ slice' = slice /\ down' = down /\ loc' = loc
  BY DEF GuestUnschedule, clocks, Running
<1>2. ts' = ts /\ \A d \in Cores : ToSet(heap'[d]) \subseteq ToSet(heap[d])
  BY <1>1, UnscheduleFacts
<1>3. loc.core \in Cores /\ \A d \in Cores : slice[d] \in Nat
  BY <1>1, BasicTypes DEF Basic, Phases, LocalCore
<1>5. Slices' /\ Together' /\ Rounds'
  BY <1>1, <1>3, RunningEarly
<1>6. ASSUME NEW d \in Cores PROVE EventsInTime(d)'
  <2>1. /\ ToSet(heap'[d]) \subseteq ToSet(heap[d]) /\ ToSet(ts'[d]) \subseteq ToSet(ts[d])
        /\ exec'[d] = exec[d] /\ slice'[d] <= slice[d]
    BY <1>1, <1>2, <1>3
  <2>2. (Advancing(d)' <=> Advancing(d)) /\ (Idling(d)' <=> Idling(d))
    BY <1>1, RunningPhases
  <2>3. EventsInTime(d)
    BY DEF Early
  <2> QED
    BY <2>1, <2>2, <2>3, InTimeKept
<1> QED
  BY <1>1, <1>5, <1>6 DEF Early, Running

(* The clocks and the phase stay as they are. *)
LEMMA SameClocks ==
  ASSUME pc' = pc, loc' = loc, exec' = exec, slice' = slice, down' = down, sane' = sane
  PROVE  /\ Slices => Slices'
         /\ Together => Together'
         /\ Rounds => Rounds'
         /\ \A d \in Cores : (Advancing(d)' <=> Advancing(d)) /\ (Idling(d)' <=> Idling(d))
<1>1. \A d \in Cores : Clock(d)' = Clock(d) /\ Ran(d)' = Ran(d)
  BY DEF Clock, Ran
<1>2. ClockFcn' = ClockFcn
  BY <1>1 DEF ClockFcn
<1>3. TogetherStart => TogetherStart'
  BY <1>1, <1>2 DEF TogetherStart, Spread
<1>4. TogetherSync => TogetherSync'
  BY DEF TogetherSync, Spread, Clock, ClockFcn
<1>5. TogetherAdvance => TogetherAdvance'
  BY <1>1 DEF TogetherAdvance
<1>6. TogetherRound => TogetherRound'
  BY DEF TogetherRound, Running
<1>7. TogetherAlone => TogetherAlone'
  BY DEF TogetherAlone, Slowest, Clock, Running
<1>8. Rounds => Rounds'
  BY DEF Rounds, HasRun, Fits, Ran, Running
<1>9. Slices => Slices'
  BY DEF Slices
<1>10. \A d \in Cores : (Advancing(d)' <=> Advancing(d)) /\ (Idling(d)' <=> Idling(d))
  BY DEF Advancing, Idling, Running
<1> QED
  BY <1>3, <1>4, <1>5, <1>6, <1>7, <1>8, <1>9, <1>10 DEF Together

(* Events that are no events of the core itself come in. *)
LEMMA HostScheduleEarly ==
  ASSUME Basic, Basic', Early, NEW e \in Async, NEW c \in Cores, HostSchedule(e, c)
  PROVE  Early'
<1>1. /\ heap' = heap /\ pc' = pc /\ loc' = loc /\ exec' = exec
      /\ slice' = slice /\ down' = down /\ sane' = sane
  BY DEF HostSchedule, clocks
<1>2. \A d \in Cores : \A x \in ToSet(ts'[d]) : x \in ToSet(ts[d]) \/ x.how = "async"
  BY HostFacts
<1>3. /\ Slices' /\ Together' /\ Rounds'
      /\ \A d \in Cores : (Advancing(d)' <=> Advancing(d)) /\ (Idling(d)' <=> Idling(d))
  BY <1>1, SameClocks DEF Early
<1>4. ASSUME NEW d \in Cores PROVE EventsInTime(d)'
  <2>1. EventsInTime(d)
    BY DEF Early
  <2>2. ASSUME NEW x \in ToSet(heap'[d]), x.how = "own" PROVE OwnBound(d, x)'
    BY <2>1, <2>2, <1>1, <1>3 DEF EventsInTime, OwnBound
  <2>3. ASSUME NEW x \in ToSet(ts'[d]) PROVE x.how # "own"
    BY <2>1, <2>3, <1>2 DEF EventsInTime
  <2> QED
    BY <2>2, <2>3 DEF EventsInTime
<1> QED
  BY <1>1, <1>3, <1>4 DEF Early

LEMMA SaveStateEarly ==
  ASSUME Basic, Basic', Early, SaveState
  PROVE  Early'
<1>1. /\ pc = "start" /\ pc' = pc /\ loc' = loc /\ exec' = exec
      /\ slice' = slice /\ down' = down /\ sane' = sane
  BY DEF SaveState, clocks
<1>2. \A c \in Cores : ts'[c] = <<>> /\ ToSet(heap'[c]) \subseteq ToSet(heap[c]) \cup ToSet(ts[c])
  BY SaveFacts
<1>3. /\ Slices' /\ Together' /\ Rounds'
      /\ \A d \in Cores : (Advancing(d)' <=> Advancing(d)) /\ (Idling(d)' <=> Idling(d))
  BY <1>1, SameClocks DEF Early
<1>4. \A d \in Cores : ~Advancing(d) /\ ~Idling(d)
  BY <1>1 DEF Advancing, Idling, Running
<1>5. ASSUME NEW d \in Cores PROVE EventsInTime(d)'
  <2>1. EventsInTime(d)
    BY DEF Early
  <2>2. ASSUME NEW x \in ToSet(heap'[d])
        PROVE  x.how = "own" => OwnBound(d, x)'
    <3>1. x \in ToSet(heap[d]) \/ x \in ToSet(ts[d])
      BY <1>2, <2>2
    <3> QED
      BY <3>1, <2>1, <1>1, <1>3, <1>4 DEF EventsInTime, OwnBound
  <2>3. ToSet(ts'[d]) = {}
    BY <1>2 DEF ToSet
  <2> QED
    BY <2>2, <2>3 DEF EventsInTime
<1> QED
  BY <1>1, <1>3, <1>5 DEF Early

LEMMA CallbackSchedulesEarly ==
  ASSUME Basic, Basic', Early, NEW e \in Guest, NEW cycles \in Delays \ {0}, NEW c \in Cores,
         CallbackSchedules(e, cycles, c)
  PROVE  Early'
<1>1. /\ pc' = pc /\ loc' = loc /\ exec' = exec /\ sane' = sane /\ slice' = slice /\ down' = down
  BY CallbackFacts DEF CallbackSchedules
<1>2. /\ loc.core \in Cores /\ Advancing(loc.core)
      /\ \A d \in Cores : d # loc.core => heap'[d] = heap[d]
      /\ \A x \in ToSet(heap'[loc.core]) :
           x \in ToSet(heap[loc.core]) \/ (x.how = "own" /\ x.time >= exec[loc.core])
      /\ \A d \in Cores : \A x \in ToSet(ts'[d]) : x \in ToSet(ts[d]) \/ x.how = "cross"
  BY CallbackFacts
<1>3. /\ Slices' /\ Together' /\ Rounds'
      /\ \A d \in Cores : (Advancing(d)' <=> Advancing(d)) /\ (Idling(d)' <=> Idling(d))
  BY <1>1, SameClocks DEF Early
<1>4. ASSUME NEW d \in Cores PROVE EventsInTime(d)'
  <2>1. EventsInTime(d)
    BY DEF Early
  <2>2. ASSUME NEW x \in ToSet(heap'[d]), x.how = "own" PROVE OwnBound(d, x)'
    <3>1. CASE x \in ToSet(heap[d])
      BY <3>1, <2>1, <2>2, <1>1, <1>3 DEF EventsInTime, OwnBound
    <3>2. CASE x \notin ToSet(heap[d])
      <4>1. d = loc.core /\ x.time >= exec[d]
        BY <3>2, <2>2, <1>2
      <4>2. x.time \in Int /\ exec[d] \in Nat /\ Overshoot \in Nat
        BY <2>2, PrimedTypes, BasicTypes, CoreFacts
      <4> QED
        BY <4>1, <4>2, <1>1, <1>2, <1>3 DEF OwnBound
    <3> QED
      BY <3>1, <3>2
  <2>3. ASSUME NEW x \in ToSet(ts'[d]) PROVE x.how # "own"
    BY <2>1, <2>3, <1>2 DEF EventsInTime
  <2> QED
    BY <2>2, <2>3 DEF EventsInTime
<1> QED
  BY <1>1, <1>3, <1>4 DEF Early

LEMMA CallbackUnschedulesEarly ==
  ASSUME Basic, Basic', Early, NEW e \in Guest, CallbackUnschedules(e)
  PROVE  Early'
<1>1. /\ UnscheduleEvent(e) /\ exec' = exec /\ sane' = sane /\ slice' = slice /\ down' = down
      /\ pc' = pc /\ loc' = loc
  BY DEF CallbackUnschedules, clocks
<1>2. ts' = ts /\ \A d \in Cores : ToSet(heap'[d]) \subseteq ToSet(heap[d])
  BY <1>1, UnscheduleFacts
<1>3. /\ Slices' /\ Together' /\ Rounds'
      /\ \A d \in Cores : (Advancing(d)' <=> Advancing(d)) /\ (Idling(d)' <=> Idling(d))
  BY <1>1, SameClocks DEF Early
<1>4. ASSUME NEW d \in Cores PROVE EventsInTime(d)'
  <2>1. slice[d] \in Nat /\ EventsInTime(d)
    BY BasicTypes DEF Early
  <2>2. /\ ToSet(heap'[d]) \subseteq ToSet(heap[d]) /\ ToSet(ts'[d]) \subseteq ToSet(ts[d])
        /\ exec'[d] = exec[d] /\ slice'[d] <= slice[d]
    BY <1>1, <1>2, <2>1
  <2> QED
    BY <1>3, <2>1, <2>2, InTimeKept
<1> QED
  BY <1>1, <1>3, <1>4 DEF Early

LEMMA DispatchEarly ==
  ASSUME Basic, Basic', Early, Dispatch
  PROVE  Early'
<1>1. /\ pc' = pc /\ loc' = loc /\ exec' = exec /\ ts' = ts
      /\ slice' = slice /\ down' = down /\ sane' = sane
  BY DEF Dispatch, clocks
<1>2. /\ loc.core \in Cores /\ pc \in {"syncing", "advancing"}
      /\ \A d \in Cores : d # loc.core => heap'[d] = heap[d]
      /\ \A x \in ToSet(heap'[loc.core]) :
           x \in ToSet(heap[loc.core]) \/ (x.how = "own" /\ x.time >= exec[loc.core]) \/ x.how = "late"
  BY DispatchHeap
<1>3. /\ Slices' /\ Together' /\ Rounds'
      /\ \A d \in Cores : (Advancing(d)' <=> Advancing(d)) /\ (Idling(d)' <=> Idling(d))
  BY <1>1, SameClocks DEF Early
<1>4. Advancing(loc.core) /\ Overshoot \in Nat
  BY <1>2, CoreFacts DEF Advancing
<1>5. ASSUME NEW d \in Cores PROVE EventsInTime(d)'
  <2>1. EventsInTime(d)
    BY DEF Early
  <2>2. ASSUME NEW x \in ToSet(heap'[d])
        PROVE  x.how = "own" => OwnBound(d, x)'
    <3>1. CASE x \in ToSet(heap[d])
      BY <3>1, <2>1, <1>1, <1>3 DEF EventsInTime, OwnBound
    <3>2. CASE x \notin ToSet(heap[d])
      <4>1. d = loc.core /\ (x.how = "own" => x.time >= exec[d])
        BY <3>2, <2>2, <1>2
      <4>2. x.time \in Int /\ exec[d] \in Nat
        BY <2>2, PrimedTypes, BasicTypes
      <4> QED
        BY <4>1, <4>2, <1>1, <1>3, <1>4 DEF OwnBound
    <3> QED
      BY <3>1, <3>2
  <2>3. ASSUME NEW x \in ToSet(ts'[d]) PROVE x.how # "own"
    BY <2>1, <2>3, <1>1, <1>3 DEF EventsInTime
  <2> QED
    BY <2>2, <2>3 DEF EventsInTime
<1> QED
  BY <1>1, <1>3, <1>5 DEF Early

LEMMA BeginEarly ==
  ASSUME Basic, Basic', Early, Begin
  PROVE  Early'
<1>1. pc = "start" /\ pc' = "sync" /\ slice' = slice /\ down' = down /\ sane' = sane
  BY DEF Begin
<1>2. PICK b \in Nat, g \in Cores :
           /\ QueueTypes' /\ \A c \in Cores : exec'[c] = exec[c] - b
           /\ \A c \in Cores : Shifted(heap'[c], heap[c], b) /\ Shifted(ts'[c], ts[c], b)
           /\ loc'.core = 0 /\ loc'.maxDelay = 0
           /\ loc'.global = Ticks(g) - b /\ \A c \in Cores : Ticks(c) <= Ticks(g)
  BY BeginFacts
<1>3. \A c \in Cores : /\ exec[c] \in Nat /\ slice[c] \in Nat /\ down[c] \in Int /\ Clock(c) \in Int
                       /\ heap[c] \in Seq(EventSet) /\ ts[c] \in Seq(EventSet)
                       /\ heap'[c] \in Seq(EventSet) /\ ts'[c] \in Seq(EventSet)
  BY BasicTypes, PrimedTypes DEF HeapSet
<1>4. \A c \in Cores : Ticks(c) = Clock(c)
  BY TicksClock DEF Early
<1>5. \A c \in Cores : Clock(c)' = Clock(c) - b /\ Clock(c)' \in Int
  BY <1>1, <1>2, <1>3 DEF Clock
<1>6. Slices'
  BY <1>1 DEF Early, Slices
<1>7. Together'
  <2>1. PICK d \in Cores, r \in Ranks : Spread(ClockFcn, Clock(d), r)
    BY <1>1 DEF Early, Together, TogetherStart
  <2>2. \A c \in Cores : Clock(c) <= Clock(d) /\ Clock(d) - Clock(c) <= Reach(r[c])
    BY <2>1 DEF Spread, ClockFcn
  <2>3. Clock(g) = Clock(d)
    BY <2>2, <1>2, <1>3, <1>4
  <2>4. Clock(g)' = loc'.global
    BY <1>2, <1>4, <1>5
  <2>5. \A c \in Cores : ClockFcn'[c] = Clock(c)'
    BY DEF ClockFcn
  <2>6. \A c \in Cores : /\ ClockFcn'[c] <= Clock(g)'
                         /\ Clock(g)' - ClockFcn'[c] = Clock(d) - Clock(c)
    BY <1>2, <1>3, <1>5, <2>2, <2>3, <2>5
  <2>7. Spread(ClockFcn', Clock(g)', r)
    BY <2>2, <2>6 DEF Spread
  <2>8. TogetherSync'
    BY <1>1, <1>2, <2>4, <2>7, CoreFacts DEF TogetherSync
  <2>9. TogetherStart' /\ TogetherAdvance' /\ TogetherRound' /\ TogetherAlone'
    BY <1>1 DEF TogetherStart, TogetherAdvance, TogetherRound, TogetherAlone, Running
  <2> QED
    BY <2>8, <2>9 DEF Together
<1>8. Rounds'
  BY <1>1 DEF Rounds, Running
<1>9. ASSUME NEW c \in Cores PROVE EventsInTime(c)'
  <2>1. ~Advancing(c) /\ ~Idling(c) /\ ~Advancing(c)' /\ ~Idling(c)'
    BY <1>1 DEF Advancing, Idling, Running
  <2>2. EventsInTime(c)
    BY DEF Early
  <2>3. AllShifted(ToSet(heap'[c]), ToSet(heap[c]), b) /\ AllShifted(ToSet(ts'[c]), ToSet(ts[c]), b)
    <3>1. /\ b \in Int /\ heap[c] \in Seq(EventSet) /\ heap'[c] \in Seq(EventSet)
          /\ ts[c] \in Seq(EventSet) /\ ts'[c] \in Seq(EventSet)
          /\ Shifted(heap'[c], heap[c], b) /\ Shifted(ts'[c], ts[c], b)
      BY <1>2, <1>3
    <3> QED
      BY <3>1, ShiftHeap
  <2>a. /\ exec'[c] = exec[c] - b /\ slice'[c] = slice[c] /\ exec[c] \in Int /\ slice[c] \in Int
        /\ b \in Int /\ Drift \in Nat
    <3>1. exec'[c] = exec[c] - b /\ b \in Int
      BY <1>2
    <3>2. exec[c] \in Int /\ slice[c] \in Int
      BY <1>3
    <3>3. Drift \in Nat
      BY OverFacts
    <3> QED
      BY <1>1, <3>1, <3>2, <3>3
  <2>4. \A x \in ToSet(heap[c]) \cup ToSet(ts[c]) : x.time \in Int
    BY EventTimes
  <2>5. ASSUME NEW y \in ToSet(heap'[c])
        PROVE  y.how = "own" => OwnBound(c, y)'
    <3>1. PICK x \in ToSet(heap[c]) : y.time = x.time - b /\ y.how = x.how
      BY <2>3, <2>5 DEF AllShifted
    <3>2. x.time \in Int
      BY <2>4
    <3>3. x.how = "own" => exec[c] + slice[c] <= x.time
      BY <2>1, <2>2 DEF EventsInTime, OwnBound
    <3>4. y.how = "own" => exec'[c] + slice'[c] <= y.time
      BY <3>1, <3>2, <3>3, <2>a
    <3> QED
      BY <3>4, <2>1 DEF OwnBound
  <2>6. ASSUME NEW y \in ToSet(ts'[c]) PROVE y.how # "own"
    <3>1. PICK x \in ToSet(ts[c]) : y.time = x.time - b /\ y.how = x.how
      BY <2>3, <2>6 DEF AllShifted
    <3> QED
      BY <3>1, <2>2 DEF EventsInTime
  <2> QED
    BY <2>5, <2>6 DEF EventsInTime
<1> QED
  BY <1>1, <1>6, <1>7, <1>8, <1>9 DEF Early

(* A core enters Advance: no event of it waited longer than an overshoot. *)
LEMMA AdvanceInTime ==
  ASSUME Basic, Basic', Early, NEW c \in Cores, BeginAdvance(c), Advancing(c)',
         ~Advancing(c), ~Idling(c),
         \A d \in Cores : d # c => (Advancing(d)' <=> Advancing(d)) /\ (Idling(d)' <=> Idling(d))
  PROVE  /\ Slices' /\ \A d \in Cores : EventsInTime(d)'
         /\ \A d \in Cores : Clock(d)' = Clock(d)
<1>1. /\ ToSet(heap'[c]) \subseteq ToSet(heap[c]) \cup ToSet(ts[c])
      /\ ts'[c] = <<>> /\ exec'[c] = Clock(c) /\ slice'[c] = 0 /\ down'[c] = 0 /\ sane'[c]
      /\ \A d \in Cores : d # c => /\ heap'[d] = heap[d] /\ ts'[d] = ts[d] /\ exec'[d] = exec[d]
                                   /\ slice'[d] = slice[d] /\ down'[d] = down[d] /\ sane'[d] = sane[d]
  BY BeginAdvanceFacts
<1>2. /\ \A d \in Cores : /\ exec[d] \in Nat /\ slice[d] \in Nat /\ down[d] \in Int /\ Clock(d) \in Int
                          /\ -Overshoot <= down[d]
      /\ MaxSlice \in Nat /\ Drift \in Nat /\ Overshoot \in Nat
  BY BasicTypes, CoreFacts, OverFacts
<1>3. Slices'
  <2>1. /\ (sane'[c] => slice'[c] = down'[c]) /\ slice'[c] <= MaxSlice + Drift
    BY ONLY <1>1, <1>2
  <2>2. \A d \in Cores : d # c => (sane'[d] => slice'[d] = down'[d]) /\ slice'[d] <= MaxSlice + Drift
    <3>1. Slices
      BY DEF Early
    <3> QED
      BY ONLY <3>1, <1>1, <1>2 DEF Slices
  <2>3. Drift' = Drift
    BY DEF Drift
  <2> QED
    BY ONLY <2>1, <2>2, <2>3 DEF Slices
<1>4. \A d \in Cores : Clock(d)' = Clock(d)
  <2> TAKE d \in Cores
  <2>1. CASE d = c
    BY ONLY <2>1, <1>1, <1>2 DEF Clock
  <2>2. CASE d # c
    BY ONLY <2>2, <1>1 DEF Clock
  <2> QED
    BY <2>1, <2>2
<1>5. ASSUME NEW d \in Cores, d # c PROVE EventsInTime(d)'
  <2>1. /\ ToSet(heap'[d]) \subseteq ToSet(heap[d]) /\ ToSet(ts'[d]) \subseteq ToSet(ts[d])
        /\ exec'[d] = exec[d] /\ slice'[d] <= slice[d] /\ EventsInTime(d)
        /\ (Advancing(d)' <=> Advancing(d)) /\ (Idling(d)' <=> Idling(d))
    BY <1>1, <1>2, <1>5 DEF Early
  <2> QED
    BY <2>1, InTimeKept
<1>6. EventsInTime(c)'
  <2>1. EventsInTime(c) /\ Clock(c) <= exec[c] + slice[c] + Overshoot
    BY <1>2 DEF Early, Clock
  <2>2. ASSUME NEW x \in ToSet(heap'[c])
        PROVE  x.how = "own" => OwnBound(c, x)'
    <3>1. x.time \in Int /\ (x \in ToSet(heap[c]) \/ x \in ToSet(ts[c]))
      BY <1>1, <2>2, EventTimes
    <3>2. x.how = "own" => exec[c] + slice[c] <= x.time
      BY <3>1, <2>1 DEF EventsInTime, OwnBound
    <3>3. x.how = "own" => exec'[c] - x.time <= Overshoot
      BY <3>1, <3>2, <2>1, <1>1, <1>2
    <3> QED
      BY <3>3 DEF OwnBound
  <2>3. ToSet(ts'[c]) = {}
    BY <1>1 DEF ToSet
  <2> QED
    BY <2>2, <2>3 DEF EventsInTime
<1> QED
  BY <1>3, <1>4, <1>5, <1>6

LEMMA SyncCoreEarly ==
  ASSUME Basic, Basic', Early, SyncCore
  PROVE  Early'
<1> DEFINE c == loc.core
<1>1. pc = "sync" /\ c \in Cores
  BY DEF SyncCore
<1>2. /\ loc \in LocSet /\ loc.global \in Int /\ loc.maxDelay \in Nat /\ loc.victim \in Cores
      /\ Ticks(c) = Clock(c) /\ \A d \in Cores : Clock(d) \in Int
  BY <1>1, TicksClock, BasicTypes DEF Basic, Types, ControlTypes, Early
<1>3. /\ \E d \in Cores, r \in Ranks : Clock(d) = loc.global /\ Spread(ClockFcn, Clock(d), r)
      /\ \A d \in Cores : d < loc.core => loc.global - Clock(d) <= loc.maxDelay
      /\ loc.maxDelay > 0 => loc.maxDelay = loc.global - Clock(loc.victim)
  BY <1>1 DEF Early, Together, TogetherSync
<1>4. CASE Ticks(c) < loc.global
  <2> DEFINE n == loc.global - Ticks(c)
  <2>1. BeginAdvance(c) /\ loc' = [loc EXCEPT !.delay = n] /\ pc' = "syncing"
    BY <1>4 DEF SyncCore
  <2> HIDE DEF n
  <2>2. /\ loc'.core = c /\ loc'.delay = n /\ loc'.maxDelay = loc.maxDelay
        /\ loc'.victim = loc.victim /\ loc'.global = loc.global
    BY <1>2, <2>1 DEF LocSet
  <2>3. /\ Advancing(c)' /\ ~Advancing(c) /\ ~Idling(c)
        /\ \A d \in Cores : d # c => (Advancing(d)' <=> Advancing(d)) /\ (Idling(d)' <=> Idling(d))
    BY <1>1, <2>1, <2>2 DEF Advancing, Idling, Running
  <2>4. /\ Slices' /\ \A d \in Cores : EventsInTime(d)'
        /\ \A d \in Cores : Clock(d)' = Clock(d)
    BY <1>1, <2>1, <2>3, AdvanceInTime
  <2>5. ClockFcn' = ClockFcn
    BY <2>4 DEF ClockFcn
  <2>6. TogetherSync'
    <3>1. \E d \in Cores, r \in Ranks : Clock(d)' = loc'.global /\ Spread(ClockFcn', Clock(d)', r)
      BY <1>3, <2>2, <2>4, <2>5
    <3>2. loc'.delay = loc'.global - Clock(loc.core)'
      BY <1>1, <1>2, <2>2, <2>4 DEF n
    <3>3. loc'.maxDelay > 0 => loc'.maxDelay = loc'.global - Clock(loc.victim)'
      BY <1>2, <1>3, <2>2, <2>4
    <3> QED
      BY <1>3, <2>1, <2>2, <2>4, <3>1, <3>2, <3>3 DEF TogetherSync, Clock
  <2>7. /\ TogetherStart' /\ TogetherAdvance' /\ TogetherRound' /\ TogetherAlone' /\ Rounds'
    BY <2>1 DEF TogetherStart, TogetherAdvance, TogetherRound, TogetherAlone, Rounds, Running
  <2> QED
    BY <2>1, <2>4, <2>6, <2>7 DEF Early, Together
<1>5. CASE ~(Ticks(c) < loc.global)
  <2>1. /\ loc' = [loc EXCEPT !.core = @ + 1] /\ pc' = pc /\ heap' = heap /\ ts' = ts
        /\ exec' = exec /\ slice' = slice /\ down' = down /\ sane' = sane
    BY <1>5 DEF SyncCore, queues, clocks
  <2>2. /\ loc'.core = c + 1 /\ loc'.maxDelay = loc.maxDelay /\ loc'.victim = loc.victim
        /\ loc'.global = loc.global
    BY <1>2, <2>1 DEF LocSet
  <2>3. \A d \in Cores : Clock(d)' = Clock(d)
    BY <2>1 DEF Clock
  <2>4. ClockFcn' = ClockFcn
    BY <2>3 DEF ClockFcn
  <2>5. \A d \in Cores : d < c + 1 => loc.global - Clock(d) <= loc.maxDelay
    <3> TAKE d \in Cores
    <3>1. d < c + 1 => d < c \/ d = c
      BY <1>1, CoreFacts
    <3>2. loc.global - Clock(c) <= loc.maxDelay
      BY <1>1, <1>2, <1>5
    <3> QED
      BY <3>1, <3>2, <1>3
  <2>6. TogetherSync'
    <3>1. \E d \in Cores, r \in Ranks : Clock(d)' = loc'.global /\ Spread(ClockFcn', Clock(d)', r)
      BY <1>3, <2>2, <2>3, <2>4
    <3>3. loc'.maxDelay > 0 => loc'.maxDelay = loc'.global - Clock(loc.victim)'
      BY <1>2, <1>3, <2>2, <2>3
    <3> QED
      BY <1>1, <2>1, <2>2, <2>3, <2>5, <3>1, <3>3 DEF TogetherSync, Clock
  <2>7. /\ TogetherStart' /\ TogetherAdvance' /\ TogetherRound' /\ TogetherAlone' /\ Rounds'
    BY <1>1, <2>1 DEF TogetherStart, TogetherAdvance, TogetherRound, TogetherAlone, Rounds, Running
  <2>8. Slices'
    BY <2>1 DEF Early, Slices
  <2>9. ASSUME NEW d \in Cores PROVE EventsInTime(d)'
    <3>1. (Advancing(d)' <=> Advancing(d)) /\ (Idling(d)' <=> Idling(d)) /\ slice[d] \in Nat /\ EventsInTime(d)
      BY <1>1, <2>1, BasicTypes DEF Advancing, Idling, Running, Early
    <3>2. /\ ToSet(heap'[d]) \subseteq ToSet(heap[d]) /\ ToSet(ts'[d]) \subseteq ToSet(ts[d])
          /\ exec'[d] = exec[d] /\ slice'[d] <= slice[d]
      BY <2>1, <3>1
    <3> QED
      BY <3>1, <3>2, InTimeKept
  <2> QED
    BY <1>1, <2>1, <2>6, <2>7, <2>8, <2>9 DEF Early, Together
<1> QED
  BY <1>4, <1>5

LEMMA SyncAdvancedEarly ==
  ASSUME Basic, Basic', Early, SyncAdvanced
  PROVE  Early'
<1>0. PICK c \in Cores : c = loc.core
  BY DEF Basic, Phases, LocalCore, SyncAdvanced
<1> DEFINE n == NextSlice(c, loc.delay)
           worst == loc.delay > loc.maxDelay
<1>1. /\ c \in Cores /\ pc = "syncing" /\ pc' = "sync" /\ loc.delay > 0 /\ ~Due(c)
      /\ sane' = [sane EXCEPT ![c] = FALSE]
      /\ slice' = [slice EXCEPT ![c] = n] /\ down' = [down EXCEPT ![c] = n]
      /\ loc' = [loc EXCEPT !.core = @ + 1, !.delay = 0,
                            !.maxDelay = IF worst THEN loc.delay ELSE @,
                            !.victim = IF worst THEN c ELSE @]
      /\ slice[c] = 0 /\ down[c] = 0
  BY <1>0 DEF Basic, Phases, LocalCore, AdvancingCore, Advancing, SyncAdvanced
<1>2. heap' = heap /\ ts' = ts /\ exec' = exec
  BY DEF SyncAdvanced, queues
<1>3. /\ \A d \in Cores : /\ slice[d] \in Nat /\ down[d] \in Int /\ exec[d] \in Nat /\ Clock(d) \in Int
      /\ loc.delay \in Int /\ loc.maxDelay \in Nat /\ loc.victim \in Cores /\ loc.global \in Int
      /\ loc \in LocSet
  BY BasicTypes DEF Basic, Types, ControlTypes
<1>4. /\ n \in Int /\ n > 0 /\ n <= loc.delay
      /\ \A x \in ToSet(heap[c]) : exec[c] + n <= x.time
  BY <1>1, <1>3, NotDue, SliceFits
<1> HIDE DEF n
<1>5. /\ slice'[c] = n /\ down'[c] = n
      /\ \A d \in Cores : d # c => slice'[d] = slice[d] /\ down'[d] = down[d] /\ sane'[d] = sane[d]
  BY <1>1, <1>4 DEF Basic, Types, ClockTypes, ClockSet
<1>7. /\ loc'.core = c + 1 /\ loc'.global = loc.global
      /\ loc'.maxDelay = IF worst THEN loc.delay ELSE loc.maxDelay
      /\ loc'.victim = IF worst THEN c ELSE loc.victim
  <2> HIDE DEF worst
  <2> QED
    BY <1>0, <1>1, <1>3 DEF LocSet
<1>8. \A d \in Cores : Clock(d)' = Clock(d)
  BY <1>1, <1>2, <1>3, <1>4, <1>5 DEF Clock
<1>9. ClockFcn' = ClockFcn
  BY <1>8 DEF ClockFcn
<1>10. /\ loc.delay = loc.global - Clock(c)
       /\ \A d \in Cores : d < loc.core => loc.global - Clock(d) <= loc.maxDelay
       /\ loc.maxDelay > 0 => loc.maxDelay = loc.global - Clock(loc.victim)
  BY <1>0, <1>1 DEF Early, Together, TogetherSync
<1>11. PICK e \in Cores, r \in Ranks : Clock(e) = loc.global /\ Spread(ClockFcn, Clock(e), r)
  BY <1>1 DEF Early, Together, TogetherSync
<1>12. TogetherSync'
  <2>1. Clock(e)' = loc'.global /\ Spread(ClockFcn', Clock(e)', r)
    BY <1>7, <1>8, <1>9, <1>11
  <2>2. \A d \in Cores : d < c + 1 => d < c \/ d = c
    BY <1>1, CoreFacts
  <2>3. \A d \in Cores : d < c + 1 => loc'.global - Clock(d)' <= loc'.maxDelay
    BY <2>2, <1>0, <1>3, <1>7, <1>8, <1>10
  <2>4. loc'.maxDelay > 0 => loc'.maxDelay = loc'.global - Clock(loc.victim)'
    <3>1. CASE worst
      <4>1. loc'.maxDelay = loc.delay /\ loc'.victim = c
        BY <3>1, <1>7
      <4>2. Clock(loc.victim)' = Clock(c)'
        BY <4>1 DEF Clock
      <4> QED
        BY <4>1, <4>2, <1>1, <1>7, <1>8, <1>10
    <3>2. CASE ~worst
      <4>1. loc'.maxDelay = loc.maxDelay /\ loc'.victim = loc.victim
        BY <3>2, <1>7
      <4>2. loc.maxDelay > 0 /\ loc.maxDelay = loc.global - Clock(loc.victim)
        BY <3>2, <1>1, <1>3, <1>10
      <4>3. Clock(loc.victim)' = Clock(loc.victim)
        BY <4>1, <1>1, <1>2, <1>3, <1>4, <1>5 DEF Clock
      <4> QED
        BY <4>1, <4>2, <4>3, <1>7
    <3> QED
      BY <3>1, <3>2
  <2> QED
    BY <2>1, <2>3, <2>4, <1>1, <1>7 DEF TogetherSync
<1>13. Slices'
  <2>1. loc.delay <= Reach(r[c])
    BY <1>1, <1>10, <1>11 DEF Spread, ClockFcn
  <2>2. r[c] \in Int /\ r[c] <= NumCores /\ NumCores \in Int /\ MinDelay \in Nat /\ MaxSlice \in Nat
    BY <1>1, <1>11, CoreFacts DEF Ranks
  <2>3. /\ Over(r[c]) \in Int /\ Over(NumCores) \in Int /\ Over(r[c]) <= Over(NumCores)
        /\ Drift = MinDelay + Over(NumCores)
    BY <2>2, OverFacts, Zenon
  <2>4. n <= MaxSlice + Drift
    BY <2>1, <2>2, <2>3, <1>3, <1>4 DEF Reach
  <2> QED
    BY <2>4, <1>5 DEF Early, Slices
<1>14. /\ TogetherStart' /\ TogetherAdvance' /\ TogetherRound' /\ TogetherAlone' /\ Rounds'
  BY <1>1 DEF TogetherStart, TogetherAdvance, TogetherRound, TogetherAlone, Rounds, Running
<1>15. \A d \in Cores : ~Advancing(d)' /\ ~Idling(d)' /\ ~Idling(d) /\ (Advancing(d) <=> d = c)
  BY <1>0, <1>1 DEF Advancing, Idling, Running
<1>16. ASSUME NEW d \in Cores, d # c PROVE EventsInTime(d)'
  <2>1. /\ ToSet(heap'[d]) \subseteq ToSet(heap[d]) /\ ToSet(ts'[d]) \subseteq ToSet(ts[d])
        /\ exec'[d] = exec[d] /\ slice'[d] <= slice[d] /\ EventsInTime(d)
        /\ (Advancing(d)' <=> Advancing(d)) /\ (Idling(d)' <=> Idling(d))
    BY <1>2, <1>3, <1>5, <1>15, <1>16 DEF Early
  <2> QED
    BY <2>1, InTimeKept
<1>17. EventsInTime(c)'
  <2>1. EventsInTime(c) /\ n <= MaxSlice + Drift /\ Drift \in Nat /\ MaxSlice \in Nat /\ exec[c] \in Nat
    BY <1>1, <1>3, <1>5, <1>13, CoreFacts, OverFacts DEF Early, Slices
  <2>2. \A x \in ToSet(heap[c]) \cup ToSet(ts[c]) : x.time \in Int
    BY <1>1, EventTimes
  <2>3. ASSUME NEW x \in ToSet(heap'[c])
        PROVE  x.how = "own" => OwnBound(c, x)'
    <3>1. x.time \in Int /\ exec'[c] + slice'[c] <= x.time
      BY <2>2, <2>3, <1>2, <1>4, <1>5
    <3> QED
      BY <3>1, <1>1, <1>15 DEF OwnBound
  <2>4. ASSUME NEW x \in ToSet(ts'[c]) PROVE x.how # "own"
    <3>1. x \in ToSet(ts[c])
      BY <1>2, <2>4
    <3> QED
      BY <3>1, <2>1 DEF EventsInTime
  <2> QED
    BY <2>3, <2>4 DEF EventsInTime
<1> QED
  BY <1>1, <1>12, <1>13, <1>14, <1>16, <1>17 DEF Early, Together

LEMMA SyncedEarly ==
  ASSUME Basic, Basic', Early, Synced
  PROVE  Early'
<1>1. /\ pc = "sync" /\ heap' = heap /\ ts' = ts /\ exec' = exec /\ slice' = slice /\ down' = down
      /\ sane' = sane /\ loc.core = NumCores
  BY DEF Synced, queues, clocks
<1>2. /\ loc.maxDelay \in Nat /\ loc.victim \in Cores /\ MinDelay \in Nat /\ loc.global \in Int
      /\ \A d \in Cores : /\ slice[d] \in Nat /\ down[d] \in Int /\ exec[d] \in Nat /\ Clock(d) \in Int
                          /\ Clock(d)' = Clock(d)
  BY <1>1, BasicTypes, CoreFacts DEF Clock
<1>3. /\ \A d \in Cores : loc.global - Clock(d) <= loc.maxDelay
      /\ loc.maxDelay > 0 => loc.maxDelay = loc.global - Clock(loc.victim)
  BY <1>1, CoreFacts DEF Early, Together, TogetherSync
<1>4. PICK e \in Cores, r \in Ranks : Clock(e) = loc.global /\ Spread(ClockFcn, Clock(e), r)
  BY <1>1 DEF Early, Together, TogetherSync
<1>5. \A d \in Cores : Clock(d) <= Clock(e) /\ Clock(e) - Clock(d) <= Reach(r[d])
  BY <1>4 DEF Spread, ClockFcn
<1>6. pc' \in {"run", "advance"} /\ Slices'
  BY <1>1 DEF Synced, Early, Slices
<1>7. \A d \in Cores : ~Advancing(d)' /\ ~Advancing(d) /\ ~Idling(d)
  BY <1>1, <1>6 DEF Advancing, Idling, Running
<1>8. CASE FarBehind
  <2>0. PICK v \in Cores : v = loc.victim
    BY <1>2
  <2>1. loc' = [NoLoc EXCEPT !.core = v, !.alone = TRUE] /\ pc' = "run"
    BY <1>8, <2>0 DEF Synced
  <2>2. loc'.core = v /\ loc'.alone
    BY <2>1 DEF NoLoc
  <2>3. loc.maxDelay > 0
    BY <1>2, <1>8 DEF FarBehind
  <2>4. slice[v] = down[v] /\ slice[v] <= loc.maxDelay
    BY <1>1, <2>0, <2>3 DEF Basic, Phases, Victim
  <2>5. exec[v] = Clock(v)
    BY <1>2, <2>4 DEF Clock
  <2>6. Slowest(v, e, r)
    <3>1. e # v /\ exec[v] + slice[v] <= Clock(e)
      BY <1>2, <1>3, <1>4, <2>0, <2>3, <2>4, <2>5
    <3>2. \A d \in Cores : exec[v] <= Clock(d)
      BY <1>2, <1>3, <2>0, <2>3, <2>5
    <3> QED
      BY <3>1, <3>2, <1>2, <1>5, <2>5 DEF Slowest
  <2>7. Slowest(v, e, r)'
    BY <2>6, <1>1, <1>2 DEF Slowest
  <2>8. TogetherAlone'
    <3>1. \E d \in Cores, k \in Ranks : Slowest(loc.core, d, k)'
      BY <2>7, <2>2 DEF Slowest
    <3> QED
      BY <3>1 DEF TogetherAlone
  <2>9. TogetherStart' /\ TogetherSync' /\ TogetherAdvance' /\ TogetherRound' /\ Rounds'
    BY <2>1, <2>2 DEF TogetherStart, TogetherSync, TogetherAdvance, TogetherRound, Rounds, Running
  <2>10. \A d \in Cores : ~Idling(d)'
    BY <2>1, <2>2 DEF Idling, Running
  <2>11. ASSUME NEW d \in Cores PROVE EventsInTime(d)'
    <3>1. /\ ToSet(heap'[d]) \subseteq ToSet(heap[d]) /\ ToSet(ts'[d]) \subseteq ToSet(ts[d])
          /\ exec'[d] = exec[d] /\ slice'[d] <= slice[d] /\ EventsInTime(d)
          /\ (Advancing(d)' <=> Advancing(d)) /\ (Idling(d)' <=> Idling(d))
      BY <1>1, <1>2, <1>7, <2>10 DEF Early
    <3> QED
      BY <3>1, InTimeKept
  <2> QED
    BY <1>6, <2>1, <2>8, <2>9, <2>11 DEF Early, Together
<1>9. CASE ~FarBehind
  <2>1. loc' = [NoLoc EXCEPT !.maxSlice = MaxSlice] /\ pc' = "advance"
    BY <1>9 DEF Synced
  <2>2. loc'.core = 0
    BY <2>1 DEF NoLoc
  <2>3. loc.maxDelay <= MinDelay
    BY <1>2, <1>9 DEF FarBehind
  <2>4. \A c, d \in Cores : Clock(c) - Clock(d) <= MinDelay
    BY <1>2, <1>3, <1>4, <1>5, <2>3
  <2>5. TogetherAdvance'
    BY <2>4, <1>2 DEF TogetherAdvance
  <2>6. TogetherStart' /\ TogetherSync' /\ TogetherAlone' /\ TogetherRound' /\ Rounds'
    BY <2>1 DEF TogetherStart, TogetherSync, TogetherAlone, TogetherRound, Rounds, Running
  <2>7. \A d \in Cores : ~Idling(d)'
    BY <2>1, <2>2, CoreFacts DEF Idling, Running
  <2>8. ASSUME NEW d \in Cores PROVE EventsInTime(d)'
    <3>1. /\ ToSet(heap'[d]) \subseteq ToSet(heap[d]) /\ ToSet(ts'[d]) \subseteq ToSet(ts[d])
          /\ exec'[d] = exec[d] /\ slice'[d] <= slice[d] /\ EventsInTime(d)
          /\ (Advancing(d)' <=> Advancing(d)) /\ (Idling(d)' <=> Idling(d))
      BY <1>1, <1>2, <1>7, <2>7 DEF Early
    <3> QED
      BY <3>1, InTimeKept
  <2> QED
    BY <1>6, <2>1, <2>5, <2>6, <2>8 DEF Early, Together
<1> QED
  BY <1>8, <1>9

LEMMA AdvanceCoreEarly ==
  ASSUME Basic, Basic', Early, AdvanceCore
  PROVE  Early'
<1> DEFINE c == loc.core
<1>1. pc = "advance" /\ c \in Cores /\ BeginAdvance(c) /\ pc' = "advancing" /\ loc' = loc
  BY DEF AdvanceCore
<1>2. /\ Advancing(c)' /\ ~Advancing(c) /\ ~Idling(c)
      /\ \A d \in Cores : d # c => (Advancing(d)' <=> Advancing(d)) /\ (Idling(d)' <=> Idling(d))
  BY <1>1, CoreFacts DEF Advancing, Idling, Running
<1>3. /\ Slices' /\ \A d \in Cores : EventsInTime(d)'
      /\ \A d \in Cores : Clock(d)' = Clock(d)
  BY <1>1, <1>2, AdvanceInTime
<1>4. TogetherAdvance'
  BY <1>1, <1>3 DEF Early, Together, TogetherAdvance
<1>5. TogetherStart' /\ TogetherSync' /\ TogetherAlone' /\ TogetherRound' /\ Rounds'
  BY <1>1 DEF TogetherStart, TogetherSync, TogetherAlone, TogetherRound, Rounds, Running
<1> QED
  BY <1>1, <1>3, <1>4, <1>5 DEF Early, Together

LEMMA AdvancedEarly ==
  ASSUME Basic, Basic', Early, Advanced
  PROVE  Early'
<1>0. PICK c \in Cores : c = loc.core
  BY DEF Basic, Phases, LocalCore, Advanced
<1> DEFINE n == Min({loc.maxSlice, GetMaxSliceLength(c)})
<1>1. /\ pc = "advancing" /\ c \in Cores /\ ~Due(c) /\ pc' = "advance"
      /\ sane' = [sane EXCEPT ![c] = FALSE]
      /\ loc' = [loc EXCEPT !.core = @ + 1, !.maxSlice = n]
      /\ slice[c] = 0 /\ down[c] = 0
  BY <1>0 DEF Advanced, Basic, Phases, LocalCore, AdvancingCore, Advancing
<1>2. heap' = heap /\ ts' = ts /\ exec' = exec /\ slice' = slice /\ down' = down
  BY DEF Advanced, queues
<1>3. loc \in LocSet /\ \A d \in Cores : slice[d] \in Nat /\ exec[d] \in Nat
  BY BasicTypes DEF Basic, Types, ControlTypes
<1> HIDE DEF n
<1>4. loc'.core = c + 1
  BY <1>0, <1>1, <1>3 DEF LocSet
<1>5. \A d \in Cores : d # c => sane'[d] = sane[d]
  BY <1>1 DEF Basic, Types, ClockTypes
<1>6. Slices'
  BY <1>1, <1>2, <1>5 DEF Early, Slices
<1>7. TogetherAdvance'
  BY <1>1, <1>2 DEF Early, Together, TogetherAdvance, Clock
<1>8. TogetherStart' /\ TogetherSync' /\ TogetherAlone' /\ TogetherRound' /\ Rounds'
  BY <1>1 DEF TogetherStart, TogetherSync, TogetherAlone, TogetherRound, Rounds, Running
<1>9. /\ \A d \in Cores : d # c => (Advancing(d)' <=> Advancing(d)) /\ (Idling(d)' <=> Idling(d))
      /\ Advancing(c) /\ ~Advancing(c)' /\ Idling(c)'
  BY <1>0, <1>1, <1>4, CoreFacts DEF Advancing, Idling, Running
<1>10. ASSUME NEW d \in Cores, d # c PROVE EventsInTime(d)'
  <2>1. /\ ToSet(heap'[d]) \subseteq ToSet(heap[d]) /\ ToSet(ts'[d]) \subseteq ToSet(ts[d])
        /\ exec'[d] = exec[d] /\ slice'[d] <= slice[d] /\ EventsInTime(d)
        /\ (Advancing(d)' <=> Advancing(d)) /\ (Idling(d)' <=> Idling(d))
    BY <1>2, <1>3, <1>9, <1>10 DEF Early
  <2> QED
    BY <2>1, InTimeKept
<1>11. EventsInTime(c)'
  <2>1. EventsInTime(c) /\ Drift \in Nat /\ Future(c)
    BY <1>1, NotDue, OverFacts DEF Early
  <2>2. ASSUME NEW x \in ToSet(heap'[c])
        PROVE  x.how = "own" => OwnBound(c, x)'
    <3>1. x.time \in Int /\ x.time > exec[c]
      BY <1>1, <1>2, <2>1, <2>2, EventTimes DEF Future
    <3>2. exec'[c] + slice'[c] <= x.time
      BY <3>1, <2>1, <1>1, <1>2, <1>3
    <3> QED
      BY <3>2, <1>9 DEF OwnBound
  <2>3. ASSUME NEW x \in ToSet(ts'[c]) PROVE x.how # "own"
    BY <2>1, <2>3, <1>2, <1>9 DEF EventsInTime
  <2> QED
    BY <2>2, <2>3 DEF EventsInTime
<1> QED
  BY <1>1, <1>6, <1>7, <1>8, <1>10, <1>11 DEF Early, Together

LEMMA AllAdvancedEarly ==
  ASSUME Basic, Basic', Early, AllAdvanced
  PROVE  Early'
<1>1. /\ pc = "advance" /\ loc.core = NumCores /\ loc' = [loc EXCEPT !.core = 0] /\ pc' = "slice"
      /\ heap' = heap /\ ts' = ts /\ exec' = exec /\ slice' = slice /\ down' = down /\ sane' = sane
  BY DEF AllAdvanced, queues, clocks
<1>2. loc \in LocSet /\ loc.maxSlice <= MaxSlice /\ MaxSlice \in Nat
  BY <1>1, CoreFacts DEF Basic, Types, ControlTypes, Phases, CommonSlice
<1>3. loc'.core = 0 /\ loc'.maxSlice = loc.maxSlice
  BY <1>1, <1>2 DEF LocSet
<1>4. \A d \in Cores : Idling(d) /\ Idling(d)' /\ ~Advancing(d) /\ ~Advancing(d)'
  BY <1>1, <1>3, CoreFacts DEF Idling, Advancing
<1>5. \A d \in Cores : slice[d] = 0 /\ down[d] = 0 /\ exec[d] \in Nat
  BY <1>4, BasicTypes DEF Basic, Phases, IdlingCores
<1>6. \A d \in Cores : Clock(d) = exec[d]
  BY <1>5 DEF Clock
<1>7. TogetherRound'
  BY <1>1, <1>6 DEF Early, Together, TogetherAdvance, TogetherRound
<1>8. TogetherStart' /\ TogetherSync' /\ TogetherAlone' /\ TogetherAdvance'
  BY <1>1 DEF TogetherStart, TogetherSync, TogetherAlone, TogetherAdvance, Running
<1>9. Rounds'
  <2>1. Over(0) = 0
    BY OverFacts
  <2>2. \A d \in Cores : ~(d < 0)
    BY CoreFacts
  <2>3. Fits(0, loc.maxSlice)'
    BY <2>1, <2>2, <1>2, <1>3 DEF Fits
  <2> QED
    BY <2>2, <2>3, <1>1, <1>3 DEF Rounds, HasRun, Running, Fits
<1>10. Slices'
  BY <1>1 DEF Early, Slices
<1>11. ASSUME NEW d \in Cores PROVE EventsInTime(d)'
  <2>1. /\ ToSet(heap'[d]) \subseteq ToSet(heap[d]) /\ ToSet(ts'[d]) \subseteq ToSet(ts[d])
        /\ exec'[d] = exec[d] /\ slice'[d] <= slice[d] /\ EventsInTime(d)
        /\ (Advancing(d)' <=> Advancing(d)) /\ (Idling(d)' <=> Idling(d))
    BY <1>1, <1>4, <1>5 DEF Early
  <2> QED
    BY <2>1, InTimeKept
<1> QED
  BY <1>1, <1>7, <1>8, <1>9, <1>10, <1>11 DEF Early, Together

LEMMA SetNextSliceEarly ==
  ASSUME Basic, Basic', Early, SetNextSlice
  PROVE  Early'
<1>0. PICK c \in Cores : c = loc.core
  BY DEF SetNextSlice
<1> DEFINE n == NextSlice(c, loc.maxSlice)
<1>1. /\ pc = "slice" /\ pc' = "run"
      /\ slice' = [slice EXCEPT ![c] = n] /\ down' = [down EXCEPT ![c] = n]
      /\ loc' = [loc EXCEPT !.start = exec[c]]
      /\ heap' = heap /\ ts' = ts /\ exec' = exec /\ sane' = sane
  BY <1>0 DEF SetNextSlice, queues
<1>2. /\ loc \in LocSet /\ loc.maxSlice \in Int
      /\ \A d \in Cores : slice[d] \in Nat /\ down[d] \in Int /\ exec[d] \in Nat
  BY BasicTypes DEF Basic, Types, ControlTypes
<1>3. Idling(c)
  BY <1>0, <1>1, CoreFacts DEF Idling
<1>4. Future(c) /\ ~sane[c] /\ loc.maxSlice > 0 /\ ~loc.alone
  BY <1>1, <1>3 DEF Basic, Phases, IdlingCores, CommonSlice
<1>5. n \in Int /\ n > 0 /\ n <= loc.maxSlice /\ \A x \in ToSet(heap[c]) : exec[c] + n <= x.time
  BY <1>2, <1>4, SliceFits
<1> HIDE DEF n
<1>6. loc'.core = c /\ loc'.alone = loc.alone
  BY <1>0, <1>1, <1>2 DEF LocSet
<1>7. /\ slice'[c] = n /\ down'[c] = n
      /\ \A d \in Cores : d # c => slice'[d] = slice[d] /\ down'[d] = down[d]
  BY <1>1, <1>5 DEF Basic, Types, ClockTypes, ClockSet
<1>8. Fits(c, loc.maxSlice)
  BY <1>0, <1>1, <1>4 DEF Early, Rounds
<1>a. /\ c \in Int /\ NumCores \in Int /\ c <= NumCores /\ c >= 0 /\ c + 1 \in Int /\ 0 \in Int
      /\ MaxSlice \in Nat /\ MinDelay \in Nat /\ 0 <= c + 1
      /\ \A b \in Cores : c - b \in Int /\ c - 1 - b \in Int /\ (b < c => b # c /\ 0 <= c - b)
  BY CoreFacts
<1>b. /\ Over(c) \in Int /\ Over(NumCores) \in Int /\ Over(c) <= Over(NumCores)
      /\ Drift = MinDelay + Over(NumCores) /\ Over(0) <= Over(c + 1) /\ Over(0) = 0 /\ Over(c + 1) \in Int
      /\ Drift \in Nat
      /\ \A b \in Cores : Over(c - b) \in Int /\ Over(c - 1 - b) \in Int
      /\ \A b \in Cores : b < c => Over(0) <= Over(c - b)
  BY <1>a, OverFacts, Zenon
<1>9. n <= MaxSlice + Over(c) /\ n <= MaxSlice + Drift
  BY <1>a, <1>b, <1>2, <1>5, <1>8 DEF Fits
<1>10. Slices'
  BY <1>1, <1>2, <1>4, <1>7, <1>9 DEF Early, Slices
<1>11. TogetherRound'
  BY <1>1, <1>4, <1>6 DEF Early, Together, TogetherRound
<1>12. TogetherStart' /\ TogetherSync' /\ TogetherAlone' /\ TogetherAdvance'
  BY <1>1, <1>4, <1>6 DEF TogetherStart, TogetherSync, TogetherAlone, TogetherAdvance
<1>13. \A b \in Cores : b < c => Ran(b)' = Ran(b) /\ Ran(b) \in Int /\ Ran(b) >= 0 /\ HasRun(b)
  <2>1. \A b \in Cores : b < c => HasRun(b)
    BY <1>0 DEF HasRun
  <2>2. \A b \in Cores : b < c => Ran(b) >= 0
    BY <2>1, <1>1, <1>4 DEF Early, Rounds
  <2>3. \A b \in Cores : Ran(b) \in Int
    BY <1>2 DEF Ran
  <2>4. \A b \in Cores : b < c => Ran(b)' = Ran(b)
    BY <1>7, <1>a DEF Ran
  <2> QED
    BY <2>1, <2>2, <2>3, <2>4
<1>14. Rounds'
  <2>1. Fits(c, slice[c])'
    <3>1. \A b \in Cores : b < c => n <= Ran(b) + Over(c - 1 - b)
      BY <1>2, <1>5, <1>8, <1>13, <1>b DEF Fits
    <3> QED
      BY <3>1, <1>7, <1>9, <1>13 DEF Fits
  <2>2. Ran(c)' = 0
    BY <1>5, <1>7 DEF Ran
  <2>3. ASSUME NEW d \in Cores, HasRun(d)'
        PROVE  /\ Ran(d)' >= 0 /\ Ran(d)' <= MaxSlice + Over(d + 1)
               /\ \A b \in Cores : b < d => Ran(d)' <= Ran(b)' + Over(d - b)
    <3>1. CASE d = c
      <4>1. \A b \in Cores : b < c => 0 <= Ran(b)' + Over(c - b)
        BY <1>13, <1>b
      <4>2. 0 <= MaxSlice + Over(c + 1)
        BY <1>a, <1>b
      <4> QED
        BY <3>1, <4>1, <4>2, <2>2
    <3>2. CASE d # c
      <4>1. d < c /\ \A b \in Cores : b < d => b < c
        BY <2>3, <3>2, <1>6, CoreFacts DEF HasRun
      <4>2. Ran(d)' = Ran(d) /\ \A b \in Cores : b < d => Ran(b)' = Ran(b)
        BY <4>1, <1>13
      <4>3. HasRun(d)
        BY <4>1, <1>13
      <4>4. /\ Ran(d) >= 0 /\ Ran(d) <= MaxSlice + Over(d + 1)
            /\ \A b \in Cores : b < d => Ran(d) <= Ran(b) + Over(d - b)
        BY <4>3, <1>1, <1>4 DEF Early, Rounds
      <4> QED
        BY <4>2, <4>4
    <3> QED
      BY <3>1, <3>2
  <2>4. Fits(loc.core, slice[loc.core])'
    BY <2>1, <1>6 DEF Fits
  <2> QED
    BY <2>3, <2>4, <1>1 DEF Rounds
<1>15. \A d \in Cores : /\ ~Advancing(d)' /\ ~Advancing(d) /\ (d # c => (Idling(d)' <=> Idling(d)))
                        /\ ~Idling(c)'
  BY <1>0, <1>1, <1>4, <1>6, CoreFacts DEF Advancing, Idling, Running
<1>16. ASSUME NEW d \in Cores, d # c PROVE EventsInTime(d)'
  <2>1. /\ ToSet(heap'[d]) \subseteq ToSet(heap[d]) /\ ToSet(ts'[d]) \subseteq ToSet(ts[d])
        /\ exec'[d] = exec[d] /\ slice'[d] <= slice[d] /\ EventsInTime(d)
        /\ (Advancing(d)' <=> Advancing(d)) /\ (Idling(d)' <=> Idling(d))
    BY <1>1, <1>2, <1>7, <1>15, <1>16 DEF Early
  <2> QED
    BY <2>1, InTimeKept
<1>17. EventsInTime(c)'
  <2>1. EventsInTime(c) /\ exec[c] \in Nat
    BY <1>2 DEF Early
  <2>2. \A x \in ToSet(heap[c]) \cup ToSet(ts[c]) : x.time \in Int
    BY EventTimes
  <2>3. ASSUME NEW x \in ToSet(heap'[c])
        PROVE  x.how = "own" => OwnBound(c, x)'
    <3>1. x.time \in Int /\ exec'[c] + slice'[c] <= x.time
      BY <2>2, <2>3, <1>1, <1>5, <1>7
    <3> QED
      BY <3>1, <1>15 DEF OwnBound
  <2>4. ASSUME NEW x \in ToSet(ts'[c]) PROVE x.how # "own"
    <3>1. x \in ToSet(ts[c])
      BY <1>1, <2>4
    <3> QED
      BY <3>1, <2>1 DEF EventsInTime
  <2> QED
    BY <2>3, <2>4 DEF EventsInTime
<1> QED
  BY <1>1, <1>10, <1>11, <1>12, <1>14, <1>16, <1>17 DEF Early, Together

(* The ranks after the slowest core ran alone and became the fastest. *)
FirstRank(k, r, v) ==
  k[v] = 1 /\ \A c \in Cores : c # v => k[c] = IF r[c] < r[v] THEN r[c] + 1 ELSE r[c]

LEMMA AloneRanks ==
  ASSUME NEW r \in Ranks, NEW v \in Cores
  PROVE  \E k \in Ranks : FirstRank(k, r, v)
<1> DEFINE k == [c \in Cores |-> IF c = v THEN 1 ELSE IF r[c] < r[v] THEN r[c] + 1 ELSE r[c]]
<1>1. /\ \A c \in Cores : r[c] \in Int /\ 1 <= r[c] /\ r[c] <= NumCores
      /\ \A c, d \in Cores : r[c] = r[d] => c = d
      /\ NumCores \in Nat /\ NumCores > 0
  BY CoreFacts DEF Ranks
<1>2. /\ k[v] = 1 /\ \A c \in Cores : c # v => k[c] = IF r[c] < r[v] THEN r[c] + 1 ELSE r[c]
      /\ k \in [Cores -> 1 .. NumCores]
  BY <1>1
<1> HIDE DEF k
<1>3. ASSUME NEW c \in Cores, NEW d \in Cores, k[c] = k[d] PROVE c = d
  <2>1. c # v => r[c] # r[v]
    BY <1>1
  <2>2. d # v => r[d] # r[v]
    BY <1>1
  <2>3. c # v /\ d # v => r[c] = r[d]
    BY <2>1, <2>2, <1>1, <1>2, <1>3
  <2>4. c # v /\ d = v => FALSE
    BY <2>1, <1>1, <1>2, <1>3
  <2>5. c = v /\ d # v => FALSE
    BY <2>2, <1>1, <1>2, <1>3
  <2> QED
    BY <2>3, <2>4, <2>5, <1>1
<1> QED
  BY <1>2, <1>3 DEF Ranks, FirstRank

(* The ranks after a round of all cores in which j became the fastest. *)
RoundRank(k, j) == \A i \in Cores : k[i] = IF i <= j THEN j - i + 1 ELSE i + 1

LEMMA RoundRanks ==
  ASSUME NEW j \in Cores
  PROVE  \E k \in Ranks : RoundRank(k, j)
<1> DEFINE k == [i \in Cores |-> IF i <= j THEN j - i + 1 ELSE i + 1]
<1>1. j \in Nat /\ j < NumCores /\ NumCores \in Nat /\ \A i \in Cores : i \in Nat /\ i < NumCores
  BY CoreFacts
<1>2. /\ \A i \in Cores : k[i] = IF i <= j THEN j - i + 1 ELSE i + 1
      /\ k \in [Cores -> 1 .. NumCores]
  BY <1>1
<1> HIDE DEF k
<1>3. \A c, d \in Cores : k[c] = k[d] => c = d
  BY <1>1, <1>2
<1> QED
  BY <1>2, <1>3 DEF Ranks, RoundRank

LEMMA EndRunEarly ==
  ASSUME Basic, Basic', Early, EndRun
  PROVE  Early'
<1>0. PICK v \in Cores : v = loc.core
  BY DEF Basic, Phases, LocalCore, Running, EndRun
<1>1. /\ pc = "ran" /\ ~sane[v] /\ (~loc.alone => loc.start = exec[v])
      /\ heap' = heap /\ ts' = ts /\ exec' = exec /\ slice' = slice /\ sane' = sane /\ down' = down
      /\ pc' \in {"start", "slice"}
  BY <1>0 DEF Basic, Phases, RunningCore, Running, EndRun, queues, clocks
<1>2. /\ \A d \in Cores : /\ slice[d] \in Nat /\ down[d] \in Int /\ exec[d] \in Nat /\ Clock(d) \in Int
                          /\ -Overshoot <= down[d] /\ down[d] <= slice[d]
                          /\ Clock(d)' = Clock(d) /\ Ran(d)' = Ran(d) /\ Ran(d) \in Int
                          /\ Clock(d) = exec[d] + Ran(d)
      /\ MinDelay \in Nat /\ MaxSlice \in Nat /\ Overshoot \in Nat /\ loc \in LocSet
  <2>1. \A d \in Cores : /\ slice[d] \in Nat /\ down[d] \in Int /\ exec[d] \in Nat /\ Clock(d) \in Int
                         /\ -Overshoot <= down[d] /\ down[d] <= slice[d]
    BY BasicTypes
  <2>2. \A d \in Cores : Ran(d) \in Int /\ Clock(d) = exec[d] + Ran(d)
    BY <2>1 DEF Clock, Ran
  <2>3. \A d \in Cores : Clock(d)' = Clock(d) /\ Ran(d)' = Ran(d)
    BY <1>1 DEF Clock, Ran
  <2>4. MinDelay \in Nat /\ MaxSlice \in Nat /\ Overshoot \in Nat /\ loc \in LocSet
    BY CoreFacts DEF Basic, Types, ControlTypes
  <2> QED
    BY <2>1, <2>2, <2>3, <2>4
<1>3. Slices'
  BY <1>1 DEF Early, Slices
<1>4. ASSUME \A d \in Cores : Idling(d)' <=> Idling(d)
      PROVE  \A d \in Cores : EventsInTime(d)'
  <2> TAKE d \in Cores
  <2>1. ~Advancing(d) /\ ~Advancing(d)'
    BY <1>1 DEF Advancing
  <2>2. /\ ToSet(heap'[d]) \subseteq ToSet(heap[d]) /\ ToSet(ts'[d]) \subseteq ToSet(ts[d])
        /\ exec'[d] = exec[d] /\ slice'[d] <= slice[d] /\ EventsInTime(d)
        /\ (Advancing(d)' <=> Advancing(d)) /\ (Idling(d)' <=> Idling(d))
    BY <1>1, <1>2, <1>4, <2>1 DEF Early
  <2> QED
    BY <2>2, InTimeKept
<1>5. \A d \in Cores : ClockFcn'[d] = Clock(d)
  BY <1>2 DEF ClockFcn
<1>6. CASE loc.alone
  <2>1. pc' = "start"
    BY <1>6 DEF EndRun
  <2>2. PICK d \in Cores, r \in Ranks : Slowest(v, d, r)
    BY <1>0, <1>1, <1>6 DEF Early, Together, TogetherAlone, Running
  <2>3. /\ d # v /\ exec[v] + slice[v] <= Clock(d) /\ Clock(d) - exec[v] <= Reach(r[v])
        /\ \A c \in Cores : c # v => /\ exec[v] <= Clock(c) /\ Clock(c) <= Clock(d)
                                     /\ Clock(d) - Clock(c) <= Reach(r[c])
    BY <2>2 DEF Slowest
  <2>4. exec[v] <= Clock(v) /\ Clock(v) <= Clock(d) + Overshoot
    BY <1>2, <2>3 DEF Clock
  <2>5. \A c \in Cores : r[c] \in Int /\ 1 <= r[c] /\ r[c] <= NumCores
    BY <2>2 DEF Ranks
  <2>6. \A k \in Int : Reach(k) \in Int /\ Reach(k + 1) = Reach(k) + Overshoot
    <3>1. ASSUME NEW k \in Int PROVE Reach(k) \in Int /\ Reach(k + 1) = Reach(k) + Overshoot
      <4>1. Over(k) \in Int /\ Over(k + 1) = Over(k) + Overshoot
        BY OverFacts, Zenon
      <4> QED
        BY <4>1, <1>2 DEF Reach
    <3> QED
      BY <3>1
  <2>7. \A j, k \in Int : j <= k => Reach(j) <= Reach(k)
    <3>1. ASSUME NEW j \in Int, NEW k \in Int, j <= k PROVE Reach(j) <= Reach(k)
      <4>1. Over(j) \in Int /\ Over(k) \in Int /\ Over(j) <= Over(k)
        BY <3>1, OverFacts, Zenon
      <4> QED
        BY <4>1, <1>2 DEF Reach
    <3> QED
      BY <3>1
  <2>a. \A c \in Cores : Reach(r[c]) \in Int /\ Reach(r[c] + 1) = Reach(r[c]) + Overshoot
    BY <2>5, <2>6, Zenon
  <2>8. \E e \in Cores, k \in Ranks : Spread(ClockFcn', Clock(e)', k)
    <3>1. CASE Clock(v) <= Clock(d)
      <4>1. \A c \in Cores : Clock(c) <= Clock(d) /\ Clock(d) - Clock(c) <= Reach(r[c])
        <5> TAKE c \in Cores
        <5>1. CASE c = v
          BY <5>1, <3>1, <2>3, <2>4, <2>a, <1>2
        <5>2. CASE c # v
          BY <5>2, <2>3
        <5> QED
          BY <5>1, <5>2
      <4>2. Spread(ClockFcn', Clock(d)', r)
        BY <4>1, <1>2, <1>5 DEF Spread
      <4> QED
        BY <4>2, <2>2
    <3>2. CASE Clock(v) > Clock(d)
      <4>1. PICK k \in Ranks : FirstRank(k, r, v)
        BY <2>2, AloneRanks
      <4>2. Clock(v) - Clock(v) <= Reach(k[v])
        <5>1. k[v] = 1
          BY <4>1 DEF FirstRank
        <5>2. Over(1) = Overshoot
          BY OverFacts
        <5> QED
          BY <5>1, <5>2, <1>2 DEF Reach
      <4>3. ASSUME NEW c \in Cores, c # v
            PROVE  Clock(c) <= Clock(v) /\ Clock(v) - Clock(c) <= Reach(k[c])
        <5>1. k[c] = IF r[c] < r[v] THEN r[c] + 1 ELSE r[c]
          BY <4>1, <4>3 DEF FirstRank
        <5>2. Clock(c) <= Clock(v)
          BY <3>2, <4>3, <2>3, <1>2
        <5>3. CASE r[c] < r[v]
          <6>1. Reach(k[c]) = Reach(r[c]) + Overshoot
            BY <5>1, <5>3, <2>a
          <6> QED
            BY <6>1, <5>2, <4>3, <2>3, <2>4, <2>a, <1>2
        <5>4. CASE ~(r[c] < r[v])
          <6>1. r[c] # r[v]
            BY <4>3, <2>2 DEF Ranks
          <6>2. r[v] + 1 <= r[c] /\ r[v] + 1 \in Int /\ r[c] \in Int
            BY <6>1, <5>4, <2>5
          <6>3. Reach(r[v] + 1) <= Reach(r[c])
            BY <6>2, <2>7, Zenon
          <6>4. Reach(k[c]) = Reach(r[c])
            BY <5>1, <5>4
          <6>5. Clock(v) - Clock(c) <= Reach(r[v]) + Overshoot
            BY <4>3, <2>3, <2>4, <2>a, <1>2
          <6> QED
            BY <6>3, <6>4, <6>5, <5>2, <2>a, <1>2
        <5> QED
          BY <5>3, <5>4
      <4>4. \A c \in Cores : Clock(c) <= Clock(v) /\ Clock(v) - Clock(c) <= Reach(k[c])
        BY <4>2, <4>3, <1>2
      <4>5. Spread(ClockFcn', Clock(v)', k)
        BY <4>4, <1>2, <1>5 DEF Spread
      <4> QED
        BY <4>5
    <3> QED
      BY <3>1, <3>2, <1>2
  <2>9. Together' /\ Rounds'
    BY <2>1, <2>8 DEF Together, TogetherStart, TogetherSync, TogetherAlone, TogetherAdvance, TogetherRound,
                      Rounds, Running
  <2>10. \A c \in Cores : Idling(c)' <=> Idling(c)
    BY <1>1, <1>6, <2>1 DEF Idling, Running
  <2> QED
    BY <1>3, <1>4, <2>1, <2>9, <2>10 DEF Early
<1>7. CASE ~loc.alone
  <2>1. /\ \A c, d \in Cores : exec[c] - exec[d] <= MinDelay
        /\ \A c \in Cores : c <= v =>
             /\ Ran(c) >= 0 /\ Ran(c) <= MaxSlice + Over(c + 1)
             /\ \A b \in Cores : b < c => Ran(c) <= Ran(b) + Over(c - b)
    <3>1. \A c \in Cores : c <= v => HasRun(c)
      BY <1>0, <1>1, CoreFacts DEF HasRun, Running
    <3>2. \A c \in Cores : HasRun(c) =>
             /\ Ran(c) >= 0 /\ Ran(c) <= MaxSlice + Over(c + 1)
             /\ \A b \in Cores : b < c => Ran(c) <= Ran(b) + Over(c - b)
      BY <1>1, <1>7 DEF Early, Rounds, Running
    <3>3. \A c, d \in Cores : exec[c] - exec[d] <= MinDelay
      BY <1>1, <1>7 DEF Early, Together, TogetherRound, Running
    <3> QED
      BY <3>1, <3>2, <3>3
  <2>2. CASE v = NumCores - 1
    <3>1. pc' = "start"
      BY <1>0, <2>2 DEF EndRun
    <3> DEFINE F == [c \in Cores |-> Clock(c)]
    <3>2. F \in [Cores -> Int] /\ \A c \in Cores : F[c] = Clock(c)
      BY <1>2
    <3> HIDE DEF F
    <3>3. PICK j \in Cores : \A c \in Cores : F[c] <= F[j]
      BY <3>2, FastestCore
    <3>4. PICK k \in Ranks : RoundRank(k, j)
      BY RoundRanks
    <3>5. \A c \in Cores : c <= v /\ c \in Nat
      BY <2>2, CoreFacts
    <3>6. ASSUME NEW i \in Cores PROVE Clock(j) - Clock(i) <= Reach(k[i])
      <4>0. /\ k[i] = IF i <= j THEN j - i + 1 ELSE i + 1
            /\ i \in Int /\ j \in Int /\ j - i \in Int /\ j + 1 \in Int /\ i + 1 \in Int
        BY <3>4, <3>5 DEF RoundRank
      <4>a. /\ exec[j] - exec[i] <= MinDelay /\ Ran(i) >= 0 /\ Ran(j) <= MaxSlice + Over(j + 1)
            /\ Clock(j) = exec[j] + Ran(j) /\ Clock(i) = exec[i] + Ran(i)
            /\ exec[i] \in Int /\ exec[j] \in Int /\ Ran(i) \in Int /\ Ran(j) \in Int
        BY <1>2, <2>1, <3>5
      <4>b. /\ Over(j - i) \in Int /\ Over(j - i + 1) = Over(j - i) + Overshoot /\ Over(1) = Overshoot
            /\ Over(j + 1) \in Int /\ Over(i + 1) \in Int
        BY <4>0, OverFacts, Zenon
      <4>1. CASE i = j
        <5>1. k[i] = 1
          BY <4>0, <4>1
        <5> QED
          BY <5>1, <4>1, <4>a, <4>b, <1>2 DEF Reach
      <4>2. CASE i < j
        <5>1. k[i] = j - i + 1
          BY <4>0, <4>2
        <5>2. Ran(j) <= Ran(i) + Over(j - i)
          BY <4>2, <2>1, <3>5
        <5>3. Reach(k[i]) = MinDelay + MaxSlice + (Over(j - i) + Overshoot)
          BY <5>1, <4>b DEF Reach
        <5> QED
          BY <5>2, <5>3, <4>a, <4>b, <1>2
      <4>3. CASE i > j
        <5>1. k[i] = i + 1 /\ j + 1 <= i + 1
          BY <4>0, <4>3
        <5>2. Over(j + 1) <= Over(i + 1)
          BY <5>1, <4>0, OverFacts, Zenon
        <5>3. Reach(k[i]) = MinDelay + MaxSlice + Over(i + 1)
          BY <5>1 DEF Reach
        <5> QED
          BY <5>2, <5>3, <4>a, <4>b, <1>2
      <4> QED
        BY <4>0, <4>1, <4>2, <4>3
    <3>7. \A c \in Cores : Clock(c) <= Clock(j)
      BY <3>2, <3>3
    <3>8. Spread(ClockFcn', Clock(j)', k)
      BY <3>6, <3>7, <1>2, <1>5 DEF Spread
    <3>9. Together' /\ Rounds'
      BY <3>1, <3>8 DEF Together, TogetherStart, TogetherSync, TogetherAlone, TogetherAdvance, TogetherRound,
                        Rounds, Running
    <3>10. \A c \in Cores : Idling(c)' <=> Idling(c)
      BY <1>0, <1>1, <2>2, <3>1, CoreFacts DEF Idling, Running
    <3> QED
      BY <1>3, <1>4, <3>1, <3>9, <3>10 DEF Early
  <2>3. CASE v # NumCores - 1
    <3> DEFINE n == Ticks(v) - loc.start
    <3>1. pc' = "slice" /\ loc' = [loc EXCEPT !.core = @ + 1, !.start = 0, !.maxSlice = n]
      BY <1>0, <1>7, <2>3 DEF EndRun
    <3>2. n = Ran(v)
      BY <1>1, <1>2, <1>7 DEF Ticks, Ran
    <3> HIDE DEF n
    <3>3. loc'.core = v + 1 /\ loc'.maxSlice = Ran(v) /\ loc'.alone = loc.alone
      BY <1>0, <1>2, <3>1, <3>2 DEF LocSet
    <3>4. \A d \in Cores : d < v + 1 <=> d <= v
      BY CoreFacts
    <3>0. PICK w \in Int : w = v + 1
      BY CoreFacts
    <3>5. Fits(w, Ran(v))'
      <4>1. Ran(v)' <= MaxSlice + Over(w)
        BY <1>2, <2>1, <3>0, CoreFacts
      <4>2. ASSUME NEW b \in Cores, b < w PROVE Ran(v)' <= Ran(b)' + Over(w - 1 - b)
        <5>1. w - 1 - b = v - b /\ (b < v \/ b = v)
          BY <3>0, <4>2, CoreFacts
        <5>2. CASE b < v
          BY <5>1, <5>2, <2>1, <1>2, CoreFacts
        <5>3. CASE b = v
          <6>1. Over(v - b) = 0
            <7>1. v - b = 0
              BY <5>3, CoreFacts
            <7> QED
              BY <7>1, OverFacts
          <6> QED
            BY <5>1, <5>3, <6>1, <1>2
        <5> QED
          BY <5>1, <5>2, <5>3
      <4> QED
        BY <4>1, <4>2 DEF Fits
    <3>6. Rounds'
      <4>1. Fits(loc.core, loc.maxSlice)'
        BY <3>0, <3>3, <3>5, <1>2 DEF Fits
      <4>2. \A d \in Cores : HasRun(d)' => d <= v
        BY <3>1, <3>3, <3>4 DEF HasRun, Running
      <4>3. \A d \in Cores : HasRun(d)' =>
             /\ Ran(d)' >= 0 /\ Ran(d)' <= MaxSlice + Over(d + 1)
             /\ \A b \in Cores : b < d => Ran(d)' <= Ran(b)' + Over(d - b)
        BY <4>2, <2>1, <1>2
      <4> QED
        BY <4>1, <4>3, <3>1 DEF Rounds, Running
    <3>7. TogetherRound'
      BY <2>1, <1>1 DEF TogetherRound
    <3>8. TogetherStart' /\ TogetherSync' /\ TogetherAlone' /\ TogetherAdvance'
      BY <3>1 DEF TogetherStart, TogetherSync, TogetherAlone, TogetherAdvance, Running
    <3>9. \A c \in Cores : Idling(c)' <=> Idling(c)
      BY <1>0, <1>1, <1>7, <3>1, <3>3, CoreFacts DEF Idling, Running
    <3> QED
      BY <1>3, <1>4, <3>1, <3>6, <3>7, <3>8, <3>9 DEF Early, Together
  <2> QED
    BY <2>2, <2>3
<1> QED
  BY <1>6, <1>7

LEMMA InitEarly ==
  ASSUME Init
  PROVE  Early
<1>0. Basic
  BY InitBasic
<1>1. /\ heap = FreshHeap /\ ts = [c \in Cores |-> <<>>] /\ exec = [c \in Cores |-> 0]
      /\ slice = [c \in Cores |-> MaxSlice] /\ down = [c \in Cores |-> MaxSlice] /\ pc = "start"
  BY DEF Init
<1>2. \A c \in Cores : exec[c] = 0 /\ slice[c] = MaxSlice /\ down[c] = MaxSlice /\ ts[c] = <<>>
  BY <1>1
<1>3. MaxSlice \in Nat /\ MinDelay \in Nat /\ Drift \in Nat /\ 0 \in Cores
  BY CoreFacts, OverFacts
<1>4. Slices
  BY <1>2, <1>3 DEF Slices
<1>5. \A c \in Cores : Clock(c) = 0
  BY <1>2, <1>3 DEF Clock
<1>6. PICK k \in Ranks : RoundRank(k, 0)
  BY <1>3, RoundRanks
<1>7. \A c \in Cores : k[c] \in Int /\ 0 <= k[c] /\ 0 \in Int
  BY <1>6 DEF Ranks
<1>8. \A c \in Cores : Over(k[c]) \in Int /\ Over(0) <= Over(k[c]) /\ Over(0) = 0
  BY <1>7, OverFacts, Zenon
<1>9. \A c \in Cores : 0 <= Reach(k[c])
  BY <1>3, <1>8 DEF Reach
<1>10. Spread(ClockFcn, Clock(0), k)
  BY <1>3, <1>5, <1>9 DEF Spread, ClockFcn
<1>11. Together /\ Rounds
  BY <1>1, <1>3, <1>10 DEF Together, TogetherStart, TogetherSync, TogetherAlone, TogetherAdvance, TogetherRound,
                           Rounds, Running
<1>12. ASSUME NEW c \in Cores PROVE EventsInTime(c)
  <2>1. ~Advancing(c) /\ ToSet(ts[c]) = {}
    BY <1>1, <1>2 DEF Advancing, ToSet
  <2>2. \A x \in ToSet(heap[c]) : x.time = MaxSlice /\ x.how = "own"
    BY <1>1, FreshFacts
  <2> QED
    BY <2>1, <2>2, <1>2, <1>3 DEF EventsInTime, OwnBound
<1> QED
  BY <1>1, <1>4, <1>11, <1>12 DEF Early

LEMMA StutterEarly ==
  ASSUME Basic, Basic', Early, vars' = vars
  PROVE  Early'
<1>1. /\ pc' = pc /\ loc' = loc /\ exec' = exec /\ slice' = slice /\ down' = down /\ sane' = sane
      /\ heap' = heap /\ ts' = ts
  BY DEF vars
<1>2. /\ Slices' /\ Together' /\ Rounds'
      /\ \A d \in Cores : (Advancing(d)' <=> Advancing(d)) /\ (Idling(d)' <=> Idling(d))
  BY <1>1, SameClocks DEF Early
<1>3. \A d \in Cores : EventsInTime(d)'
  BY <1>1, <1>2 DEF Early, EventsInTime, OwnBound
<1> QED
  BY <1>1, <1>2, <1>3 DEF Early

(* Only a load begins a load. *)
LEMMA LoadSteps ==
  ASSUME Basic, Unloaded, Load
  PROVE  loads' # 0
<1>1. loads \in Nat
  BY CoreFacts DEF Basic, Types, FileTypes
<1>2. CASE LoadState \/ LoadRefused
  BY <1>1, <1>2 DEF LoadState, LoadRefused
<1>3. CASE ~(LoadState \/ LoadRefused)
  <2>1. pc \in {"loading", "restoring", "rearm", "split"} /\ loads' = loads
    BY <1>3 DEF Load, LoadTiming, LoadTimingThrows, AttachCore, RunSplit, LoadFailsEarly, RearmUpdateEvents,
                RestoreSchedules, RestoreUnschedules, LoadDone, files, vars
  <2> QED
    BY <2>1 DEF Unloaded, Early
<1> QED
  BY <1>2, <1>3

LEMMA NextUnloaded ==
  ASSUME Basic, Basic', Unloaded, [Next]_vars
  PROVE  Unloaded'
<1> SUFFICES ASSUME loads' = 0 PROVE Early'
  BY DEF Unloaded
<1>0. ~Load
  BY LoadSteps
<1>1. ASSUME loads' = loads PROVE Early
  BY <1>1 DEF Unloaded
<1>2. CASE RunLoop
  <2>1. loads' = loads
    BY <1>2 DEF RunLoop, Begin, SyncCore, Dispatch, SyncAdvanced, Synced, AdvanceCore, Advanced, AllAdvanced,
                SetNextSlice, Idle, Execute, Proceed, EndRun, files
  <2>2. Early
    BY <1>1, <2>1
  <2> QED
    BY <1>2, <2>2, BeginEarly, SyncCoreEarly, DispatchEarly, SyncAdvancedEarly, SyncedEarly, AdvanceCoreEarly,
       AdvancedEarly, AllAdvancedEarly, SetNextSliceEarly, SliceStepEarly, EndRunEarly
       DEF RunLoop
<1>3. CASE GuestCall
  <2>1. Early
    BY <1>1, <1>3 DEF GuestCall, GuestSchedule, GuestUnschedule, files
  <2> QED
    BY <1>3, <2>1, GuestScheduleEarly, GuestUnscheduleEarly DEF GuestCall
<1>4. CASE SaveState
  BY <1>1, <1>4, SaveStateEarly DEF SaveState, files
<1>5. CASE \E e \in Async, c \in Cores : HostSchedule(e, c)
  <2>1. Early
    BY <1>1, <1>5 DEF HostSchedule, files
  <2> QED
    BY <1>5, <2>1, HostScheduleEarly
<1>6. CASE vars' = vars
  BY <1>1, <1>6, StutterEarly DEF vars
<1>7. CASE Callback
  <2>1. Early
    BY <1>1, <1>7 DEF Callback, CallbackSchedules, CallbackUnschedules, files
  <2> QED
    BY <1>7, <2>1, CallbackSchedulesEarly, CallbackUnschedulesEarly DEF Callback
<1> QED
  BY <1>0, <1>2, <1>3, <1>4, <1>5, <1>6, <1>7 DEF Next

LEMMA AlwaysIInv == Spec => []IInv
<1>1. Init => IInv
  BY InitBasic, InitEarly DEF IInv, Unloaded
<1>2. IInv /\ [Next]_vars => IInv'
  <2> SUFFICES ASSUME IInv, [Next]_vars PROVE IInv'
    OBVIOUS
  <2>1. Basic /\ Unloaded
    BY DEF IInv
  <2>2. Basic'
    BY <2>1, NextBasic
  <2>3. Unloaded'
    BY <2>1, <2>2, NextUnloaded
  <2> QED
    BY <2>2, <2>3 DEF IInv
<1> QED
  BY <1>1, <1>2, PTL DEF Spec

Attached == attached \subseteq Cores

LEMMA AlwaysAttached == Spec => []Attached
<1>1. Init => Attached
  BY DEF Init, Attached
<1>2. Attached /\ [Next]_vars => Attached'
  <2> SUFFICES ASSUME attached \subseteq Cores, [Next]_vars PROVE attached' \subseteq Cores
    BY DEF Attached
  <2>1. \/ attached' = attached \/ attached' = Cores \/ attached' = {} \/ AttachCore
        \/ \E n \in 1 .. NumCores : attached' = {c \in Cores : c >= n}
    BY DEF Next, RunLoop, Begin, SyncCore, Dispatch, SyncAdvanced, Synced, AdvanceCore, Advanced,
                AllAdvanced, SetNextSlice, Idle, Execute, Proceed, EndRun, GuestCall, GuestSchedule,
                GuestUnschedule, Callback, CallbackSchedules, CallbackUnschedules, SaveState, HostSchedule,
                Load, LoadState, LoadTiming, LoadTimingThrows, RunSplit, LoadRefused, LoadFailsEarly,
                RearmUpdateEvents, RestoreSchedules, RestoreUnschedules, LoadDone, files, vars
  <2> QED
    BY <2>1 DEF AttachCore
<1> QED
  BY <1>1, <1>2, PTL DEF Spec

-----------------------------------------------------------------------------
(* TypeOK: whatever is scheduled, saved and loaded, every queue holds      *)
(* events, downcount stays between an overshoot and slice_length, and      *)
(* until a load no slice that RunLoop hands out is longer than             *)
(* MAX_SLICE_LENGTH and the drift of the cores.                            *)
THEOREM TimingTypeCorrect == Spec => []TypeOK
<1>1. ASSUME IInv, Attached PROVE TypeOK
  <2>1. Basic /\ Unloaded
    BY <1>1 DEF IInv
  <2>2. ASSUME NEW c \in Cores PROVE \A x \in ToSet(heap[c]) \cup ToSet(ts[c]) : EventType(x)
    <3>1. heap[c] \in Seq(EventSet) /\ ts[c] \in Seq(EventSet)
      BY <2>1, BasicTypes DEF HeapSet
    <3> QED
      BY <3>1, ToSetTypes DEF EventType, Hows
  <2>3. \A c \in Cores : /\ exec[c] \in Nat /\ slice[c] \in Nat /\ down[c] \in Int /\ sane[c] \in BOOLEAN
                         /\ -Overshoot <= down[c] /\ down[c] <= slice[c]
    BY <2>1, BasicTypes
  <2>4. \A c \in Cores : down[c] \in -Overshoot .. slice[c]
    BY <2>3, CoreFacts
  <2>5. loads = 0 => \A c \in Cores : slice[c] <= MaxSlice + Drift
    BY <2>1 DEF Unloaded, Early, Slices
  <2>6. locked \in BOOLEAN /\ current \in Cores /\ pc \in PCs /\ loads \in 0 .. MaxLoads
    BY <2>1 DEF Basic, Types, ControlTypes, FileTypes
  <2> QED
    BY <1>1, <2>2, <2>3, <2>4, <2>5, <2>6 DEF TypeOK, PCs, Attached
<1> QED
  BY <1>1, AlwaysIInv, AlwaysAttached, PTL

(* The assertion of GetMaxSliceLength never fails, and RunLoop never lets  *)
(* a core run with an empty slice, after any sequence of loads.            *)
THEOREM SlicesNeverEmpty == Spec => []SliceAssertion
<1>1. ASSUME Basic PROVE SliceAssertion
  <2>1. ASSUME pc = "advance", NEW c \in 0 .. loc.core - 1, heap[c] # <<>> PROVE heap[c][1].time > exec[c]
    <3>1. c \in Cores /\ c < loc.core
      <4>1. loc.core \in 0 .. NumCores
        BY <1>1, BasicTypes
      <4> QED
        BY <4>1, CoreFacts DEF Cores
    <3>2. Idling(c)
      BY <2>1, <3>1 DEF Idling
    <3>3. Future(c)
      BY <1>1, <3>1, <3>2 DEF Basic, Phases, IdlingCores
    <3>4. heap[c][1] \in ToSet(heap[c])
      BY <1>1, <2>1, <3>1, BasicTypes, FirstHeap
    <3> QED
      BY <3>3, <3>4 DEF Future
  <2>2. pc = "run" => down[loc.core] > 0
    BY <1>1 DEF Basic, Phases, RunningCore, Running
  <2> QED
    BY <2>1, <2>2 DEF SliceAssertion
<1> QED
  BY <1>1, AlwaysBasic, PTL

(* An event that a core scheduled for itself is dispatched at most an      *)
(* overshoot late, whatever callbacks, other cores and other host threads  *)
(* schedule and unschedule and whatever ForceExceptionCheck does to the    *)
(* slices.                                                                 *)
THEOREM EventsOnTime == Spec => []DispatchedOnTime
<1>1. ASSUME IInv PROVE DispatchedOnTime
  <2> SUFFICES ASSUME pc \in {"syncing", "advancing"}, loads = 0, NEW x \in ToSet(heap[loc.core])
               PROVE  x.how = "own" => exec[loc.core] - x.time <= Overshoot
    BY DEF DispatchedOnTime
  <2>1. loc.core \in Cores /\ Advancing(loc.core)
    BY <1>1 DEF IInv, Basic, Phases, LocalCore, Advancing
  <2>2. EventsInTime(loc.core)
    BY <1>1, <2>1 DEF IInv, Unloaded, Early
  <2> QED
    BY <2>1, <2>2 DEF EventsInTime, OwnBound
<1> QED
  BY <1>1, AlwaysIInv, PTL

(* At the start of every round of RunLoop no core is further ahead of      *)
(* another than a slice, an overshoot for each core and the delay that     *)
(* RunLoop tolerates, however many rounds came before.                     *)
THEOREM CoresStayTogether == Spec => []CoresTogether
<1>1. ASSUME IInv PROVE CoresTogether
  <2> SUFFICES ASSUME pc = "start", loads = 0, NEW c \in Cores, NEW d \in Cores
               PROVE  Ticks(c) - Ticks(d) <= MaxSlice + Drift
    BY DEF CoresTogether
  <2>1. Basic /\ Early /\ Slices
    BY <1>1 DEF IInv, Unloaded, Early
  <2>2. PICK e \in Cores, r \in Ranks : Spread(ClockFcn, Clock(e), r)
    BY <2>1 DEF Early, Together, TogetherStart
  <2>3. Clock(c) <= Clock(e) /\ Clock(e) - Clock(d) <= Reach(r[d])
    BY <2>2 DEF Spread, ClockFcn
  <2>4. r[d] \in Int /\ r[d] <= NumCores /\ NumCores \in Int /\ MinDelay \in Nat /\ MaxSlice \in Nat
    BY <2>2, CoreFacts DEF Ranks
  <2>5. /\ Over(r[d]) \in Int /\ Over(NumCores) \in Int /\ Over(r[d]) <= Over(NumCores)
        /\ Drift = MinDelay + Over(NumCores)
    BY <2>4, OverFacts, Zenon
  <2>6. Ticks(c) = Clock(c) /\ Ticks(d) = Clock(d)
    BY <2>1, TicksClock
  <2>7. Clock(c) \in Int /\ Clock(d) \in Int /\ Clock(e) \in Int
    BY <2>1, BasicTypes
  <2> QED
    BY <2>3, <2>4, <2>5, <2>6, <2>7 DEF Reach
<1> QED
  BY <1>1, AlwaysIInv, PTL

(* The pad update event is in exactly one queue, exactly once, whenever    *)
(* the cores run: RearmUpdateEvents restores it after every load that gave *)
(* each CPU its Timer, also after one of a file without it, and nothing    *)
(* else removes or doubles it.                                             *)
THEOREM PumpStaysArmed == Spec => []PumpArmed
<1>1. ASSUME Basic PROVE PumpArmed
  <2> DEFINE S == UNION {{c} \X {i \in DOMAIN heap[c] : heap[c][i].id = Pump} : c \in Cores}
  <2> SUFFICES ASSUME pc \notin {"loading", "restoring", "rearm", "split"} PROVE Cardinality(S) = 1
    BY DEF PumpArmed, Loading
  <2>1. Armed(heap)
    BY <1>1 DEF Basic, Pumps
  <2>2. PICK c \in Cores : OnePump(heap[c]) /\ \A d \in Cores \ {c} : NoPump(heap[d])
    BY <2>1 DEF Armed
  <2>3. PICK i \in DOMAIN heap[c] : /\ heap[c][i].id = Pump
                                    /\ \A j \in DOMAIN heap[c] : heap[c][j].id = Pump => j = i
    BY <2>2 DEF OnePump
  <2>4. <<c, i>> \in S
    BY <2>3
  <2>5. ASSUME NEW p \in S PROVE p = <<c, i>>
    <3>1. PICK d \in Cores : p \in {d} \X {j \in DOMAIN heap[d] : heap[d][j].id = Pump}
      BY <2>5
    <3>2. PICK j \in DOMAIN heap[d] : p = <<d, j>> /\ heap[d][j].id = Pump
      BY <3>1
    <3>3. d = c
      BY <2>2, <3>2 DEF NoPump
    <3> QED
      BY <2>3, <3>2, <3>3
  <2> HIDE DEF S
  <2>6. S = {<<c, i>>}
    BY <2>4, <2>5
  <2> QED
    BY <2>6, FS_Singleton
<1> QED
  BY <1>1, AlwaysBasic, PTL
=============================================================================
