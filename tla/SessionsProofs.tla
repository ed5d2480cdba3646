--------------------------- MODULE SessionsProofs ---------------------------
(***************************************************************************)
(* Proofs about sessions: where the request of a thread is, how many       *)
(* sessions a port has, which threads sleep, and how many asynchronous     *)
(* operations are pending, for any number of sessions and threads.         *)
(***************************************************************************)
EXTENDS Sessions, FiniteSetTheorems, SequenceTheorems, TLAPS

SessionRecord ==
  [port : Ports \cup {"none"}, client : BOOLEAN, server : BOOLEAN, handle : BOOLEAN,
   hle : BOOLEAN, pending : Seq(Clients), handling : Clients \cup {None}, freed : BOOLEAN]

(* Types, without the bounds of the counts. *)
Types ==
  /\ ses \in [Slots -> SessionRecord]
  /\ backlog \in Seq(Slots)
  /\ active \in [Ports -> Int]
  /\ status \in [Threads -> {"ready", "ipc", "sync", "hle", "dead"}]
  /\ waits \in [Threads -> SUBSET (Slots \cup {"lle"})]
  /\ callback \in [Threads -> {"none", "ipc", "async"}]
  /\ ctx \in [Threads -> Slots \cup {None}]
  /\ counter \in Int
  /\ worker \in [Threads -> BOOLEAN] /\ tsq \in [Threads -> BOOLEAN] /\ timer \in [Threads -> BOOLEAN]
  /\ req \in [Threads -> Slots \cup {None, "hle"}]

(* A session without one of its ends holds no request, and a reference to  *)
(* the server end keeps it alive.                                          *)
Whole(x) ==
  /\ ~(x.client /\ x.server) => x.pending = <<>> /\ x.handling = None
  /\ x.handle \/ x.hle => x.server

Ends(new, log) ==
  /\ \A s \in Slots : Whole(new[s])
  /\ \A i \in DOMAIN log : new[log[i]].server

(* The request of thread t is in the session x, and there only once. *)
In(x, t) == x.handling = t \/ \E i \in DOMAIN x.pending : x.pending[i] = t

Once(x, t) ==
  /\ x.handling = t => \A i \in DOMAIN x.pending : x.pending[i] # t
  /\ \A i, j \in DOMAIN x.pending : x.pending[i] = t /\ x.pending[j] = t => i = j

(* What a thread waits for, and which wakeups are on their way to it. *)
ThreadState(t) ==
  /\ (waits[t] # {}) <=> (status[t] = "sync")
  /\ (status[t] = "sync") <=> (callback[t] = "ipc" /\ status[t] # "dead")
  /\ (status[t] = "hle") <=> (callback[t] = "async" /\ status[t] # "dead")
  /\ worker[t] \/ tsq[t] \/ ctx[t] # None => status[t] \in {"hle", "dead"}
  /\ timer[t] => status[t] \in {"ipc", "hle", "dead"}
  /\ ~(worker[t] /\ tsq[t]) /\ ~(worker[t] /\ timer[t]) /\ ~(tsq[t] /\ timer[t])
  /\ status[t] # "ipc" => req[t] = None
  /\ status[t] = "ipc" => (timer[t] <=> req[t] = "hle")

(* Where the request of a live thread is. *)
RequestState(t) ==
  /\ status[t] \in {"ready", "sync", "hle"} => \A s \in Slots : ~In(ses[s], t)
  /\ status[t] = "ipc" => \A s \in Slots : (In(ses[s], t) <=> req[t] = s) /\ Once(ses[s], t)

(* The second half of NoRequestSleptOver. *)
Watched(new, w) ==
  \A s \in Slots : Waiters(s, w) # {} => new[s].server /\ (ShouldWait(new[s]) \/ new[s].freed)

(* The two halves of SessionsCounted. *)
Owned(new, log, w, c) == \A s \in Slots : new[s].server => Referenced(s, new[s], log, w, c)

PlacesCounted ==
  \A p \in Ports : active[p] = Cardinality({s \in Slots : ses[s].server /\ ses[s].port = p})

IInv ==
  /\ Types
  /\ Ends(ses, backlog)
  /\ \A t \in Threads : ThreadState(t)
  /\ \A t \in Threads : RequestState(t)
  /\ Watched(ses, waits)
  /\ Owned(ses, backlog, waits, ctx)
  /\ PlacesCounted /\ \A p \in Ports : active[p] <= MaxSessions
  /\ AsyncCounted

-----------------------------------------------------------------------------
(* What the operations on one session do to the requests in it. *)

(* A request that is queued is in the session, once if it was not before.  *)
LEMMA QueuedIn ==
  ASSUME NEW x \in SessionRecord, NEW t \in Clients, NEW u \in Threads,
         NEW y, y = [x EXCEPT !.pending = Append(@, t)]
  PROVE  /\ y \in SessionRecord
         /\ In(y, u) <=> In(x, u) \/ u = t
         /\ Once(x, u) /\ (u = t => ~In(x, u)) => Once(y, u)
<1>2. x.pending \in Seq(Clients)
  BY DEF SessionRecord
<1>0. Append(x.pending, t) \in Seq(Clients)
  BY <1>2
<1>1. y \in SessionRecord /\ y.handling = x.handling /\ y.pending = Append(x.pending, t)
  BY <1>0 DEF SessionRecord
<1>3. ASSUME NEW p \in Seq(Clients), NEW q, q = Append(p, t)
      PROVE  /\ DOMAIN q = 1 .. Len(p) + 1 /\ DOMAIN p = 1 .. Len(p) /\ Len(p) \in Nat
             /\ \A i \in 1 .. Len(p) : q[i] = p[i]
             /\ q[Len(p) + 1] = t
  BY <1>3
<1>3a. /\ DOMAIN y.pending = 1 .. Len(x.pending) + 1
       /\ DOMAIN x.pending = 1 .. Len(x.pending) /\ Len(x.pending) \in Nat
       /\ \A i \in 1 .. Len(x.pending) : y.pending[i] = x.pending[i]
       /\ y.pending[Len(x.pending) + 1] = t
  BY ONLY <1>1, <1>2, <1>3
<1>4. In(y, u) <=> In(x, u) \/ u = t
  BY ONLY <1>1, <1>3a DEF In
<1>5. ASSUME Once(x, u), u = t => ~In(x, u) PROVE Once(y, u)
  BY ONLY <1>1, <1>3a, <1>5 DEF Once, In
<1> QED BY <1>1, <1>4, <1>5

(* ServerSession::Acquire moves the last request and loses none. *)
LEMMA AcquireIn ==
  ASSUME NEW x \in SessionRecord, x.client => x.pending # <<>> /\ x.handling = None,
         NEW u \in Threads
  PROVE  /\ Acquire(x) \in SessionRecord
         /\ Acquire(x).client = x.client /\ Acquire(x).server = x.server
         /\ Acquire(x).port = x.port /\ Acquire(x).handle = x.handle /\ Acquire(x).hle = x.hle
         /\ x.client => Acquire(x).handling \in Clients
         /\ In(Acquire(x), u) <=> In(x, u)
         /\ Once(x, u) => Once(Acquire(x), u)
<1> USE SessionsAssumption
<1>0. CASE ~x.client
  BY <1>0 DEF Acquire, SessionRecord
<1>1. CASE x.client
  <2> DEFINE y == Acquire(x)
  <2>1. x.pending \in Seq(Clients) /\ x.pending # <<>>
    BY <1>1 DEF SessionRecord
  <2>2. /\ Len(x.pending) \in Nat /\ Len(x.pending) >= 1 /\ DOMAIN x.pending = 1 .. Len(x.pending)
        /\ Last(x.pending) = x.pending[Len(x.pending)] /\ Last(x.pending) \in Clients
    BY <2>1 DEF Last
  <2>3. /\ Front(x.pending) \in Seq(Clients)
        /\ DOMAIN Front(x.pending) = 1 .. Len(x.pending) - 1
        /\ \A i \in 1 .. Len(x.pending) - 1 : Front(x.pending)[i] = x.pending[i]
    BY <2>1, <2>2 DEF Front
  <2>4. /\ y \in SessionRecord
        /\ y.client = x.client /\ y.server = x.server /\ y.port = x.port
        /\ y.handle = x.handle /\ y.hle = x.hle
        /\ y.handling = Last(x.pending) /\ y.pending = Front(x.pending)
    BY <1>1, <2>2, <2>3 DEF Acquire, SessionRecord
  <2>5. x.handling # u
    BY <1>1 DEF Threads
  <2> HIDE DEF y
  <2>6. In(y, u) <=> In(x, u)
    <3>1. DOMAIN y.pending = 1 .. Len(x.pending) - 1
          /\ \A i \in 1 .. Len(x.pending) - 1 : y.pending[i] = x.pending[i]
      BY ONLY <2>3, <2>4
    <3>2. (\E i \in 1 .. Len(x.pending) : x.pending[i] = u)
            <=> x.pending[Len(x.pending)] = u \/ \E i \in 1 .. Len(x.pending) - 1 : x.pending[i] = u
      BY ONLY <2>2
    <3>3. (\E i \in DOMAIN y.pending : y.pending[i] = u)
            <=> \E i \in 1 .. Len(x.pending) - 1 : x.pending[i] = u
      BY ONLY <3>1
    <3>4. y.handling = x.pending[Len(x.pending)] /\ DOMAIN x.pending = 1 .. Len(x.pending)
      BY ONLY <2>2, <2>4
    <3> QED BY ONLY <3>2, <3>3, <3>4, <2>5 DEF In
  <2>7. ASSUME Once(x, u) PROVE Once(y, u)
    <3>1. DOMAIN y.pending = 1 .. Len(x.pending) - 1
          /\ \A i \in 1 .. Len(x.pending) - 1 : y.pending[i] = x.pending[i]
      BY ONLY <2>3, <2>4
    <3>2. \A i, j \in 1 .. Len(x.pending) : x.pending[i] = u /\ x.pending[j] = u => i = j
      BY ONLY <2>2, <2>7 DEF Once
    <3>3. y.handling = x.pending[Len(x.pending)]
      BY ONLY <2>2, <2>4
    <3>4. ASSUME y.handling = u, NEW i \in DOMAIN y.pending PROVE y.pending[i] # u
      <4>1. i \in 1 .. Len(x.pending) /\ Len(x.pending) \in 1 .. Len(x.pending)
            /\ i # Len(x.pending) /\ y.pending[i] = x.pending[i]
        BY ONLY <2>2, <3>1, <3>4
      <4> QED BY ONLY <3>2, <3>3, <3>4, <4>1
    <3>5. ASSUME NEW i \in DOMAIN y.pending, NEW j \in DOMAIN y.pending,
                 y.pending[i] = u, y.pending[j] = u
          PROVE  i = j
      BY ONLY <2>2, <3>1, <3>2, <3>5
    <3> QED BY ONLY <3>4, <3>5 DEF Once
  <2> USE DEF y
  <2> QED BY <2>2, <2>4, <2>6, <2>7
<1> QED BY <1>0, <1>1

(* A new session is whole and empty. *)
LEMMA PairRecord ==
  ASSUME NEW p \in Ports \cup {"none"}
  PROVE  /\ Pair(p) \in SessionRecord /\ Whole(Pair(p))
         /\ Pair(p).client /\ Pair(p).server /\ Pair(p).port = p
         /\ Pair(p).pending = <<>> /\ Pair(p).handling = None
         /\ p # "lle" => Pair(p).handle \/ Pair(p).hle
<1>1. <<>> \in Seq(Clients)
  OBVIOUS
<1>2. CASE p = "lle"
  BY <1>1, <1>2 DEF Pair, Unused, SessionRecord, Ports, Whole
<1>3. CASE p = "hle"
  BY <1>1, <1>3 DEF Pair, Unused, SessionRecord, Ports, Whole
<1>4. CASE p = "none"
  BY <1>1, <1>4 DEF Pair, Unused, SessionRecord, Ports, Whole
<1> QED BY <1>2, <1>3, <1>4 DEF Ports

(* A reply takes out the request that was handled, and only that one. *)
LEMMA AnsweredIn ==
  ASSUME NEW x \in SessionRecord, NEW u \in Threads
  PROVE  /\ Answered(x) \in SessionRecord
         /\ Answered(x).client = x.client /\ Answered(x).server = x.server
         /\ Answered(x).port = x.port /\ Answered(x).handle = x.handle /\ Answered(x).hle = x.hle
         /\ Answered(x).handling = None /\ Answered(x).pending = x.pending
         /\ Answered(x).freed = (x.client /\ x.pending # <<>>)
         /\ Once(x, u) => Once(Answered(x), u)
         /\ u # x.handling => (In(Answered(x), u) <=> In(x, u))
         /\ u = x.handling /\ Once(x, u) => ~In(Answered(x), u)
<1> USE SessionsAssumption
<1>1. /\ Answered(x) \in SessionRecord
      /\ Answered(x).client = x.client /\ Answered(x).server = x.server
      /\ Answered(x).port = x.port /\ Answered(x).handle = x.handle /\ Answered(x).hle = x.hle
      /\ Answered(x).handling = None /\ Answered(x).pending = x.pending
      /\ Answered(x).freed = (x.client /\ x.pending # <<>>)
  BY DEF Answered, SessionRecord
<1>2. u # None
  OBVIOUS
<1> QED BY <1>1, <1>2 DEF In, Once

(* A session that loses an end loses its requests. *)
LEMMA ClosedIn ==
  ASSUME NEW x \in SessionRecord, NEW u \in Threads
  PROVE  /\ Closed(x) \in SessionRecord /\ Closed(x).server = x.server
         /\ x.server => Closed(x).port = x.port
         /\ Whole(x) => Whole(Closed(x))
         /\ ~In(Closed(x), u)
<1> USE SessionsAssumption
<1>1. <<>> \in Seq(Clients)
  OBVIOUS
<1>2. u # None
  OBVIOUS
<1>3. /\ Closed(x) \in SessionRecord /\ Closed(x).server = x.server
      /\ x.server => Closed(x).port = x.port /\ Closed(x).handle = x.handle /\ ~Closed(x).hle
      /\ ~x.server => ~Closed(x).handle /\ ~Closed(x).hle
      /\ Closed(x).pending = <<>> /\ Closed(x).handling = None
  <2>1. CASE x.server
    BY <1>1, <2>1 DEF Closed, SessionRecord
  <2>2. CASE ~x.server
    BY <1>1, <2>2 DEF Closed, Unused, SessionRecord
  <2> QED BY <2>1, <2>2
<1>4. ~In(Closed(x), u)
  BY <1>2, <1>3 DEF In
<1> QED BY <1>3, <1>4 DEF Whole

LEMMA DestroyedIn ==
  ASSUME NEW x \in SessionRecord, NEW u \in Threads
  PROVE  /\ Destroyed(x) \in SessionRecord /\ ~Destroyed(x).server
         /\ ~x.handle /\ ~x.hle => Whole(Destroyed(x))
         /\ ~In(Destroyed(x), u)
<1> USE SessionsAssumption
<1>1. <<>> \in Seq(Clients)
  OBVIOUS
<1>2. u # None
  OBVIOUS
<1>3. /\ Destroyed(x) \in SessionRecord /\ ~Destroyed(x).server
      /\ x.client => Destroyed(x).handle = x.handle /\ Destroyed(x).hle = x.hle
      /\ ~x.client => ~Destroyed(x).handle /\ ~Destroyed(x).hle
      /\ Destroyed(x).pending = <<>> /\ Destroyed(x).handling = None
  <2>1. CASE x.client
    BY <1>1, <2>1 DEF Destroyed, SessionRecord
  <2>2. CASE ~x.client
    BY <1>1, <2>2 DEF Destroyed, Unused, SessionRecord
  <2> QED BY <2>1, <2>2
<1>4. ~In(Destroyed(x), u)
  BY <1>2, <1>3 DEF In
<1> QED BY <1>3, <1>4 DEF Whole

-----------------------------------------------------------------------------
(* A finite set without some of its elements. *)
LEMMA CardinalityWithout ==
  ASSUME NEW S, IsFiniteSet(S), NEW T \in SUBSET S
  PROVE  /\ IsFiniteSet(S \ T) /\ Cardinality(S \ T) = Cardinality(S) - Cardinality(T)
         /\ Cardinality(S \ T) \in Nat /\ Cardinality(S) \in Nat /\ Cardinality(T) \in Nat
<1>1. IsFiniteSet(T) /\ IsFiniteSet(S \ T)
  <2>1. S \ T \in SUBSET S
    OBVIOUS
  <2> QED BY <2>1, FS_Subset
<1>2. Cardinality(T \cup (S \ T)) = Cardinality(T) + Cardinality(S \ T) - Cardinality(T \cap (S \ T))
  BY <1>1, FS_Union
<1>3. T \cup (S \ T) = S /\ T \cap (S \ T) = {} /\ Cardinality({}) = 0
  BY FS_EmptySet
<1>4. Cardinality(S) \in Nat /\ Cardinality(T) \in Nat /\ Cardinality(S \ T) \in Nat
  BY <1>1, FS_CardinalityType
<1>5. Cardinality(S) = Cardinality(T) + Cardinality(S \ T) - 0
  BY <1>2, <1>3, Zenon
<1> QED BY <1>1, <1>4, <1>5

OpenIn(new, p) == {s \in Slots : new[s].server /\ new[s].port = p}
Open(p) == OpenIn(ses, p)

(* The end of a system call: the sessions it is given are whole, and the   *)
(* ports count them; a new one is referred to.                             *)
FinishGiven(new, count, log, w, asked) ==
  /\ new \in [Slots -> SessionRecord] /\ log \in Seq(Slots)
  /\ count \in [Ports -> Int]
  /\ w \in [Threads -> SUBSET (Slots \cup {"lle"})]
  /\ asked \in [Threads -> Slots \cup {None, "hle"}]
  /\ \A s \in Slots : new[s].server =>
       new[s].port = ses[s].port \/ Referenced(s, new[s], log, w, ctx')
  /\ \A p \in Ports : count[p] = Cardinality(OpenIn(new, p)) /\ count[p] <= MaxSessions
  /\ Ends(new, log) /\ Watched(new, w)

(* The same when only the requests and the references of the sessions      *)
(* differ from the ones before.                                            *)
FinishPre(new, log, w, asked) ==
  /\ new \in [Slots -> SessionRecord] /\ log \in Seq(Slots)
  /\ w \in [Threads -> SUBSET (Slots \cup {"lle"})]
  /\ asked \in [Threads -> Slots \cup {None, "hle"}]
  /\ \A s \in Slots : /\ new[s].server = ses[s].server
                      /\ ses[s].server => new[s].port = ses[s].port
  /\ Ends(new, log) /\ Watched(new, w)

LEMMA FinishSame ==
  ASSUME IInv, NEW new, NEW log, NEW w, NEW asked, FinishPre(new, log, w, asked)
  PROVE  FinishGiven(new, active, log, w, asked)
<1>1. \A p \in Ports : OpenIn(new, p) = Open(p)
  BY DEF FinishPre, OpenIn, Open
<1>2. \A p \in Ports : active[p] = Cardinality(OpenIn(new, p)) /\ active[p] <= MaxSessions
  BY <1>1 DEF IInv, PlacesCounted, Open, OpenIn
<1>3. active \in [Ports -> Int]
  BY DEF IInv, Types
<1> QED BY <1>2, <1>3 DEF FinishPre, FinishGiven

(* A request that was in one place still is, unless its session lost an    *)
(* end: then it is nowhere, and the thread has no request.                 *)
FinishPost(new, log, w, asked) ==
  /\ ses' \in [Slots -> SessionRecord] /\ backlog' = log /\ waits' = w
  /\ active' \in [Ports -> Int]
  /\ req' \in [Threads -> Slots \cup {None, "hle"}]
  /\ Ends(ses', log) /\ Watched(ses', w) /\ Owned(ses', log, w, ctx')
  /\ PlacesCounted' /\ \A p \in Ports : active'[p] <= MaxSessions
  /\ \A t \in Threads : asked[t] \notin Slots => req'[t] = asked[t]
  /\ \A t \in Threads : req'[t] \in {asked[t], None}
  /\ \A t \in Threads : (\A s \in Slots : ~In(new[s], t)) => \A s \in Slots : ~In(ses'[s], t)
  /\ \A t \in Threads :
       (\A s \in Slots : (In(new[s], t) <=> asked[t] = s) /\ Once(new[s], t))
         => \A s \in Slots : (In(ses'[s], t) <=> req'[t] = s) /\ Once(ses'[s], t)

(* Server ends that nothing refers to go, with their requests and their    *)
(* places in the count of the port, and nothing else changes.              *)
LEMMA FinishKeeps ==
  ASSUME NEW new, NEW count, NEW log, NEW w, NEW asked,
         FinishGiven(new, count, log, w, asked), Finish(new, count, log, w, asked)
  PROVE  FinishPost(new, log, w, asked)
<1>0. /\ new \in [Slots -> SessionRecord] /\ log \in Seq(Slots)
      /\ count \in [Ports -> Int]
      /\ w \in [Threads -> SUBSET (Slots \cup {"lle"})]
      /\ asked \in [Threads -> Slots \cup {None, "hle"}]
      /\ \A s \in Slots : new[s].server =>
           new[s].port = ses[s].port \/ Referenced(s, new[s], log, w, ctx')
      /\ \A p \in Ports : count[p] = Cardinality(OpenIn(new, p)) /\ count[p] <= MaxSessions
      /\ Ends(new, log) /\ Watched(new, w)
  BY DEF FinishGiven
<1> DEFINE gone == {s \in Slots : new[s].server /\ ~Referenced(s, new[s], log, w, ctx')}
<1>1. /\ ses' = [s \in Slots |-> IF s \in gone THEN Destroyed(new[s]) ELSE new[s]]
      /\ active' = [p \in Ports |-> ConnectionClosed(count, p, gone)]
      /\ backlog' = log /\ waits' = w
      /\ req' = [t \in Threads |->
                   IF asked[t] \in Slots /\ ~(ses'[asked[t]].client /\ ses'[asked[t]].server)
                     THEN None ELSE asked[t]]
  BY <1>0 DEF Finish
<1>2a. \A s \in gone : s \in Slots /\ new[s].server /\ new[s].port = ses[s].port
  BY <1>0
<1>2. \A s \in gone : /\ s \in Slots /\ new[s].server /\ ~new[s].handle /\ ~new[s].hle
                      /\ Waiters(s, w) = {} /\ \A i \in DOMAIN log : log[i] # s
  BY <1>0 DEF Referenced, ToSet
<1>2b. \A s \in Slots \ gone : new[s].server => Referenced(s, new[s], log, w, ctx')
  BY <1>0
<1> HIDE DEF gone
<1>3. \A s \in gone : /\ Destroyed(new[s]) \in SessionRecord /\ ~Destroyed(new[s]).server
                      /\ Whole(Destroyed(new[s]))
                      /\ Destroyed(new[s]).pending = <<>> /\ Destroyed(new[s]).handling = None
  <2> SUFFICES ASSUME NEW s \in gone
               PROVE  /\ Destroyed(new[s]) \in SessionRecord /\ ~Destroyed(new[s]).server
                      /\ Whole(Destroyed(new[s]))
                      /\ Destroyed(new[s]).pending = <<>> /\ Destroyed(new[s]).handling = None
    BY <1>0
  <2>1. new[s] \in SessionRecord
    BY <1>0, <1>2
  <2>2. <<>> \in Seq(Clients)
    BY <1>0
  <2>3. Destroyed(new[s]) \in SessionRecord /\ ~Destroyed(new[s]).server
        /\ Destroyed(new[s]).pending = <<>> /\ Destroyed(new[s]).handling = None
        /\ ~Destroyed(new[s]).handle /\ ~Destroyed(new[s]).hle
    <3>1. CASE new[s].client
      BY <1>0, <1>2, <2>1, <2>2, <3>1 DEF Destroyed, SessionRecord
    <3>2. CASE ~new[s].client
      BY <1>0, <2>1, <2>2, <3>2 DEF Destroyed, Unused, SessionRecord
    <3> QED BY <1>0, <3>1, <3>2
  <2> QED BY <1>0, <2>3 DEF Whole
<1>4. \A s \in Slots : /\ s \in gone => ses'[s] = Destroyed(new[s])
                       /\ s \notin gone => ses'[s] = new[s]
  BY <1>0, <1>1
<1>5. ses' \in [Slots -> SessionRecord]
  <2>1. \A s \in Slots : (IF s \in gone THEN Destroyed(new[s]) ELSE new[s]) \in SessionRecord
    BY <1>0, <1>3
  <2> QED BY <1>0, <1>1, <2>1
<1>6. Ends(ses', log)
  <2>1. \A s \in Slots : Whole(ses'[s])
    BY <1>0, <1>3, <1>4 DEF Ends
  <2>2. \A i \in DOMAIN log : log[i] \in Slots
    BY <1>0
  <2>3. \A i \in DOMAIN log : ses'[log[i]].server
    BY <1>0, <1>2, <1>4, <2>2 DEF Ends
  <2> QED BY <1>0, <2>1, <2>3 DEF Ends
<1>7. Watched(ses', w)
  BY <1>0, <1>2, <1>4 DEF Watched
<1>7a. Owned(ses', log, w, ctx')
  BY <1>2b, <1>3, <1>4 DEF Owned
<1>8. \A p \in Ports : /\ Open(p)' = OpenIn(new, p) \ {s \in gone : ses[s].port = p}
                       /\ {s \in gone : ses[s].port = p} \subseteq OpenIn(new, p)
  BY <1>0, <1>2a, <1>3, <1>4 DEF Open, OpenIn
<1>9. \A p \in Ports : /\ active'[p] = Cardinality(Open(p)')
                       /\ active'[p] \in Nat /\ active'[p] <= MaxSessions
  <2> SUFFICES ASSUME NEW p \in Ports
               PROVE  /\ active'[p] = Cardinality(Open(p)')
                      /\ active'[p] \in Nat /\ active'[p] <= MaxSessions
    BY <1>0
  <2>1. count[p] = Cardinality(OpenIn(new, p)) /\ IsFiniteSet(OpenIn(new, p))
    <3>1. OpenIn(new, p) \in SUBSET Slots
      BY <1>0 DEF OpenIn
    <3> QED BY <1>0, <3>1, FS_Subset, SessionsAssumption
  <2>2. active'[p] = count[p] - Cardinality({s \in gone : ses[s].port = p})
    BY <1>0, <1>1 DEF ConnectionClosed
  <2>3. {s \in gone : ses[s].port = p} \in SUBSET OpenIn(new, p)
    BY <1>0, <1>8
  <2>4. /\ Cardinality(OpenIn(new, p) \ {s \in gone : ses[s].port = p})
             = Cardinality(OpenIn(new, p)) - Cardinality({s \in gone : ses[s].port = p})
        /\ Cardinality(OpenIn(new, p) \ {s \in gone : ses[s].port = p}) \in Nat
        /\ Cardinality(OpenIn(new, p)) \in Nat /\ Cardinality({s \in gone : ses[s].port = p}) \in Nat
    BY <1>0, <2>1, <2>3, CardinalityWithout
  <2>5. Cardinality(Open(p)') = Cardinality(OpenIn(new, p) \ {s \in gone : ses[s].port = p})
    BY <1>8, Zenon
  <2>6. count[p] <= MaxSessions /\ MaxSessions \in Nat
    BY <1>0, SessionsAssumption
  <2> HIDE DEF gone
  <2> QED BY ONLY <2>1, <2>2, <2>4, <2>5, <2>6
<1>10. PlacesCounted' /\ active' \in [Ports -> Int] /\ \A p \in Ports : active'[p] <= MaxSessions
  <2>1. PlacesCounted'
    BY <1>0, <1>9 DEF PlacesCounted, Open, OpenIn
  <2>2. active' \in [Ports -> Int]
    BY <1>0, <1>1, <1>9
  <2> QED BY <1>0, <1>9, <2>1, <2>2
<1>11. req' \in [Threads -> Slots \cup {None, "hle"}]
  BY <1>0, <1>1
<1>12. \A t \in Threads : /\ asked[t] \notin Slots => req'[t] = asked[t]
                          /\ req'[t] \in {asked[t], None}
  BY <1>0, <1>1
<1>13. \A t \in Threads, s \in Slots : In(ses'[s], t) => In(new[s], t) /\ ses'[s] = new[s]
  BY <1>0, <1>3, <1>4, SessionsAssumption DEF In
<1>14. ASSUME NEW t \in Threads,
              \A s \in Slots : (In(new[s], t) <=> asked[t] = s) /\ Once(new[s], t),
              NEW s \in Slots
       PROVE  (In(ses'[s], t) <=> req'[t] = s) /\ Once(ses'[s], t)
  <2>1. Once(ses'[s], t)
    BY <1>0, <1>3, <1>4, <1>14, SessionsAssumption DEF Once
  <2>2. ASSUME In(ses'[s], t) PROVE req'[t] = s
    <3>1. asked[t] = s
      BY <1>0, <1>13, <1>14, <2>2
    <3>2. ses'[s].client /\ ses'[s].server
      BY <1>0, <1>6, <2>2, SessionsAssumption DEF Ends, Whole, In
    <3> QED BY <1>0, <1>1, <3>1, <3>2
  <2>3. ASSUME req'[t] = s PROVE In(ses'[s], t)
    <3>1. asked[t] = s /\ ses'[s].server
      BY <1>0, <1>1, <2>3, SessionsAssumption
    <3> QED BY <1>0, <1>3, <1>4, <1>14, <3>1
  <2> QED BY <1>0, <2>1, <2>2, <2>3
<1> QED BY <1>1, <1>5, <1>6, <1>7, <1>7a, <1>10, <1>11, <1>12, <1>13, <1>14 DEF FinishPost

-----------------------------------------------------------------------------
(* The count of asynchronous operations, by what a step does to the set of *)
(* the threads that are in one.                                            *)
InAsync == {t \in Threads : callback[t] = "async" /\ status[t] # "dead"}

LEMMA AsyncStep ==
  ASSUME AsyncCounted, NEW t \in Threads,
         \/ InAsync' = InAsync /\ counter' = counter
         \/ InAsync' = InAsync \cup {t} /\ t \notin InAsync /\ counter' = counter + 1
         \/ InAsync' = InAsync \ {t} /\ t \in InAsync /\ counter' = counter - 1
  PROVE  AsyncCounted' /\ counter' \in 0 .. Cardinality(Threads)
<1>1. IsFiniteSet(InAsync) /\ counter = Cardinality(InAsync) /\ Cardinality(InAsync) \in Nat
  <2>1. InAsync \in SUBSET Threads
    BY DEF InAsync
  <2>2. IsFiniteSet(InAsync)
    BY <2>1, FS_Subset, SessionsAssumption
  <2> QED BY <2>2, FS_CardinalityType DEF AsyncCounted, InAsync
<1>2. counter' = Cardinality(InAsync')
  <2>1. CASE InAsync' = InAsync /\ counter' = counter
    BY <1>1, <2>1
  <2>2. CASE InAsync' = InAsync \cup {t} /\ t \notin InAsync /\ counter' = counter + 1
    <3>1. Cardinality(InAsync \cup {t}) = Cardinality(InAsync) + 1
      BY <1>1, <2>2, FS_AddElement
    <3> QED BY <1>1, <2>2, <3>1
  <2>3. CASE InAsync' = InAsync \ {t} /\ t \in InAsync /\ counter' = counter - 1
    <3>1. Cardinality(InAsync \ {t}) = Cardinality(InAsync) - 1
      BY <1>1, <2>3, FS_RemoveElement
    <3> QED BY <1>1, <2>3, <3>1
  <2> QED BY <2>1, <2>2, <2>3
<1>3. counter' \in 0 .. Cardinality(Threads)
  <2>1. InAsync' \in SUBSET Threads
    BY DEF InAsync
  <2>2. IsFiniteSet(InAsync') /\ Cardinality(InAsync') <= Cardinality(Threads)
    BY <2>1, FS_Subset, SessionsAssumption
  <2>3. Cardinality(InAsync') \in Nat /\ Cardinality(Threads) \in Nat
    BY <2>2, FS_CardinalityType, SessionsAssumption
  <2> QED BY <1>2, <2>2, <2>3
<1> QED BY <1>2, <1>3 DEF AsyncCounted, InAsync

(* Steps that leave the sessions and the wait lists alone keep what is     *)
(* said about them.                                                        *)
LEMMA SessionsUntouched ==
  ASSUME IInv, ses' = ses, backlog' = backlog, active' = active, waits' = waits,
         \A s \in Slots : Referenced(s, ses[s], backlog, waits, ctx)
                           => Referenced(s, ses[s], backlog, waits, ctx')
  PROVE  /\ Ends(ses', backlog') /\ Watched(ses', waits') /\ Owned(ses', backlog', waits', ctx')
         /\ PlacesCounted' /\ \A p \in Ports : active'[p] <= MaxSessions
BY DEF IInv, PlacesCounted, Owned

(* A request to an HLE service that answers at once. *)
LEMMA HleRequestStep ==
  ASSUME IInv, NEW t \in Clients, NEW s \in Slots, HleRequest(t, s)
  PROVE  IInv'
<1> USE SessionsAssumption
<1>0. Types /\ t \in Threads
  BY DEF IInv, Threads
<1>1. /\ status[t] = "ready" /\ status' = [status EXCEPT ![t] = "ipc"]
      /\ timer' = [timer EXCEPT ![t] = TRUE] /\ req' = [req EXCEPT ![t] = "hle"]
      /\ ses' = ses /\ backlog' = backlog /\ active' = active /\ waits' = waits
      /\ callback' = callback /\ counter' = counter /\ worker' = worker /\ tsq' = tsq /\ ctx' = ctx
  BY DEF HleRequest, host
<1>2. \A u \in Threads : u # t => status'[u] = status[u] /\ timer'[u] = timer[u] /\ req'[u] = req[u]
  BY <1>0, <1>1 DEF Types
<1>3. status'[t] = "ipc" /\ timer'[t] = TRUE /\ req'[t] = "hle"
  BY <1>0, <1>1 DEF Types
<1>4. Types'
  BY <1>0, <1>1 DEF Types
<1>5. \A u \in Threads : ThreadState(u)'
  BY <1>0, <1>1, <1>2, <1>3 DEF IInv, ThreadState
<1>6. \A u \in Threads : RequestState(u)'
  <2>1. \A r \in Slots : ~In(ses[r], t) /\ Once(ses[r], t)
    BY <1>0, <1>1 DEF IInv, RequestState, In, Once
  <2>2. \A r \in Slots : r # "hle"
    BY DEF Ports
  <2> QED BY <1>0, <1>1, <1>2, <1>3, <2>1, <2>2 DEF IInv, RequestState
<1>7. AsyncCounted'
  <2>1. InAsync' = InAsync
    BY <1>1, <1>2, <1>3 DEF InAsync
  <2> QED BY <1>0, <1>1, <2>1, AsyncStep DEF IInv
<1> QED BY <1>1, <1>4, <1>5, <1>6, <1>7, SessionsUntouched DEF IInv

(* The start of an asynchronous operation. *)
LEMMA RunAsyncStep ==
  ASSUME IInv, NEW t \in Clients, NEW s \in Slots, NEW deterministic \in BOOLEAN,
         RunAsync(t, s, deterministic)
  PROVE  IInv'
<1> USE SessionsAssumption
<1>0. Types /\ t \in Threads
  BY DEF IInv, Threads
<1>1. /\ status[t] = "ready" /\ status' = [status EXCEPT ![t] = "hle"]
      /\ callback' = [callback EXCEPT ![t] = "async"] /\ counter' = counter + 1
      /\ ctx' = [ctx EXCEPT ![t] = s]
      /\ worker' = [worker EXCEPT ![t] = ~deterministic]
      /\ timer' = [timer EXCEPT ![t] = deterministic]
      /\ ses' = ses /\ backlog' = backlog /\ active' = active /\ waits' = waits
      /\ tsq' = tsq /\ req' = req
  BY DEF RunAsync
<1>2. \A u \in Threads : u # t => /\ status'[u] = status[u] /\ timer'[u] = timer[u]
                                  /\ worker'[u] = worker[u] /\ callback'[u] = callback[u]
                                  /\ ctx'[u] = ctx[u]
  BY <1>0, <1>1 DEF Types
<1>3. /\ status'[t] = "hle" /\ callback'[t] = "async"
      /\ worker'[t] = ~deterministic /\ timer'[t] = deterministic
  BY <1>0, <1>1 DEF Types
<1>4. Types'
  BY <1>0, <1>1 DEF Types
<1>5. \A u \in Threads : ThreadState(u)'
  <2>1. ~(worker'[t] /\ timer'[t])
    BY <1>3
  <2>2. ThreadState(t)'
    BY <1>0, <1>1, <1>3, <2>1 DEF IInv, ThreadState
  <2> QED BY <1>1, <1>2, <2>2 DEF IInv, ThreadState
<1>6. \A u \in Threads : RequestState(u)'
  BY <1>0, <1>1, <1>2, <1>3 DEF IInv, RequestState
<1>7. AsyncCounted'
  <2>1. t \notin InAsync
    BY <1>0, <1>1 DEF InAsync, IInv, ThreadState
  <2>2. InAsync' = InAsync \cup {t}
    BY <1>0, <1>2, <1>3 DEF InAsync
  <2> QED BY <1>0, <1>1, <2>1, <2>2, AsyncStep DEF IInv
<1>8. \A r \in Slots : Referenced(r, ses[r], backlog, waits, ctx)
                        => Referenced(r, ses[r], backlog, waits, ctx')
  <2>1. ctx[t] = None
    BY <1>0, <1>1 DEF IInv, ThreadState
  <2> QED BY <1>2, <2>1 DEF Referenced
<1> QED BY <1>1, <1>4, <1>5, <1>6, <1>7, <1>8, SessionsUntouched DEF IInv

(* The host thread that ends a section, and the next Advance. *)
LEMMA HostStep ==
  ASSUME IInv, NEW t \in Threads, SectionEnds(t) \/ MoveEvents(t)
  PROVE  IInv'
<1> USE SessionsAssumption
<1>0. Types
  BY DEF IInv
<1>1. /\ ses' = ses /\ backlog' = backlog /\ active' = active /\ waits' = waits
      /\ status' = status /\ callback' = callback /\ counter' = counter /\ req' = req
      /\ ctx' = ctx
  BY DEF SectionEnds, MoveEvents
<1>2. \/ worker[t] /\ worker' = [worker EXCEPT ![t] = FALSE]
         /\ tsq' = [tsq EXCEPT ![t] = TRUE] /\ timer' = timer
      \/ tsq[t] /\ tsq' = [tsq EXCEPT ![t] = FALSE]
         /\ timer' = [timer EXCEPT ![t] = TRUE] /\ worker' = worker
  BY DEF SectionEnds, MoveEvents, WakeAfterDelay
<1>3. Types'
  BY <1>0, <1>1, <1>2 DEF Types
<1>4. \A u \in Threads : u # t => worker'[u] = worker[u] /\ tsq'[u] = tsq[u] /\ timer'[u] = timer[u]
  BY <1>0, <1>2 DEF Types
<1>5. \/ worker[t] /\ ~worker'[t] /\ tsq'[t] /\ timer'[t] = timer[t]
      \/ tsq[t] /\ ~tsq'[t] /\ timer'[t] /\ worker'[t] = worker[t]
  BY <1>0, <1>2 DEF Types
<1>6. \A u \in Threads : ThreadState(u)'
  BY <1>1, <1>4, <1>5 DEF IInv, ThreadState
<1>7. \A u \in Threads : RequestState(u)'
  BY <1>1 DEF IInv, RequestState
<1>8. AsyncCounted'
  BY <1>1 DEF IInv, AsyncCounted
<1> QED BY <1>1, <1>3, <1>6, <1>7, <1>8, SessionsUntouched DEF IInv

(* The wakeup of a thread, alive or stopped. *)
LEMMA WakeupStep ==
  ASSUME IInv, NEW t \in Threads, ThreadWakeupCallback(t)
  PROVE  IInv'
<1> USE SessionsAssumption
<1> DEFINE asked == [req EXCEPT ![t] = None]
<1>0. Types
  BY DEF IInv
<1>1. /\ timer[t] /\ timer' = [timer EXCEPT ![t] = FALSE]
      /\ counter' = IF status[t] = "hle" /\ callback[t] = "async" THEN counter - 1 ELSE counter
      /\ Finish(ses, active, backlog, waits, asked) /\ Resume({t})
      /\ ctx' = [ctx EXCEPT ![t] = IF status[t] = "dead" THEN @ ELSE None]
      /\ worker' = worker /\ tsq' = tsq
  BY DEF ThreadWakeupCallback, host
<1>1a. /\ asked \in [Threads -> Slots \cup {None, "hle"}] /\ asked[t] = None
       /\ \A u \in Threads : u # t => asked[u] = req[u]
  BY <1>0 DEF Types
<1>1b. None # "hle" /\ \A s \in Slots : s # "hle" /\ s # None
  BY DEF Ports
<1> HIDE DEF asked
<1>1c. FinishPre(ses, backlog, waits, asked)
  BY <1>0, <1>1a DEF IInv, Types, FinishPre
<1>1d. FinishPost(ses, backlog, waits, asked)
  BY <1>1, <1>1c, FinishSame, FinishKeeps
<1>2. \A u \in Threads : u # t => /\ status'[u] = status[u] /\ timer'[u] = timer[u]
                                  /\ callback'[u] = callback[u] /\ ctx'[u] = ctx[u]
  BY <1>0, <1>1 DEF Types, Resume
<1>3. /\ ~timer'[t] /\ req'[t] = None
      /\ ctx'[t] = (IF status[t] = "dead" THEN ctx[t] ELSE None)
      /\ status[t] # "dead" => status'[t] = "ready" /\ callback'[t] = "none"
      /\ status[t] = "dead" => status'[t] = "dead" /\ callback'[t] = callback[t]
  BY <1>0, <1>1, <1>1a, <1>1b, <1>1d DEF Types, Resume, FinishPost
<1>4. status[t] \in {"ipc", "hle", "dead"}
  BY <1>1 DEF IInv, ThreadState
<1>5. Types'
  <2>1. status' \in [Threads -> {"ready", "ipc", "sync", "hle", "dead"}]
        /\ callback' \in [Threads -> {"none", "ipc", "async"}]
    BY <1>0, <1>1 DEF Types, Resume
  <2>2. timer' \in [Threads -> BOOLEAN] /\ ctx' \in [Threads -> Slots \cup {None}]
        /\ counter' \in Int
    BY <1>0, <1>1 DEF Types
  <2> QED BY <1>0, <1>1, <1>1d, <2>1, <2>2 DEF Types, FinishPost
<1>6. \A u \in Threads : ThreadState(u)'
  <2>0. \A u \in Threads : waits'[u] = waits[u]
    BY <1>1d DEF FinishPost
  <2>1. ThreadState(t)'
    BY <1>1, <1>3, <1>4, <2>0 DEF IInv, ThreadState
  <2>2. ASSUME NEW u \in Threads, u # t PROVE ThreadState(u)'
    <3>1. (req[u] \notin Slots => req'[u] = req[u]) /\ req'[u] \in {req[u], None}
      BY <1>1a, <1>1d, <2>2 DEF FinishPost
    <3> QED BY <1>1, <1>1b, <1>2, <2>0, <2>2, <3>1 DEF IInv, ThreadState
  <2> QED BY <2>1, <2>2
<1>7. \A u \in Threads : RequestState(u)'
  <2>1. status[t] = "ipc" => \A s \in Slots : ~In(ses[s], t)
    <3>1. status[t] = "ipc" => req[t] = "hle"
      BY <1>1 DEF IInv, ThreadState
    <3>2. \A s \in Slots : s # "hle"
      BY DEF Ports
    <3> QED BY <3>1, <3>2 DEF IInv, RequestState
  <2>2. RequestState(t)'
    BY <1>1, <1>1d, <1>3, <1>4, <2>1 DEF IInv, RequestState, FinishPost
  <2>3. ASSUME NEW u \in Threads, u # t PROVE RequestState(u)'
    BY <1>1a, <1>1d, <1>2, <2>3 DEF IInv, RequestState, FinishPost
  <2> QED BY <2>2, <2>3
<1>8. AsyncCounted'
  <2>1. CASE status[t] = "hle"
    <3>1. t \in InAsync /\ callback[t] = "async"
      BY <2>1 DEF IInv, ThreadState, InAsync
    <3>2. InAsync' = InAsync \ {t}
      BY <1>2, <1>3, <2>1 DEF InAsync
    <3> QED BY <1>1, <2>1, <3>1, <3>2, AsyncStep DEF IInv
  <2>2. CASE status[t] # "hle"
    <3>1. t \notin InAsync
      BY <2>2 DEF IInv, ThreadState, InAsync
    <3>2. InAsync' = InAsync
      BY <1>2, <1>3, <3>1 DEF InAsync
    <3> QED BY <1>1, <2>2, <3>2, AsyncStep DEF IInv
  <2> QED BY <2>1, <2>2
<1> QED BY <1>1d, <1>5, <1>6, <1>7, <1>8 DEF IInv, FinishPost

(* A new thread. *)
LEMMA CreateThreadStep ==
  ASSUME IInv, NEW t \in Threads, CreateThread(t)
  PROVE  IInv'
<1> USE SessionsAssumption
<1>0. Types
  BY DEF IInv
<1>1. /\ status[t] = "dead" /\ ~worker[t] /\ ~tsq[t] /\ ~timer[t]
      /\ \A s \in Slots : ses[s].handling # t /\ t \notin ToSet(ses[s].pending)
      /\ status' = [status EXCEPT ![t] = "ready"] /\ callback' = [callback EXCEPT ![t] = "none"]
      /\ ses' = ses /\ backlog' = backlog /\ active' = active /\ waits' = waits /\ req' = req
      /\ counter' = counter /\ worker' = worker /\ tsq' = tsq /\ timer' = timer
      /\ ctx' = ctx /\ ctx[t] = None
  BY DEF CreateThread, ThreadKept, async
<1>2. \A u \in Threads : u # t => status'[u] = status[u] /\ callback'[u] = callback[u]
  BY <1>0, <1>1 DEF Types
<1>3. status'[t] = "ready" /\ callback'[t] = "none"
  BY <1>0, <1>1 DEF Types
<1>4. Types'
  BY <1>0, <1>1 DEF Types
<1>5. \A u \in Threads : ThreadState(u)'
  <2>1. ThreadState(t)'
    BY <1>1, <1>3 DEF IInv, ThreadState
  <2> QED BY <1>1, <1>2, <2>1 DEF IInv, ThreadState
<1>6. \A u \in Threads : RequestState(u)'
  <2>1. \A s \in Slots : ~In(ses[s], t)
    BY <1>1 DEF In, ToSet
  <2> QED BY <1>1, <1>2, <1>3, <2>1 DEF IInv, RequestState
<1>7. AsyncCounted'
  <2>1. InAsync' = InAsync
    BY <1>1, <1>2, <1>3 DEF InAsync
  <2> QED BY <1>1, <2>1, AsyncStep DEF IInv
<1> QED BY <1>1, <1>4, <1>5, <1>6, <1>7, SessionsUntouched DEF IInv

(* Steps that change one session, but neither its ends, its port nor the   *)
(* requests in it, keep what is said about threads.                        *)
LEMMA SessionChanged ==
  ASSUME IInv, NEW s \in Slots, NEW x \in SessionRecord, ses' = [ses EXCEPT ![s] = x],
         x.server = ses[s].server, x.port = ses[s].port
  PROVE  /\ ses' \in [Slots -> SessionRecord]
         /\ \A r \in Slots : ses'[r] = IF r = s THEN x ELSE ses[r]
         /\ \A p \in Ports : Open(p)' = Open(p)
<1>1. Types
  BY DEF IInv
<1>2. \A r \in Slots : ses'[r] = IF r = s THEN x ELSE ses[r]
  BY <1>1 DEF Types
<1>3. ses' \in [Slots -> SessionRecord]
  BY <1>1 DEF Types
<1>4. \A p \in Ports : Open(p)' = Open(p)
  BY <1>2 DEF Open, OpenIn
<1> QED BY <1>2, <1>3, <1>4

(* Steps that add references, or replace one by a handle. *)
LEMMA OwnedKept ==
  ASSUME IInv, ctx' = ctx, \A u \in Threads : waits[u] \subseteq waits'[u],
         \A s \in Slots : \/ ses'[s].handle
                         \/ /\ ses'[s].server = ses[s].server /\ ses'[s].handle = ses[s].handle
                            /\ ses'[s].hle = ses[s].hle
                            /\ s \in ToSet(backlog) => s \in ToSet(backlog')
  PROVE  Owned(ses', backlog', waits', ctx')
<1>1. \A s \in Slots : Waiters(s, waits) \subseteq Waiters(s, waits')
  BY DEF Waiters
<1> QED BY <1>1 DEF IInv, Owned, Referenced

(* A session without a port. *)
LEMMA CreateSessionStep ==
  ASSUME IInv, NEW t \in Servers, NEW s \in Slots, CreateSession(t, s)
  PROVE  IInv'
<1> USE SessionsAssumption
<1>0. Types
  BY DEF IInv
<1>1. /\ ses[s] = Unused /\ ses' = [ses EXCEPT ![s] = Pair("none")]
      /\ backlog' = backlog /\ active' = active /\ status' = status /\ waits' = waits
      /\ callback' = callback /\ req' = req /\ ctx' = ctx
      /\ counter' = counter /\ worker' = worker /\ tsq' = tsq /\ timer' = timer
  BY DEF CreateSession, async
<1>2. /\ Pair("none") \in SessionRecord /\ Whole(Pair("none"))
      /\ Pair("none").server /\ Pair("none").port = "none"
      /\ Pair("none").pending = <<>> /\ Pair("none").handling = None
      /\ Pair("none").handle
  <2>1. Pair("none").handle
    BY DEF Pair, Unused
  <2> QED BY <2>1, PairRecord
<1>3. ~Unused.server /\ Unused.pending = <<>> /\ Unused.handling = None
  BY DEF Unused
<1>4. \A r \in Slots : ses'[r] = IF r = s THEN Pair("none") ELSE ses[r]
  BY <1>0, <1>1 DEF Types
<1>5. Types'
  BY <1>0, <1>1, <1>2 DEF Types
<1>6. Ends(ses', backlog')
  <2>1. \A i \in DOMAIN backlog : backlog[i] \in Slots
    BY <1>0 DEF Types
  <2> QED BY <1>1, <1>2, <1>4, <2>1 DEF IInv, Ends
<1>7. \A u \in Threads : ThreadState(u)'
  BY <1>1 DEF IInv, ThreadState
<1>8. \A u \in Threads : RequestState(u)'
  <2>1. \A r \in Slots, u \in Threads : /\ In(ses'[r], u) <=> In(ses[r], u)
                                        /\ Once(ses[r], u) => Once(ses'[r], u)
    BY <1>1, <1>2, <1>3, <1>4 DEF In, Once
  <2> QED BY <1>1, <2>1 DEF IInv, RequestState
<1>9. Watched(ses', waits')
  <2>1. Waiters(s, waits) = {}
    BY <1>1, <1>3 DEF IInv, Watched
  <2> QED BY <1>1, <1>4, <2>1 DEF IInv, Watched
<1>10. PlacesCounted' /\ \A p \in Ports : active'[p] <= MaxSessions
  <2>1. \A p \in Ports : Open(p)' = Open(p)
    BY <1>1, <1>2, <1>3, <1>4 DEF Open, OpenIn, Ports
  <2> QED BY <1>1, <2>1 DEF IInv, PlacesCounted, Open, OpenIn
<1>11. AsyncCounted'
  BY <1>1 DEF IInv, AsyncCounted
<1>12. Owned(ses', backlog', waits', ctx')
  BY <1>1, <1>2, <1>4, OwnedKept
<1> QED BY <1>5, <1>6, <1>7, <1>8, <1>9, <1>10, <1>11, <1>12 DEF IInv

(* The server takes a session from the backlog. *)
LEMMA AcceptSessionStep ==
  ASSUME IInv, NEW t \in Servers, AcceptSession(t)
  PROVE  IInv'
<1> USE SessionsAssumption
<1> DEFINE s == Last(backlog)
           x == [ses[s] EXCEPT !.handle = TRUE]
<1>0. Types
  BY DEF IInv
<1>1. /\ backlog # <<>> /\ ses' = [ses EXCEPT ![Last(backlog)].handle = TRUE]
      /\ backlog' = Front(backlog)
      /\ active' = active /\ status' = status /\ waits' = waits
      /\ callback' = callback /\ req' = req /\ ctx' = ctx
      /\ counter' = counter /\ worker' = worker /\ tsq' = tsq /\ timer' = timer
  BY DEF AcceptSession, async
<1>2. /\ Len(backlog) \in Nat /\ Len(backlog) >= 1 /\ DOMAIN backlog = 1 .. Len(backlog)
      /\ s = backlog[Len(backlog)] /\ s \in Slots /\ ses[s].server
  <2>1. backlog \in Seq(Slots) /\ backlog # <<>>
    BY <1>0, <1>1 DEF Types
  <2>2. /\ Len(backlog) \in Nat /\ Len(backlog) >= 1 /\ DOMAIN backlog = 1 .. Len(backlog)
        /\ s = backlog[Len(backlog)] /\ s \in Slots
    BY <2>1 DEF Last
  <2> QED BY <2>2 DEF IInv, Ends
<1>3. /\ backlog' \in Seq(Slots) /\ DOMAIN backlog' = 1 .. Len(backlog) - 1
      /\ \A i \in DOMAIN backlog' : backlog'[i] = backlog[i] /\ backlog[i] \in Slots
                                    /\ i \in DOMAIN backlog
  <2>1. backlog \in Seq(Slots)
    BY <1>0 DEF Types
  <2> QED BY <1>1, <1>2, <2>1 DEF Front
<1>4. /\ x \in SessionRecord /\ x.handle /\ x.server = ses[s].server /\ x.port = ses[s].port
      /\ x.client = ses[s].client /\ x.pending = ses[s].pending
      /\ x.handling = ses[s].handling /\ x.freed = ses[s].freed /\ x.hle = ses[s].hle
  <2>1. ses[s] \in SessionRecord
    BY <1>0, <1>2 DEF Types
  <2> HIDE DEF s
  <2> QED BY <2>1 DEF SessionRecord
<1>5. ses' = [ses EXCEPT ![s] = x]
  BY <1>1
<1> HIDE DEF x, s
<1>6. /\ ses' \in [Slots -> SessionRecord]
      /\ \A r \in Slots : ses'[r] = IF r = s THEN x ELSE ses[r]
      /\ \A p \in Ports : Open(p)' = Open(p)
  BY <1>2, <1>4, <1>5, SessionChanged
<1>7. Types'
  BY <1>0, <1>1, <1>3, <1>6 DEF Types
<1>8. Ends(ses', backlog')
  <2>1. \A r \in Slots : Whole(ses'[r])
    BY <1>2, <1>4, <1>6 DEF IInv, Ends, Whole
  <2>2. \A i \in DOMAIN backlog : ses[backlog[i]].server
    BY DEF IInv, Ends
  <2>3. \A i \in DOMAIN backlog' : ses'[backlog'[i]].server
    BY <1>3, <1>4, <1>6, <2>2
  <2> QED BY <2>1, <2>3 DEF Ends
<1>9. \A u \in Threads : ThreadState(u)'
  BY <1>1 DEF IInv, ThreadState
<1>10. \A u \in Threads : RequestState(u)'
  <2>1. \A r \in Slots, u \in Threads : /\ In(ses'[r], u) <=> In(ses[r], u)
                                        /\ Once(ses[r], u) => Once(ses'[r], u)
    BY <1>4, <1>6 DEF In, Once
  <2> QED BY <1>1, <2>1 DEF IInv, RequestState
<1>11. Watched(ses', waits')
  BY <1>1, <1>4, <1>6 DEF IInv, Watched, ShouldWait
<1>12. PlacesCounted' /\ \A p \in Ports : active'[p] <= MaxSessions
  BY <1>1, <1>6 DEF IInv, PlacesCounted, Open, OpenIn
<1>13. AsyncCounted'
  BY <1>1 DEF IInv, AsyncCounted
<1>14. Owned(ses', backlog', waits', ctx')
  <2>1. \A r \in ToSet(backlog) : r = s \/ r \in ToSet(backlog')
    <3> SUFFICES ASSUME NEW i \in DOMAIN backlog, backlog[i] # s PROVE backlog[i] \in ToSet(backlog')
      BY DEF ToSet
    <3>1. i \in DOMAIN backlog'
      BY <1>2, <1>3
    <3> QED BY <1>3, <3>1 DEF ToSet
  <2> QED BY <1>1, <1>4, <1>6, <2>1, OwnedKept
<1> QED BY <1>7, <1>8, <1>9, <1>10, <1>11, <1>12, <1>13, <1>14 DEF IInv

(* A reply to nobody changes nothing but an empty field. *)
LEMMA ReplyFailsStep ==
  ASSUME IInv, NEW t \in Servers, NEW s \in Slots, ReplyFails(t, s)
  PROVE  IInv'
<1> USE SessionsAssumption
<1>0. Types
  BY DEF IInv
<1>1. /\ ses[s].handling = None \/ ~ses[s].client
      /\ ses' = [ses EXCEPT ![s].handling = None]
      /\ backlog' = backlog /\ active' = active /\ status' = status /\ waits' = waits
      /\ callback' = callback /\ req' = req /\ ctx' = ctx
      /\ counter' = counter /\ worker' = worker /\ tsq' = tsq /\ timer' = timer
  BY DEF ReplyFails, async
<1>2. ses[s].handling = None
  BY <1>1 DEF IInv, Ends, Whole
<1>3. ses' = ses
  BY <1>0, <1>1, <1>2 DEF Types, SessionRecord
<1>4. Types'
  BY <1>0, <1>1, <1>3 DEF Types
<1>5. \A u \in Threads : ThreadState(u)' /\ RequestState(u)'
  BY <1>1, <1>3 DEF IInv, ThreadState, RequestState
<1>6. AsyncCounted'
  BY <1>1 DEF IInv, AsyncCounted
<1> QED BY <1>1, <1>3, <1>4, <1>5, <1>6, SessionsUntouched DEF IInv

-----------------------------------------------------------------------------
(* A request to a server thread. *)
LEMMA SendSyncRequestStep ==
  ASSUME IInv, NEW t \in Clients, NEW s \in Slots, SendSyncRequest(t, s)
  PROVE  IInv'
<1> USE SessionsAssumption
<1> DEFINE x == [ses[s] EXCEPT !.pending = Append(@, t)]
           blocked == [status EXCEPT ![t] = "ipc"]
           asked == [req EXCEPT ![t] = s]
<1>0. Types /\ t \in Threads /\ ses[s] \in SessionRecord
  BY DEF IInv, Threads, Types
<1>1. /\ status[t] = "ready" /\ ses[s].client /\ ses[s].server
      /\ counter' = counter /\ worker' = worker /\ tsq' = tsq /\ timer' = timer
      /\ ctx' = ctx
  BY DEF SendSyncRequest, async
<1>2. \/ /\ ShouldWait(x) \/ Waiters(s, waits) = {}
         /\ ses' = [ses EXCEPT ![s] = x] /\ status' = blocked /\ req' = asked
         /\ backlog' = backlog /\ active' = active /\ waits' = waits /\ callback' = callback
      \/ /\ ~ShouldWait(x)
         /\ \E w \in Waiters(s, waits) :
              /\ Finish([ses EXCEPT ![s] = Acquire(x)], active, backlog, Leave(waits, {w}), asked)
              /\ status' = [blocked EXCEPT ![w] = "ready"]
              /\ callback' = [callback EXCEPT ![w] = "none"]
  BY DEF SendSyncRequest
<1>3. /\ x \in SessionRecord
      /\ \A u \in Threads : /\ In(x, u) <=> In(ses[s], u) \/ u = t
                            /\ Once(ses[s], u) /\ (u = t => ~In(ses[s], u)) => Once(x, u)
  BY <1>0, QueuedIn
<1>4. /\ x.client = ses[s].client /\ x.server = ses[s].server /\ x.port = ses[s].port
      /\ x.handle = ses[s].handle /\ x.hle = ses[s].hle /\ x.handling = ses[s].handling
      /\ x.freed = ses[s].freed /\ x.pending # <<>>
  BY <1>0 DEF SessionRecord
<1>5. \A r \in Slots : ~In(ses[r], t) /\ Once(ses[r], t)
  BY <1>0, <1>1 DEF IInv, RequestState, In, Once
<1>6. asked \in [Threads -> Slots \cup {None, "hle"}] /\ asked[t] = s
      /\ \A u \in Threads : u # t => asked[u] = req[u]
  BY <1>0 DEF Types
<1>7. blocked \in [Threads -> {"ready", "ipc", "sync", "hle", "dead"}] /\ blocked[t] = "ipc"
      /\ \A u \in Threads : u # t => blocked[u] = status[u]
  BY <1>0 DEF Types
<1>8. None # "hle" /\ \A r \in Slots : r # "hle" /\ r # None
  BY DEF Ports
<1> HIDE DEF x, blocked, asked
\* The session with the request in it, taken or not.
<1>9. ASSUME NEW y \in SessionRecord,
             y.client = x.client, y.server = x.server, y.handle = x.handle, y.hle = x.hle,
             \A u \in Threads : (In(y, u) <=> In(x, u)) /\ (Once(x, u) => Once(y, u)),
             NEW new, new = [ses EXCEPT ![s] = y]
      PROVE  /\ new \in [Slots -> SessionRecord]
             /\ \A r \in Slots : new[r] = IF r = s THEN y ELSE ses[r]
             /\ Ends(new, backlog)
             /\ \A u \in Threads : blocked[u] \in {"ready", "sync", "hle"} =>
                                     \A r \in Slots : ~In(new[r], u)
             /\ \A u \in Threads : blocked[u] = "ipc" =>
                                     \A r \in Slots : (In(new[r], u) <=> asked[u] = r) /\ Once(new[r], u)
  <2>1. new \in [Slots -> SessionRecord] /\ \A r \in Slots : new[r] = IF r = s THEN y ELSE ses[r]
    BY <1>0, <1>9 DEF Types
  <2>2. Ends(new, backlog)
    <3>1. \A i \in DOMAIN backlog : backlog[i] \in Slots /\ ses[backlog[i]].server
      BY <1>0 DEF Types, IInv, Ends
    <3>2. Whole(y)
      BY <1>1, <1>4, <1>9 DEF Whole
    <3> QED BY <1>1, <1>4, <1>9, <2>1, <3>1, <3>2 DEF IInv, Ends
  <2>3. \A u \in Threads : blocked[u] \in {"ready", "sync", "hle"} => \A r \in Slots : ~In(new[r], u)
    BY <1>3, <1>7, <1>9, <2>1 DEF IInv, RequestState
  <2>4. ASSUME NEW u \in Threads, blocked[u] = "ipc", NEW r \in Slots
        PROVE  (In(new[r], u) <=> asked[u] = r) /\ Once(new[r], u)
    <3>1. CASE u = t
      BY <1>3, <1>5, <1>6, <1>9, <2>1, <3>1
    <3>2. CASE u # t
      <4>1. (In(ses[r], u) <=> req[u] = r) /\ Once(ses[r], u)
        BY <1>7, <2>4, <3>2 DEF IInv, RequestState
      <4>2. asked[u] = req[u]
        BY <1>6, <3>2
      <4>3. CASE r = s
        BY <1>3, <1>9, <2>1, <3>2, <4>1, <4>2, <4>3
      <4>4. CASE r # s
        BY <2>1, <4>1, <4>2, <4>4
      <4> QED BY <4>3, <4>4
    <3> QED BY <3>1, <3>2
  <2> QED BY <2>1, <2>2, <2>3, <2>4
\* The request waits in the list.
<1>10. CASE /\ ShouldWait(x) \/ Waiters(s, waits) = {}
            /\ ses' = [ses EXCEPT ![s] = x] /\ status' = blocked /\ req' = asked
            /\ backlog' = backlog /\ active' = active /\ waits' = waits /\ callback' = callback
  <2>0. \A u \in Threads : (In(x, u) <=> In(x, u)) /\ (Once(x, u) => Once(x, u))
    OBVIOUS
  <2> DEFINE new == [ses EXCEPT ![s] = x]
  <2>1a. /\ new \in [Slots -> SessionRecord]
         /\ \A r \in Slots : new[r] = IF r = s THEN x ELSE ses[r]
         /\ Ends(new, backlog)
         /\ \A u \in Threads : blocked[u] \in {"ready", "sync", "hle"} =>
                                 \A r \in Slots : ~In(new[r], u)
         /\ \A u \in Threads : blocked[u] = "ipc" =>
                                 \A r \in Slots : (In(new[r], u) <=> asked[u] = r) /\ Once(new[r], u)
    BY <1>3, <1>9, <2>0
  <2>1. /\ ses' \in [Slots -> SessionRecord]
        /\ \A r \in Slots : ses'[r] = IF r = s THEN x ELSE ses[r]
        /\ Ends(ses', backlog)
        /\ \A u \in Threads : blocked[u] \in {"ready", "sync", "hle"} =>
                                \A r \in Slots : ~In(ses'[r], u)
        /\ \A u \in Threads : blocked[u] = "ipc" =>
                                \A r \in Slots : (In(ses'[r], u) <=> asked[u] = r) /\ Once(ses'[r], u)
    <3>1. ses' = new
      BY <1>10
    <3> HIDE DEF new
    <3> QED BY <2>1a, <3>1
  <2>2. Types'
    BY <1>0, <1>1, <1>6, <1>7, <1>10, <2>1 DEF Types
  <2>3. \A u \in Threads : ThreadState(u)'
    <3>1. ThreadState(t)'
      BY <1>0, <1>1, <1>6, <1>7, <1>8, <1>10 DEF IInv, ThreadState
    <3> QED BY <1>1, <1>6, <1>7, <1>10, <3>1 DEF IInv, ThreadState
  <2>4. \A u \in Threads : RequestState(u)'
    BY <1>10, <2>1 DEF RequestState
  <2>5. Watched(ses', waits')
    BY <1>1, <1>4, <1>10, <2>1 DEF IInv, Watched
  <2>6. PlacesCounted' /\ \A p \in Ports : active'[p] <= MaxSessions
    <3>1. \A p \in Ports : Open(p)' = Open(p)
      BY <1>4, <2>1 DEF Open, OpenIn
    <3> QED BY <1>10, <3>1 DEF IInv, PlacesCounted, Open, OpenIn
  <2>7. AsyncCounted'
    <3>1. InAsync' = InAsync
      BY <1>0, <1>1, <1>7, <1>10 DEF InAsync, IInv, ThreadState
    <3> QED BY <1>0, <1>1, <3>1, AsyncStep DEF IInv
  <2>8. Owned(ses', backlog', waits', ctx')
    BY <1>1, <1>4, <1>10, <2>1, OwnedKept
  <2> QED BY <1>10, <2>1, <2>2, <2>3, <2>4, <2>5, <2>6, <2>7, <2>8 DEF IInv
\* A thread that waits takes it at once.
<1>11. CASE /\ ~ShouldWait(x)
            /\ \E w \in Waiters(s, waits) :
                 /\ Finish([ses EXCEPT ![s] = Acquire(x)], active, backlog, Leave(waits, {w}), asked)
                 /\ status' = [blocked EXCEPT ![w] = "ready"]
                 /\ callback' = [callback EXCEPT ![w] = "none"]
  <2>1. PICK w \in Waiters(s, waits) :
               /\ Finish([ses EXCEPT ![s] = Acquire(x)], active, backlog, Leave(waits, {w}), asked)
               /\ status' = [blocked EXCEPT ![w] = "ready"]
               /\ callback' = [callback EXCEPT ![w] = "none"]
    BY <1>11
  <2>2. w \in Threads /\ status[w] = "sync" /\ callback[w] = "ipc" /\ w # t
    BY <1>1 DEF IInv, ThreadState, Waiters
  <2>3. x.handling = None
    BY <1>1, <1>4, <1>11 DEF ShouldWait
  <2>4. /\ Acquire(x) \in SessionRecord
        /\ Acquire(x).client = x.client /\ Acquire(x).server = x.server
        /\ Acquire(x).port = x.port /\ Acquire(x).handle = x.handle /\ Acquire(x).hle = x.hle
        /\ Acquire(x).handling \in Clients
        /\ \A u \in Threads : (In(Acquire(x), u) <=> In(x, u)) /\ (Once(x, u) => Once(Acquire(x), u))
    BY <1>1, <1>3, <1>4, <2>2, <2>3, AcquireIn
  <2> DEFINE new == [ses EXCEPT ![s] = Acquire(x)]
             leave == Leave(waits, {w})
  <2>5. /\ new \in [Slots -> SessionRecord]
        /\ \A r \in Slots : new[r] = IF r = s THEN Acquire(x) ELSE ses[r]
        /\ Ends(new, backlog)
        /\ \A u \in Threads : blocked[u] \in {"ready", "sync", "hle"} =>
                                \A r \in Slots : ~In(new[r], u)
        /\ \A u \in Threads : blocked[u] = "ipc" =>
                                \A r \in Slots : (In(new[r], u) <=> asked[u] = r) /\ Once(new[r], u)
    BY <1>9, <2>4
  <2>6. leave \in [Threads -> SUBSET (Slots \cup {"lle"})] /\ leave[w] = {}
        /\ \A u \in Threads : u # w => leave[u] = waits[u]
    BY <1>0, <2>2 DEF Types, Leave
  <2>7. Finish(new, active, backlog, leave, asked)
    BY <2>1
  <2> HIDE DEF new, leave
  <2>8. \A r \in Slots : new[r].server = ses[r].server /\ (ses[r].server => new[r].port = ses[r].port)
    BY <1>4, <2>4, <2>5
  <2>9. Watched(new, leave)
    <3>1. \A r \in Slots : Waiters(r, leave) # {} => Waiters(r, waits) # {}
      BY <2>6 DEF Waiters
    <3>2. None \notin Clients
      BY DEF Threads
    <3>3. Acquire(x).server /\ ShouldWait(Acquire(x))
      BY <1>1, <1>4, <2>4, <3>2 DEF ShouldWait
    <3> QED BY <2>5, <3>1, <3>3 DEF IInv, Watched
  <2>10. FinishPre(new, backlog, leave, asked)
    BY <1>0, <1>6, <2>5, <2>6, <2>8, <2>9 DEF FinishPre, Types
  <2>11. FinishPost(new, backlog, leave, asked)
    BY <2>7, <2>10, FinishSame, FinishKeeps
  <2>12. /\ status' \in [Threads -> {"ready", "ipc", "sync", "hle", "dead"}]
         /\ callback' \in [Threads -> {"none", "ipc", "async"}]
         /\ status'[w] = "ready" /\ callback'[w] = "none"
         /\ \A u \in Threads : u # w => status'[u] = blocked[u] /\ callback'[u] = callback[u]
    BY <1>0, <1>7, <2>1, <2>2 DEF Types
  <2>13. Types'
    BY <1>0, <1>1, <2>6, <2>11, <2>12 DEF Types, FinishPost
  <2>14. \A u \in Threads : ThreadState(u)'
    <3>1. ThreadState(w)'
      BY <1>1, <1>6, <2>2, <2>6, <2>11, <2>12 DEF IInv, ThreadState, FinishPost
    <3>2. ThreadState(t)'
      <4>1. req'[t] # "hle"
        BY <1>0, <1>6, <1>8, <2>11 DEF FinishPost
      <4> QED BY <1>0, <1>1, <1>7, <2>2, <2>6, <2>11, <2>12, <4>1 DEF IInv, ThreadState, FinishPost
    <3>3. ASSUME NEW u \in Threads, u # w, u # t PROVE ThreadState(u)'
      <4>1. req[u] \notin Slots => req'[u] = req[u]
        BY <1>6, <2>11, <3>3 DEF FinishPost
      <4>2. req'[u] \in {req[u], None}
        BY <1>6, <2>11, <3>3 DEF FinishPost
      <4> QED BY <1>1, <1>7, <1>8, <2>6, <2>11, <2>12, <3>3, <4>1, <4>2 DEF IInv, ThreadState, FinishPost
    <3> QED BY <3>1, <3>2, <3>3
  <2>15. \A u \in Threads : RequestState(u)'
    <3>1. blocked[w] = "sync"
      BY <1>7, <2>2
    <3> QED BY <2>5, <2>11, <2>12, <3>1 DEF RequestState, FinishPost
  <2>16. AsyncCounted'
    <3>1. InAsync' = InAsync
      BY <1>0, <1>1, <1>7, <2>2, <2>12 DEF InAsync, IInv, ThreadState
    <3> QED BY <1>0, <1>1, <3>1, AsyncStep DEF IInv
  <2> QED BY <2>11, <2>13, <2>14, <2>15, <2>16 DEF IInv, FinishPost
<1> QED BY <1>2, <1>10, <1>11

-----------------------------------------------------------------------------
(* What a step that ends with Finish does to the threads when it wakes the *)
(* threads W and stops the threads D.                                      *)
ThreadsStep(w, asked, W, D) ==
  /\ W \subseteq Threads /\ D \subseteq Threads /\ \A u \in W : status[u] = "sync" /\ u \notin D
  /\ \A u \in Threads : w[u] = IF u \in W \cup D THEN {} ELSE waits[u]
  /\ \A u \in Threads : asked[u] = IF u \in D THEN None ELSE req[u]
  /\ status' = [u \in Threads |-> IF u \in W THEN "ready" ELSE IF u \in D THEN "dead" ELSE status[u]]
  /\ callback' = [u \in Threads |-> IF u \in W THEN "none" ELSE callback[u]]
  /\ timer' = [u \in Threads |-> IF u \in D THEN FALSE ELSE timer[u]]
  /\ worker' = worker /\ tsq' = tsq /\ ctx' = ctx /\ counter' \in Int /\ AsyncCounted'

RequestsKept(new) ==
  \A s \in Slots, u \in Threads :
    \/ (In(new[s], u) <=> In(ses[s], u)) /\ (Once(ses[s], u) => Once(new[s], u))
    \/ ~In(new[s], u) /\ ~(new[s].client /\ new[s].server)

LEMMA FinishStep ==
  ASSUME IInv, NEW new, NEW count, NEW log, NEW w, NEW asked, NEW W, NEW D,
         FinishGiven(new, count, log, w, asked), Finish(new, count, log, w, asked),
         ThreadsStep(w, asked, W, D), RequestsKept(new)
  PROVE  IInv'
<1> USE SessionsAssumption
<1>0. Types
  BY DEF IInv, Types
<1>3. FinishPost(new, log, w, asked)
  BY FinishKeeps
<1>4. None # "hle" /\ \A s \in Slots : s # "hle" /\ s # None
  BY DEF Ports
<1>5. Types'
  <2>1. status' \in [Threads -> {"ready", "ipc", "sync", "hle", "dead"}]
    BY <1>0 DEF Types, ThreadsStep
  <2>2. callback' \in [Threads -> {"none", "ipc", "async"}]
    BY <1>0 DEF Types, ThreadsStep
  <2>3. /\ timer' \in [Threads -> BOOLEAN] /\ worker' \in [Threads -> BOOLEAN]
        /\ tsq' \in [Threads -> BOOLEAN] /\ ctx' \in [Threads -> Slots \cup {None}]
    BY <1>0 DEF Types, ThreadsStep
  <2>4. backlog' \in Seq(Slots) /\ waits' \in [Threads -> SUBSET (Slots \cup {"lle"})] /\ counter' \in Int
    BY <1>3 DEF FinishGiven, FinishPost, ThreadsStep
  <2> QED BY <1>3, <2>1, <2>2, <2>3, <2>4 DEF Types, FinishPost
<1>6. ASSUME NEW u \in Threads PROVE ThreadState(u)'
  <2>1. ThreadState(u)
    BY DEF IInv
  <2>2. /\ asked[u] \notin Slots => req'[u] = asked[u]
        /\ req'[u] \in {asked[u], None} /\ waits'[u] = w[u]
    BY <1>3 DEF FinishPost
  <2>3. worker'[u] = worker[u] /\ tsq'[u] = tsq[u] /\ ctx'[u] = ctx[u]
    BY DEF ThreadsStep
  <2>4. CASE u \in W
    <3>1. /\ w[u] = {} /\ status'[u] = "ready" /\ callback'[u] = "none" /\ timer'[u] = timer[u]
          /\ asked[u] = req[u] /\ status[u] = "sync"
      BY <2>4 DEF ThreadsStep
    <3> QED BY <2>1, <2>2, <2>3, <3>1 DEF ThreadState
  <2>5. CASE u \in D
    <3>1. /\ w[u] = {} /\ status'[u] = "dead" /\ timer'[u] = FALSE /\ asked[u] = None
      BY <2>5 DEF ThreadsStep
    <3> QED BY <2>1, <2>2, <2>3, <3>1 DEF ThreadState
  <2>6. CASE u \notin W \cup D
    <3>1. /\ w[u] = waits[u] /\ status'[u] = status[u] /\ callback'[u] = callback[u]
          /\ timer'[u] = timer[u] /\ asked[u] = req[u]
      BY <2>6 DEF ThreadsStep
    <3> QED BY <1>4, <2>1, <2>2, <2>3, <3>1 DEF ThreadState
  <2> QED BY <2>4, <2>5, <2>6
<1>7. ASSUME NEW u \in Threads PROVE RequestState(u)'
  <2>0. /\ (\A r \in Slots : ~In(new[r], u)) => \A r \in Slots : ~In(ses'[r], u)
        /\ (\A r \in Slots : (In(new[r], u) <=> asked[u] = r) /\ Once(new[r], u))
             => \A r \in Slots : (In(ses'[r], u) <=> req'[u] = r) /\ Once(ses'[r], u)
    BY <1>3 DEF FinishPost
  <2>1. RequestState(u)
    BY DEF IInv
  <2>2. ASSUME status'[u] \in {"ready", "sync", "hle"}, NEW s \in Slots PROVE ~In(ses'[s], u)
    <3>1. status[u] \in {"ready", "sync", "hle"}
      BY <2>2 DEF ThreadsStep
    <3>2. \A r \in Slots : ~In(new[r], u)
      BY <2>1, <3>1 DEF RequestState, RequestsKept
    <3> QED BY <2>0, <3>2
  <2>3. ASSUME status'[u] = "ipc", NEW s \in Slots
        PROVE  (In(ses'[s], u) <=> req'[u] = s) /\ Once(ses'[s], u)
    <3>1. status[u] = "ipc" /\ u \notin D /\ u \notin W
      BY <2>3 DEF ThreadsStep
    <3>2. asked[u] = req[u]
      BY <3>1 DEF ThreadsStep
    <3>3. \A r \in Slots : (In(ses[r], u) <=> req[u] = r) /\ Once(ses[r], u)
      BY <2>1, <3>1 DEF RequestState
    <3>4. CASE \A r \in Slots : In(new[r], u) <=> In(ses[r], u)
      <4>1. \A r \in Slots : ~In(new[r], u) => Once(new[r], u)
        BY DEF Once, In
      <4>2. \A r \in Slots : Once(new[r], u)
        BY <3>3, <4>1 DEF RequestsKept
      <4> QED BY <2>0, <3>2, <3>3, <3>4, <4>2
    <3>5. CASE ~\A r \in Slots : In(new[r], u) <=> In(ses[r], u)
      <4>1. PICK q \in Slots : ~(In(new[q], u) <=> In(ses[q], u))
        BY <3>5
      <4>2. ~In(new[q], u) /\ In(ses[q], u) /\ ~(new[q].client /\ new[q].server) /\ req[u] = q
        BY <3>3, <4>1 DEF RequestsKept
      <4>3. \A r \in Slots : ~In(new[r], u)
        BY <3>3, <4>2 DEF RequestsKept
      <4>4. \A r \in Slots : ~In(ses'[r], u)
        BY <2>0, <4>3
      <4>5. req'[u] = None
        <5>1. new[q] \in SessionRecord
          BY DEF FinishGiven
        <5>2. ~Destroyed(new[q]).server
          BY <5>1, DestroyedIn
        <5>3. ~(ses'[q].client /\ ses'[q].server)
          BY <4>2, <5>2 DEF Finish
        <5>4. req' = [t \in Threads |->
                        IF asked[t] \in Slots /\ ~(ses'[asked[t]].client /\ ses'[asked[t]].server)
                          THEN None ELSE asked[t]]
          BY DEF Finish
        <5> QED BY <3>2, <4>2, <5>3, <5>4
      <4>6. Once(ses'[s], u)
        BY <4>4 DEF Once, In
      <4> QED BY <1>4, <4>4, <4>5, <4>6
    <3> QED BY <3>4, <3>5
  <2> QED BY <2>2, <2>3 DEF RequestState
<1> QED BY <1>3, <1>5, <1>6, <1>7 DEF IInv, FinishPost, ThreadsStep

(* Connecting to a port. *)
LEMMA ConnectStep ==
  ASSUME IInv, NEW t \in Clients, NEW p \in Ports, NEW s \in Slots, Connect(t, p, s)
  PROVE  IInv'
<1> USE SessionsAssumption
<1> DEFINE W == Waiters(p, waits)
           new == [ses EXCEPT ![s] = Pair(p)]
           count == [active EXCEPT ![p] = @ + 1]
           log == IF p = "lle" THEN Append(backlog, s) ELSE backlog
           w == Leave(waits, W)
<1>0. Types /\ t \in Threads
  BY DEF IInv, Threads
<1>1. /\ ses[s] = Unused /\ active[p] < MaxSessions
      /\ Finish(new, count, log, w, req) /\ Resume(W)
      /\ counter' = counter /\ worker' = worker /\ tsq' = tsq /\ timer' = timer
      /\ ctx' = ctx
  BY DEF Connect, async
<1>2. W \in SUBSET Threads /\ \A u \in W : status[u] = "sync" /\ callback[u] = "ipc"
  BY DEF Waiters, IInv, ThreadState
<1>3. /\ Pair(p) \in SessionRecord /\ Whole(Pair(p))
      /\ Pair(p).client /\ Pair(p).server /\ Pair(p).port = p
      /\ Pair(p).pending = <<>> /\ Pair(p).handling = None
      /\ p # "lle" => Pair(p).handle \/ Pair(p).hle
  BY PairRecord
<1>4. ~Unused.server /\ Unused.pending = <<>> /\ Unused.handling = None
  BY DEF Unused
<1>5. new \in [Slots -> SessionRecord] /\ \A r \in Slots : new[r] = IF r = s THEN Pair(p) ELSE ses[r]
  BY <1>0, <1>3 DEF Types
<1>6. w \in [Threads -> SUBSET (Slots \cup {"lle"})]
      /\ \A u \in Threads : w[u] = IF u \in W \cup {} THEN {} ELSE waits[u]
  BY <1>0 DEF Leave, Types
<1>7. req \in [Threads -> Slots \cup {None, "hle"}]
      /\ \A u \in Threads : req[u] = IF u \in {} THEN None ELSE req[u]
  BY <1>0 DEF Types
<1>8. status' = [u \in Threads |-> IF u \in W THEN "ready" ELSE IF u \in {} THEN "dead" ELSE status[u]]
  BY <1>1, <1>2 DEF Resume
<1>9. callback' = [u \in Threads |-> IF u \in W THEN "none" ELSE callback[u]]
  BY <1>1, <1>2 DEF Resume
<1>10. timer' = [u \in Threads |-> IF u \in {} THEN FALSE ELSE timer[u]]
  BY <1>0, <1>1 DEF Types
<1>11. /\ log \in Seq(Slots)
       /\ \A i \in DOMAIN log : \/ i \in DOMAIN backlog /\ log[i] = backlog[i] /\ log[i] \in Slots
                                \/ log[i] = s
  BY <1>0 DEF Types
<1>12. p = "lle" => s \in ToSet(log)
  <2>1. p = "lle" => Len(backlog) + 1 \in DOMAIN log /\ log[Len(backlog) + 1] = s
    BY <1>0 DEF Types
  <2> HIDE DEF log
  <2> QED BY <2>1 DEF ToSet
<1>13. count \in [Ports -> Int] /\ \A q \in Ports : count[q] = IF q = p THEN active[p] + 1 ELSE active[q]
  BY <1>0 DEF Types
<1> HIDE DEF new, count, log, w, W
<1>14. Ends(new, log)
  <2>1. \A r \in Slots : Whole(new[r])
    BY <1>3, <1>5 DEF IInv, Ends
  <2> QED BY <1>3, <1>5, <1>11, <2>1 DEF IInv, Ends
<1>15. Watched(new, w)
  <2>1. \A r \in Slots : Waiters(r, w) \subseteq Waiters(r, waits)
    BY <1>6 DEF Waiters
  <2>2. Waiters(s, waits) = {}
    BY <1>1, <1>4 DEF IInv, Watched
  <2> QED BY <1>5, <2>1, <2>2 DEF IInv, Watched
<1>16. \A q \in Ports : count[q] = Cardinality(OpenIn(new, q)) /\ count[q] <= MaxSessions
  <2> SUFFICES ASSUME NEW q \in Ports
               PROVE  count[q] = Cardinality(OpenIn(new, q)) /\ count[q] <= MaxSessions
    OBVIOUS
  <2>1. active[q] = Cardinality(Open(q)) /\ IsFiniteSet(Open(q)) /\ active[q] \in Int
    <3>1. Open(q) \in SUBSET Slots
      BY DEF Open, OpenIn
    <3> QED BY <1>0, <3>1, FS_Subset DEF IInv, PlacesCounted, Open, OpenIn, Types
  <2>2. CASE q = p
    <3>1. OpenIn(new, q) = Open(q) \cup {s} /\ s \notin Open(q)
      BY <1>1, <1>3, <1>4, <1>5, <2>2 DEF Open, OpenIn
    <3>2. Cardinality(Open(q) \cup {s}) = Cardinality(Open(q)) + 1
      BY <2>1, <3>1, FS_AddElement
    <3> QED BY <1>1, <1>13, <2>1, <2>2, <3>1, <3>2
  <2>3. CASE q # p
    <3>1. OpenIn(new, q) = Open(q)
      BY <1>1, <1>3, <1>4, <1>5, <2>3 DEF Open, OpenIn
    <3> QED BY <1>13, <2>1, <2>3, <3>1 DEF IInv
  <2> QED BY <2>2, <2>3
<1>17. \A r \in Slots : new[r].server =>
         new[r].port = ses[r].port \/ Referenced(r, new[r], log, w, ctx')
  BY <1>3, <1>5, <1>12 DEF Referenced
<1>18. AsyncCounted' /\ counter' \in Int
  <2>1. InAsync' = InAsync
    BY <1>2, <1>8, <1>9 DEF InAsync
  <2> QED BY <1>0, <1>1, <2>1, AsyncStep DEF IInv, Types
<1>19. ThreadsStep(w, req, W, {})
  BY <1>1, <1>2, <1>6, <1>7, <1>8, <1>9, <1>10, <1>18 DEF ThreadsStep
<1>20. RequestsKept(new)
  <2>1. \A u \in Threads : ~In(Pair(p), u) /\ ~In(ses[s], u) /\ Once(Pair(p), u)
    BY <1>1, <1>3, <1>4 DEF In, Once
  <2> QED BY <1>5, <2>1 DEF RequestsKept
<1>21. FinishGiven(new, count, log, w, req)
  BY <1>5, <1>6, <1>7, <1>11, <1>13, <1>14, <1>15, <1>16, <1>17 DEF FinishGiven
<1> QED BY <1>1, <1>19, <1>20, <1>21, FinishStep

(* The client end is closed. *)
LEMMA CloseClientStep ==
  ASSUME IInv, NEW t \in Clients, NEW s \in Slots, CloseClient(t, s)
  PROVE  IInv'
<1> USE SessionsAssumption
<1> DEFINE W == Waiters(s, waits)
           new == [ses EXCEPT ![s] = Closed(ses[s])]
           w == Leave(waits, W)
<1>0. Types /\ ses[s] \in SessionRecord /\ t \in Threads
  BY DEF IInv, Types, Threads
<1>1. /\ Finish(new, active, backlog, w, req) /\ Resume(W)
      /\ counter' = counter /\ worker' = worker /\ tsq' = tsq /\ timer' = timer
      /\ ctx' = ctx
  BY DEF CloseClient, Notified, async
<1>2. W \in SUBSET Threads /\ \A u \in W : status[u] = "sync" /\ callback[u] = "ipc"
  BY DEF Waiters, IInv, ThreadState
<1>3. /\ Closed(ses[s]) \in SessionRecord /\ Closed(ses[s]).server = ses[s].server
      /\ ses[s].server => Closed(ses[s]).port = ses[s].port
      /\ Whole(Closed(ses[s]))
      /\ ~Closed(ses[s]).client
      /\ \A u \in Threads : ~In(Closed(ses[s]), u)
  <2>1. ~Closed(ses[s]).client
    BY <1>0 DEF Closed, Unused, SessionRecord
  <2> QED BY <1>0, <2>1, ClosedIn DEF IInv, Ends
<1>4. new \in [Slots -> SessionRecord] /\ \A r \in Slots : new[r] = IF r = s THEN Closed(ses[s]) ELSE ses[r]
  BY <1>0, <1>3 DEF Types
<1>5. w \in [Threads -> SUBSET (Slots \cup {"lle"})]
      /\ \A u \in Threads : w[u] = IF u \in W \cup {} THEN {} ELSE waits[u]
  BY <1>0 DEF Leave, Types
<1>6. req \in [Threads -> Slots \cup {None, "hle"}]
      /\ \A u \in Threads : req[u] = IF u \in {} THEN None ELSE req[u]
  BY <1>0 DEF Types
<1>7. status' = [u \in Threads |-> IF u \in W THEN "ready" ELSE IF u \in {} THEN "dead" ELSE status[u]]
  BY <1>1, <1>2 DEF Resume
<1>8. callback' = [u \in Threads |-> IF u \in W THEN "none" ELSE callback[u]]
  BY <1>1, <1>2 DEF Resume
<1>9. timer' = [u \in Threads |-> IF u \in {} THEN FALSE ELSE timer[u]]
  BY <1>0, <1>1 DEF Types
<1>10. Watched(new, w)
  <2>1. Waiters(s, w) = {} /\ \A r \in Slots : Waiters(r, w) \subseteq Waiters(r, waits)
    BY DEF Leave, Waiters
  <2> HIDE DEF new, w
  <2> QED BY <1>4, <2>1 DEF IInv, Watched
<1> HIDE DEF new, w, W
<1>11. Ends(new, backlog)
  <2>1. \A i \in DOMAIN backlog : backlog[i] \in Slots
    BY <1>0 DEF Types
  <2> QED BY <1>3, <1>4, <2>1 DEF IInv, Ends
<1>12. \A r \in Slots : new[r].server = ses[r].server /\ (ses[r].server => new[r].port = ses[r].port)
  BY <1>3, <1>4
<1>13. \A r \in Slots, u \in Threads : \/ (In(new[r], u) <=> In(ses[r], u))
                                          /\ (Once(ses[r], u) => Once(new[r], u))
                                       \/ ~In(new[r], u) /\ ~(new[r].client /\ new[r].server)
  BY <1>3, <1>4
<1>14. AsyncCounted' /\ counter' \in Int
  <2>1. InAsync' = InAsync
    BY <1>2, <1>7, <1>8 DEF InAsync
  <2> QED BY <1>0, <1>1, <2>1, AsyncStep DEF IInv, Types
<1>16. ThreadsStep(w, req, W, {})
  BY <1>1, <1>2, <1>5, <1>6, <1>7, <1>8, <1>9, <1>14 DEF ThreadsStep
<1>17. RequestsKept(new)
  BY <1>13 DEF RequestsKept
<1>18. FinishPre(new, backlog, w, req)
  BY <1>0, <1>4, <1>5, <1>6, <1>10, <1>11, <1>12 DEF FinishPre, Types
<1> QED BY <1>1, <1>16, <1>17, <1>18, FinishSame, FinishStep

(* The server end is closed. *)
LEMMA CloseServerStep ==
  ASSUME IInv, NEW t \in Servers, NEW s \in Slots, CloseServer(t, s)
  PROVE  IInv'
<1> USE SessionsAssumption
<1> DEFINE x == [ses[s] EXCEPT !.handle = FALSE]
           new == [ses EXCEPT ![s] = x]
<1>0. Types /\ ses[s] \in SessionRecord /\ t \in Threads
  BY DEF IInv, Types, Threads
<1>1. /\ Finish(new, active, backlog, waits, req) /\ status' = status /\ callback' = callback
      /\ counter' = counter /\ worker' = worker /\ tsq' = tsq /\ timer' = timer
      /\ ctx' = ctx
  BY DEF CloseServer, async
<1>2. /\ x \in SessionRecord /\ x.client = ses[s].client /\ x.server = ses[s].server
      /\ x.port = ses[s].port /\ x.hle = ses[s].hle /\ ~x.handle /\ x.pending = ses[s].pending
      /\ x.handling = ses[s].handling /\ x.freed = ses[s].freed
  BY <1>0 DEF SessionRecord
<1>3. new \in [Slots -> SessionRecord] /\ \A r \in Slots : new[r] = IF r = s THEN x ELSE ses[r]
  BY <1>0, <1>2 DEF Types
<1> HIDE DEF x, new
<1>4. waits \in [Threads -> SUBSET (Slots \cup {"lle"})]
      /\ \A u \in Threads : waits[u] = IF u \in {} \cup {} THEN {} ELSE waits[u]
  BY <1>0 DEF Types
<1>5. req \in [Threads -> Slots \cup {None, "hle"}]
      /\ \A u \in Threads : req[u] = IF u \in {} THEN None ELSE req[u]
  BY <1>0 DEF Types
<1>6. status' = [u \in Threads |-> IF u \in {} THEN "ready" ELSE IF u \in {} THEN "dead" ELSE status[u]]
  BY <1>0, <1>1 DEF Types
<1>7. callback' = [u \in Threads |-> IF u \in {} THEN "none" ELSE callback[u]]
  BY <1>0, <1>1 DEF Types
<1>8. timer' = [u \in Threads |-> IF u \in {} THEN FALSE ELSE timer[u]]
  BY <1>0, <1>1 DEF Types
<1>9. Watched(new, waits)
  BY <1>2, <1>3 DEF IInv, Watched, ShouldWait
<1>10. Ends(new, backlog)
  <2>1. \A i \in DOMAIN backlog : backlog[i] \in Slots
    BY <1>0 DEF Types
  <2>2. \A r \in Slots : Whole(new[r])
    BY <1>2, <1>3 DEF IInv, Ends, Whole
  <2> QED BY <1>2, <1>3, <2>1, <2>2 DEF IInv, Ends
<1>11. \A r \in Slots : new[r].server = ses[r].server /\ (ses[r].server => new[r].port = ses[r].port)
  BY <1>2, <1>3
<1>12. \A r \in Slots, u \in Threads : \/ (In(new[r], u) <=> In(ses[r], u))
                                          /\ (Once(ses[r], u) => Once(new[r], u))
                                       \/ ~In(new[r], u) /\ ~(new[r].client /\ new[r].server)
  BY <1>2, <1>3 DEF In, Once
<1>13. AsyncCounted' /\ counter' \in Int
  BY <1>0, <1>1 DEF IInv, AsyncCounted, Types
<1>14. ThreadsStep(waits, req, {}, {})
  BY <1>1, <1>4, <1>5, <1>6, <1>7, <1>8, <1>13 DEF ThreadsStep
<1>15. RequestsKept(new)
  BY <1>12 DEF RequestsKept
<1>16. FinishPre(new, backlog, waits, req)
  BY <1>0, <1>3, <1>4, <1>5, <1>9, <1>10, <1>11 DEF FinishPre, Types
<1> QED BY <1>1, <1>14, <1>15, <1>16, FinishSame, FinishStep

(* The end of a thread. *)
LEMMA StopStep ==
  ASSUME IInv, NEW t \in Threads, Stop(t)
  PROVE  IInv'
<1> USE SessionsAssumption
<1> DEFINE w == [waits EXCEPT ![t] = {}]
           asked == [req EXCEPT ![t] = None]
<1>0. Types
  BY DEF IInv
<1>1. /\ status[t] # "dead" /\ counter' = (IF callback[t] = "async" THEN counter - 1 ELSE counter)
      /\ timer' = [timer EXCEPT ![t] = FALSE] /\ Finish(ses, active, backlog, w, asked)
      /\ status' = [status EXCEPT ![t] = "dead"]
      /\ callback' = callback /\ worker' = worker /\ tsq' = tsq /\ ctx' = ctx
  BY DEF Stop, Abandon, host
<1>2. w \in [Threads -> SUBSET (Slots \cup {"lle"})]
      /\ \A u \in Threads : w[u] = IF u \in {} \cup {t} THEN {} ELSE waits[u]
  BY <1>0 DEF Types
<1>3. asked \in [Threads -> Slots \cup {None, "hle"}]
      /\ \A u \in Threads : asked[u] = IF u \in {t} THEN None ELSE req[u]
  BY <1>0 DEF Types
<1>4. status' = [u \in Threads |-> IF u \in {} THEN "ready" ELSE IF u \in {t} THEN "dead" ELSE status[u]]
  BY <1>0, <1>1 DEF Types
<1>5. callback' = [u \in Threads |-> IF u \in {} THEN "none" ELSE callback[u]]
  BY <1>0, <1>1 DEF Types
<1>6. timer' = [u \in Threads |-> IF u \in {t} THEN FALSE ELSE timer[u]]
  BY <1>0, <1>1 DEF Types
<1>7. Watched(ses, w)
  <2>1. \A r \in Slots : Waiters(r, w) \subseteq Waiters(r, waits)
    BY <1>0 DEF Waiters, Types
  <2> QED BY <2>1 DEF IInv, Watched
<1> HIDE DEF w, asked
<1>8. AsyncCounted' /\ counter' \in Int
  <2>1. CASE callback[t] = "async"
    <3>1. t \in InAsync /\ InAsync' = InAsync \ {t}
      BY <1>1, <1>4, <2>1 DEF InAsync
    <3> QED BY <1>0, <1>1, <2>1, <3>1, AsyncStep DEF IInv, Types
  <2>2. CASE callback[t] # "async"
    <3>1. InAsync' = InAsync
      BY <1>1, <1>4, <2>2 DEF InAsync
    <3> QED BY <1>0, <1>1, <2>2, <3>1, AsyncStep DEF IInv, Types
  <2> QED BY <2>1, <2>2
<1>9. ses \in [Slots -> SessionRecord] /\ Ends(ses, backlog)
  BY <1>0 DEF IInv, Types
<1>10. ThreadsStep(w, asked, {}, {t})
  BY <1>1, <1>2, <1>3, <1>4, <1>5, <1>6, <1>8 DEF ThreadsStep
<1>11. RequestsKept(ses)
  BY DEF RequestsKept
<1>12. FinishPre(ses, backlog, w, asked)
  BY <1>0, <1>2, <1>3, <1>7, <1>9 DEF FinishPre, Types
<1> QED BY <1>1, <1>10, <1>11, <1>12, FinishSame, FinishStep

-----------------------------------------------------------------------------
(* The sessions new as a reply leaves them, before the server receives:    *)
(* the requests of the threads R, which are live or not, are answered.     *)
ReplyPre(new, R) ==
  /\ new \in [Slots -> SessionRecord] /\ R \subseteq Clients
  /\ \A s \in Slots : /\ new[s].server = ses[s].server /\ new[s].port = ses[s].port
                      /\ new[s].handle = ses[s].handle /\ new[s].hle = ses[s].hle
  /\ Ends(new, backlog) /\ Watched(new, waits)
  /\ \A u \in R : /\ status[u] \in {"ipc", "dead"}
                  /\ status[u] = "ipc" => ~timer[u] /\ \A s \in Slots : ~In(new[s], u)
  /\ \A u \in Threads \ R, s \in Slots :
       (In(new[s], u) <=> In(ses[s], u)) /\ (Once(ses[s], u) => Once(new[s], u))

(* What the second half of svcReplyAndReceive may do to a session. *)
Received(x, y) ==
  /\ y \in SessionRecord /\ y.client = x.client /\ y.server = x.server /\ y.port = x.port
  /\ y.handle = x.handle /\ y.hle = x.hle /\ (Whole(x) => Whole(y))
  /\ \A u \in Threads : (In(y, u) <=> In(x, u)) /\ (Once(x, u) => Once(y, u))
  /\ y = x \/ (x.client => ShouldWait(y))

LEMMA ReceivedSame ==
  ASSUME NEW x \in SessionRecord PROVE Received(x, x)
BY DEF Received

LEMMA AcquireReceived ==
  ASSUME NEW x \in SessionRecord, ~ShouldWait(x), Whole(x), x.server
  PROVE  Received(x, Acquire(x))
<1> USE SessionsAssumption
<1>1. x.client => x.pending # <<>> /\ x.handling = None
  BY DEF ShouldWait
<1>2. /\ Acquire(x) \in SessionRecord
      /\ Acquire(x).client = x.client /\ Acquire(x).server = x.server
      /\ Acquire(x).port = x.port /\ Acquire(x).handle = x.handle /\ Acquire(x).hle = x.hle
      /\ x.client => Acquire(x).handling \in Clients
  <2>1. CASE Threads = {}
    <3>1. x.client => x.pending \in Seq({})
      BY <2>1 DEF Threads, SessionRecord
    <3>2. ~x.client
      BY <1>1, <3>1
    <3> QED BY <3>2 DEF Acquire
  <2>2. CASE Threads # {}
    BY <1>1, <2>2, AcquireIn
  <2> QED BY <2>1, <2>2
<1>3. \A u \in Threads : (In(Acquire(x), u) <=> In(x, u)) /\ (Once(x, u) => Once(Acquire(x), u))
  BY <1>1, AcquireIn
<1>4. Whole(Acquire(x))
  <2>1. CASE x.client
    BY <1>2, <2>1 DEF Whole
  <2>2. CASE ~x.client
    BY <2>2 DEF Acquire
  <2> QED BY <2>1, <2>2
<1>5. x.client => ShouldWait(Acquire(x))
  BY <1>2 DEF ShouldWait, Threads
<1> QED BY <1>2, <1>3, <1>4, <1>5 DEF Received

(* The second half of svcReplyAndReceive. *)
LEMMA ReceiveStep ==
  ASSUME IInv, NEW t \in Servers, NEW objs, objs \subseteq Objects, status[t] = "ready",
         NEW new, NEW R, ReplyPre(new, R), Receive(t, objs, new, R),
         req' \in [Threads -> Slots \cup {None, "hle"}],
         \A u \in Threads : req'[u] = IF u \in R THEN None ELSE req[u],
         backlog' = backlog, active' = active, ctx' = ctx,
         counter' = counter, worker' = worker, tsq' = tsq, timer' = timer
  PROVE  IInv'
<1> USE SessionsAssumption
<1>0. Types /\ t \in Threads /\ t \notin R /\ R \subseteq Threads /\ objs \subseteq Slots \cup {"lle"}
  BY DEF IInv, Threads, ReplyPre, Objects
<1>1. "lle" \notin Slots
  BY DEF Ports
<1>2. \A s \in Slots : new[s] \in SessionRecord /\ Whole(new[s])
  BY DEF ReplyPre, Ends
<1>3. \A s \in objs \cap Slots : new[s].server
  <2>1. \A s \in objs \cap Slots : ses[s].handle
    BY <1>0, <1>1 DEF Objects
  <2>2. \A s \in Slots : ses[s].handle => ses[s].server
    BY DEF IInv, Ends, Whole
  <2> QED BY <2>1, <2>2 DEF ReplyPre
<1> DEFINE sleeps == (\A o \in objs : ~Ready(o, new)) /\ objs # {}
\* The sessions.
<1>4. ses' \in [Slots -> SessionRecord] /\ \A s \in Slots : Received(new[s], ses'[s])
  <2>1. CASE ses' = new
    BY <1>2, <2>1, ReceivedSame DEF ReplyPre
  <2>2. ASSUME NEW o \in objs, Ready(o, new), o # "lle", ses' = [new EXCEPT ![o] = Acquire(@)]
        PROVE  ses' \in [Slots -> SessionRecord] /\ \A s \in Slots : Received(new[s], ses'[s])
    <3>1. o \in Slots /\ ~ShouldWait(new[o])
      BY <1>0, <2>2 DEF Ready
    <3>2. Received(new[o], Acquire(new[o]))
      BY <1>2, <1>3, <3>1, AcquireReceived
    <3>3. \A s \in Slots : ses'[s] = IF s = o THEN Acquire(new[o]) ELSE new[s]
      BY <2>2 DEF ReplyPre
    <3>4. ses' \in [Slots -> SessionRecord]
      BY <2>2, <3>1, <3>2 DEF ReplyPre, Received
    <3> QED BY <1>2, <3>2, <3>3, <3>4, ReceivedSame
  <2> QED BY <2>1, <2>2 DEF Receive
<1>5. sleeps => ses' = new
  BY DEF Receive
\* The threads.
<1>6. /\ status' \in [Threads -> {"ready", "ipc", "sync", "hle", "dead"}]
      /\ callback' \in [Threads -> {"none", "ipc", "async"}]
      /\ waits' \in [Threads -> SUBSET (Slots \cup {"lle"})]
  <2>1. CASE Resume(R) /\ waits' = waits
    BY <1>0, <2>1 DEF Resume, Types
  <2>2. CASE /\ waits' = [waits EXCEPT ![t] = objs]
             /\ status' = [u \in Threads |-> IF u = t /\ objs # {} THEN "sync"
                                             ELSE IF u \in R /\ status[u] # "dead" THEN "ready"
                                             ELSE status[u]]
             /\ callback' = [callback EXCEPT ![t] = IF objs # {} THEN "ipc" ELSE @]
    BY <1>0, <2>2 DEF Types
  <2> QED BY <2>1, <2>2 DEF Receive
<1>7. ~sleeps => waits'[t] = waits[t] /\ status'[t] = status[t] /\ callback'[t] = callback[t]
  <2>1. waits[t] = {}
    BY <1>0 DEF IInv, ThreadState
  <2> QED BY <1>0, <2>1 DEF Receive, Resume, Types
<1>8. sleeps => waits'[t] = objs /\ status'[t] = "sync" /\ callback'[t] = "ipc"
  BY <1>0 DEF Receive, Types
<1>9. \A u \in Threads \ (R \cup {t}) : /\ waits'[u] = waits[u] /\ status'[u] = status[u]
                                        /\ callback'[u] = callback[u]
  BY <1>0 DEF Receive, Resume, Types
<1>10. \A u \in R : callback[u] = "none" \/ status[u] = "dead"
  BY <1>0 DEF IInv, ThreadState, ReplyPre, Types
<1>11. \A u \in R : /\ waits'[u] = waits[u] /\ callback'[u] = callback[u]
                    /\ status'[u] = IF status[u] = "dead" THEN "dead" ELSE "ready"
  BY <1>0, <1>10 DEF Receive, Resume, Types
<1> HIDE DEF sleeps
<1>12. Types'
  BY <1>0, <1>4, <1>6 DEF Types
<1>13. Ends(ses', backlog')
  <2>1. \A i \in DOMAIN backlog : backlog[i] \in Slots
    BY <1>0 DEF Types
  <2> QED BY <1>2, <1>4, <2>1 DEF Ends, Received, ReplyPre
<1>14. ASSUME NEW u \in Threads PROVE ThreadState(u)'
  <2>1. ThreadState(u)
    BY DEF IInv
  <2>2. CASE u = t
    <3>1. req'[u] = req[u] /\ status[u] = "ready"
      BY <1>0, <2>2
    <3>2. CASE sleeps
      <4>1. objs # {}
        BY <3>2 DEF sleeps
      <4> QED BY <1>8, <2>1, <2>2, <3>1, <3>2, <4>1 DEF ThreadState
    <3>3. CASE ~sleeps
      BY <1>7, <2>1, <2>2, <3>1, <3>3 DEF ThreadState
    <3> QED BY <3>2, <3>3
  <2>3. CASE u \in R
    <3>1. req'[u] = None /\ status[u] \in {"ipc", "dead"} /\ (status[u] = "ipc" => ~timer[u])
      BY <2>3 DEF ReplyPre
    <3> QED BY <1>11, <2>1, <2>3, <3>1 DEF ThreadState
  <2>4. CASE u \notin R \cup {t}
    <3>1. req'[u] = req[u]
      BY <2>4
    <3> QED BY <1>9, <2>1, <2>4, <3>1 DEF ThreadState
  <2> QED BY <2>2, <2>3, <2>4
<1>15. ASSUME NEW u \in Threads PROVE RequestState(u)'
  <2>0. \A s \in Slots : (In(ses'[s], u) <=> In(new[s], u)) /\ (Once(new[s], u) => Once(ses'[s], u))
    BY <1>4 DEF Received
  <2>1. RequestState(u)
    BY DEF IInv
  <2>2. CASE u = t
    <3>1. status'[u] # "ipc"
      BY <1>7, <1>8, <2>2
    <3>2. \A s \in Slots : ~In(new[s], u)
      BY <1>0, <2>1, <2>2 DEF RequestState, ReplyPre
    <3> QED BY <2>0, <3>1, <3>2 DEF RequestState
  <2>3. CASE u \in R
    <3>1. status'[u] # "ipc" /\ (status'[u] # "dead" => status[u] = "ipc")
      BY <1>11, <2>3 DEF ReplyPre
    <3>2. status[u] = "ipc" => \A s \in Slots : ~In(new[s], u)
      BY <2>3 DEF ReplyPre
    <3> QED BY <2>0, <3>1, <3>2 DEF RequestState
  <2>4. CASE u \notin R \cup {t}
    <3>1. req'[u] = req[u] /\ status'[u] = status[u]
      BY <1>9, <2>4
    <3>2. \A s \in Slots : (In(new[s], u) <=> In(ses[s], u)) /\ (Once(ses[s], u) => Once(new[s], u))
      BY <2>4 DEF ReplyPre
    <3> QED BY <2>0, <2>1, <3>1, <3>2 DEF RequestState
  <2> QED BY <2>2, <2>3, <2>4
<1>16. Watched(ses', waits')
  <2> SUFFICES ASSUME NEW s \in Slots, Waiters(s, waits') # {}
               PROVE  ses'[s].server /\ (ShouldWait(ses'[s]) \/ ses'[s].freed)
    BY DEF Watched
  <2>1. CASE Waiters(s, waits) # {}
    <3>1. new[s].server /\ (ShouldWait(new[s]) \/ new[s].freed)
      BY <2>1 DEF ReplyPre, Watched
    <3>2. CASE ses'[s] = new[s]
      BY <3>1, <3>2
    <3>3. CASE ses'[s] # new[s]
      <4>1. new[s].client
        <5>1. ~new[s].client => Acquire(new[s]) = new[s]
          BY DEF Acquire
        <5>2. ses'[s] \in {new[s], Acquire(new[s])}
          BY DEF Receive, ReplyPre
        <5> QED BY <3>3, <5>1, <5>2
      <4> QED BY <1>4, <3>1, <3>3, <4>1 DEF Received
    <3> QED BY <3>2, <3>3
  <2>2. CASE Waiters(s, waits) = {}
    <3>1. \A u \in Threads : u # t => waits'[u] = waits[u]
      BY <1>9, <1>11
    <3>2. waits'[t] # waits[t] /\ s \in waits'[t]
      BY <1>0, <2>2, <3>1 DEF Waiters
    <3>3. sleeps /\ s \in objs
      BY <1>7, <1>8, <3>2
    <3>4. ~Ready(s, new)
      BY <3>3 DEF sleeps
    <3>5. ShouldWait(new[s])
      BY <1>1, <3>4 DEF Ready
    <3> QED BY <1>3, <1>5, <3>3, <3>5
  <2> QED BY <2>1, <2>2
<1>17. PlacesCounted' /\ \A p \in Ports : active'[p] <= MaxSessions
  <2>1. \A p \in Ports : Open(p)' = Open(p)
    BY <1>4 DEF Open, OpenIn, Received, ReplyPre
  <2> QED BY <2>1 DEF IInv, PlacesCounted, Open, OpenIn
<1>18. AsyncCounted'
  <2>1. t \notin InAsync /\ t \notin InAsync'
    <3>1. ThreadState(t) /\ ThreadState(t)'
      BY <1>0, <1>14 DEF IInv
    <3>2. status'[t] # "hle"
      BY <1>7, <1>8
    <3> QED BY <3>1, <3>2 DEF InAsync, ThreadState
  <2>2. \A u \in Threads : u # t => (u \in InAsync' <=> u \in InAsync)
    BY <1>9, <1>10, <1>11 DEF InAsync
  <2>3. InAsync' = InAsync
    BY <2>1, <2>2 DEF InAsync
  <2> QED BY <1>0, <2>3, AsyncStep DEF IInv
<1>19. Owned(ses', backlog', waits', ctx')
  <2>1. \A u \in Threads : waits[u] \subseteq waits'[u]
    <3>1. waits[t] = {}
      BY <1>0 DEF IInv, ThreadState
    <3> QED BY <1>9, <1>11, <3>1
  <2>2. \A s \in Slots : /\ ses'[s].server = ses[s].server /\ ses'[s].handle = ses[s].handle
                         /\ ses'[s].hle = ses[s].hle
    BY <1>4 DEF Received, ReplyPre
  <2> QED BY <2>1, <2>2, OwnedKept
<1> QED BY <1>12, <1>13, <1>14, <1>15, <1>16, <1>17, <1>18, <1>19 DEF IInv

LEMMA ReplyAndReceiveStep ==
  ASSUME IInv, NEW t \in Servers, NEW objs \in SUBSET (Slots \cup {"lle"}),
         NEW target \in Slots \cup {None}, ReplyAndReceive(t, objs, target)
  PROVE  IInv'
<1> USE SessionsAssumption
<1>0. Types
  BY DEF IInv
<1>1. /\ status[t] = "ready" /\ objs \subseteq Objects
      /\ backlog' = backlog /\ active' = active /\ ctx' = ctx
      /\ counter' = counter /\ worker' = worker /\ tsq' = tsq /\ timer' = timer
  BY DEF ReplyAndReceive, async
<1>2. CASE target = None
  <2>1. Receive(t, objs, ses, {}) /\ req' = req
    BY <1>2 DEF ReplyAndReceive
  <2>2. ReplyPre(ses, {})
    BY <1>0 DEF ReplyPre, IInv, Types
  <2>3. req' \in [Threads -> Slots \cup {None, "hle"}]
        /\ \A u \in Threads : req'[u] = IF u \in {} THEN None ELSE req[u]
    BY <1>0, <2>1 DEF Types
  <2> QED BY <1>1, <2>1, <2>2, <2>3, ReceiveStep
<1>3. CASE target # None
  <2> DEFINE x == ses[target]
             r == x.handling
             new == [ses EXCEPT ![target] = Answered(ses[target])]
  <2>1. /\ target \in Slots /\ x \in SessionRecord /\ x.client /\ r # None
        /\ Receive(t, objs, new, {r}) /\ req' = [req EXCEPT ![r] = None]
    BY <1>0, <1>3 DEF ReplyAndReceive, Types
  <2>2. r \in Clients /\ r \in Threads
    BY <2>1 DEF SessionRecord, Threads
  <2>3. /\ Answered(x) \in SessionRecord
        /\ Answered(x).client = x.client /\ Answered(x).server = x.server
        /\ Answered(x).port = x.port /\ Answered(x).handle = x.handle /\ Answered(x).hle = x.hle
        /\ Answered(x).handling = None /\ Answered(x).pending = x.pending
        /\ Answered(x).freed = (x.client /\ x.pending # <<>>)
        /\ \A u \in Threads : /\ Once(x, u) => Once(Answered(x), u)
                              /\ u # r => (In(Answered(x), u) <=> In(x, u))
                              /\ u = r /\ Once(x, u) => ~In(Answered(x), u)
    BY <2>1, <2>2, AnsweredIn
  <2>4. new \in [Slots -> SessionRecord]
        /\ \A s \in Slots : new[s] = IF s = target THEN Answered(x) ELSE ses[s]
    BY <1>0, <2>1, <2>3 DEF Types
  <2>5. In(x, r)
    BY DEF In
  <2>6. status[r] \in {"ipc", "dead"}
        /\ (status[r] = "ipc" => req[r] = target /\ ~timer[r] /\ Once(x, r))
    <3>1. RequestState(r) /\ ThreadState(r) /\ status[r] \in {"ready", "ipc", "sync", "hle", "dead"}
      BY <1>0, <2>2 DEF IInv, Types
    <3>2. \A s \in Slots : s # "hle"
      BY DEF Ports
    <3> QED BY <2>1, <2>5, <3>1, <3>2 DEF RequestState, ThreadState
  <2> HIDE DEF new
  <2>7. ReplyPre(new, {r})
    <3>1. \A s \in Slots : /\ new[s].server = ses[s].server /\ new[s].port = ses[s].port
                           /\ new[s].handle = ses[s].handle /\ new[s].hle = ses[s].hle
      BY <2>3, <2>4
    <3>2. Ends(new, backlog)
      <4>1. \A i \in DOMAIN backlog : backlog[i] \in Slots
        BY <1>0 DEF Types
      <4>2. \A s \in Slots : Whole(ses[s]) /\ Whole(new[s])
        BY <2>3, <2>4 DEF IInv, Ends, Whole
      <4> QED BY <3>1, <4>1, <4>2 DEF IInv, Ends
    <3>3. Watched(new, waits)
      <4>1. ShouldWait(Answered(x)) \/ Answered(x).freed
        BY <2>1, <2>3 DEF ShouldWait
      <4> QED BY <2>3, <2>4, <4>1 DEF IInv, Watched
    <3>4. status[r] = "ipc" => ~timer[r] /\ \A s \in Slots : ~In(new[s], r)
      <4>1. status[r] = "ipc" => \A s \in Slots : s # target => ~In(ses[s], r)
        BY <2>2, <2>6 DEF IInv, RequestState
      <4> QED BY <2>2, <2>3, <2>4, <2>6, <4>1
    <3>5. \A u \in Threads \ {r}, s \in Slots :
            (In(new[s], u) <=> In(ses[s], u)) /\ (Once(ses[s], u) => Once(new[s], u))
      BY <2>3, <2>4
    <3> QED BY <2>2, <2>4, <2>6, <3>1, <3>2, <3>3, <3>4, <3>5 DEF ReplyPre
  <2>8. req' \in [Threads -> Slots \cup {None, "hle"}]
        /\ \A u \in Threads : req'[u] = IF u \in {r} THEN None ELSE req[u]
    BY <1>0, <2>1, <2>2 DEF Types
  <2> QED BY <1>1, <2>1, <2>7, <2>8, ReceiveStep
<1> QED BY <1>2, <1>3

-----------------------------------------------------------------------------
LEMMA InitIInv == Init => IInv
<1> USE SessionsAssumption
<1> SUFFICES ASSUME Init PROVE IInv
  OBVIOUS
<1>1. Unused \in SessionRecord /\ Whole(Unused) /\ ~Unused.server
      /\ Unused.pending = <<>> /\ Unused.handling = None
  <2>1. <<>> \in Seq(Clients)
    OBVIOUS
  <2> QED BY <2>1 DEF Unused, SessionRecord, Whole
<1>2. \A s \in Slots : ses[s] = Unused
  BY DEF Init
<1>3. Types
  <2>1. ses \in [Slots -> SessionRecord]
    BY <1>1 DEF Init
  <2>2. backlog \in Seq(Slots) /\ counter \in Int /\ active \in [Ports -> Int]
    BY DEF Init
  <2> QED BY <2>1, <2>2 DEF Init, Types
<1>4. Ends(ses, backlog)
  BY <1>1, <1>2 DEF Ends, Init
<1>5. \A t \in Threads : ThreadState(t)
  BY DEF Init, ThreadState
<1>6. \A t \in Threads : RequestState(t)
  BY <1>1, <1>2 DEF Init, RequestState, In
<1>7. Watched(ses, waits)
  BY DEF Init, Watched, Waiters
<1>8. PlacesCounted /\ \A p \in Ports : active[p] <= MaxSessions
  <2>1. \A p \in Ports : Open(p) = {} /\ active[p] = 0
    BY <1>1, <1>2 DEF Open, OpenIn, Init
  <2>2. \A p \in Ports : Cardinality(Open(p)) = 0
    BY <2>1, FS_EmptySet
  <2>3. PlacesCounted
    BY <2>1, <2>2 DEF PlacesCounted, Open, OpenIn
  <2> QED BY <2>1, <2>3
<1>9. AsyncCounted
  <2>1. InAsync = {} /\ counter = 0
    BY DEF InAsync, Init
  <2>2. Cardinality(InAsync) = 0
    BY <2>1, FS_EmptySet
  <2> QED BY <2>1, <2>2 DEF AsyncCounted, InAsync
<1>10. Owned(ses, backlog, waits, ctx)
  BY <1>1, <1>2 DEF Owned
<1> QED BY <1>3, <1>4, <1>5, <1>6, <1>7, <1>8, <1>9, <1>10 DEF IInv

LEMMA NextIInv == IInv /\ [Next]_vars => IInv'
<1> SUFFICES ASSUME IInv, [Next]_vars PROVE IInv'
  OBVIOUS
<1>1. CASE ClientCall
  BY <1>1, ConnectStep, SendSyncRequestStep, HleRequestStep, CloseClientStep, RunAsyncStep
     DEF ClientCall
<1>2. CASE ServerCall
  BY <1>2, AcceptSessionStep, CreateSessionStep, ReplyFailsStep, CloseServerStep, ReplyAndReceiveStep
     DEF ServerCall
<1>3. CASE \E t \in Threads : SectionEnds(t) \/ Wakeup(t) \/ Stop(t) \/ CreateThread(t)
  BY <1>3, HostStep, WakeupStep, StopStep, CreateThreadStep DEF Wakeup
<1>4. CASE UNCHANGED vars
  <2>1. /\ ses' = ses /\ backlog' = backlog /\ active' = active /\ waits' = waits
        /\ status' = status /\ callback' = callback /\ counter' = counter /\ req' = req
        /\ worker' = worker /\ tsq' = tsq /\ timer' = timer /\ ctx' = ctx
    BY <1>4 DEF vars
  <2>2. Types'
    BY <2>1 DEF IInv, Types
  <2>3. \A u \in Threads : ThreadState(u)' /\ RequestState(u)'
    BY <2>1 DEF IInv, ThreadState, RequestState
  <2>4. AsyncCounted'
    BY <2>1 DEF IInv, AsyncCounted
  <2> QED BY <2>1, <2>2, <2>3, <2>4, SessionsUntouched DEF IInv
<1> QED BY <1>1, <1>2, <1>3, <1>4 DEF Next

LEMMA SessionsInvariant == Spec => []IInv
BY InitIInv, NextIInv, PTL DEF Spec

(* Types and bounds: the count of a port stays between zero and            *)
(* max_sessions, that of the operations between zero and the threads.      *)
THEOREM SessionsTypeCorrect == Spec => []TypeOK
<1>1. IInv => TypeOK
  <2> SUFFICES ASSUME IInv PROVE TypeOK
    OBVIOUS
  <2>0. Types
    BY DEF IInv
  <2>1. \A s \in Slots : SessionType(ses[s])
    <3> SUFFICES ASSUME NEW s \in Slots PROVE SessionType(ses[s])
      OBVIOUS
    <3>1. ses[s] \in SessionRecord
      BY <2>0 DEF Types
    <3>2. ToSet(ses[s].pending) \subseteq Clients
      BY <3>1 DEF SessionRecord, ToSet
    <3> QED BY <3>1, <3>2 DEF SessionType, SessionRecord
  <2>2. active \in [Ports -> 0 .. MaxSessions]
    <3>1. ASSUME NEW p \in Ports PROVE active[p] \in 0 .. MaxSessions
      <4>1. Open(p) \in SUBSET Slots
        BY DEF Open, OpenIn
      <4>2. Cardinality(Open(p)) \in Nat
        BY <4>1, FS_Subset, FS_CardinalityType, SessionsAssumption
      <4> QED BY <4>2, SessionsAssumption DEF IInv, PlacesCounted, Open, OpenIn
    <3> QED BY <2>0, <3>1 DEF Types
  <2>3. counter \in 0 .. Cardinality(Threads)
    <3>1. InAsync \in SUBSET Threads
      BY DEF InAsync
    <3>2. IsFiniteSet(InAsync) /\ Cardinality(InAsync) <= Cardinality(Threads)
      BY <3>1, FS_Subset, SessionsAssumption
    <3>3. Cardinality(InAsync) \in Nat /\ Cardinality(Threads) \in Nat
      BY <3>2, FS_CardinalityType, SessionsAssumption
    <3> QED BY <3>2, <3>3 DEF IInv, AsyncCounted, InAsync
  <2>4. DOMAIN ses = Slots /\ ToSet(backlog) \subseteq Slots
    BY <2>0 DEF Types, ToSet
  <2> QED BY <2>0, <2>1, <2>2, <2>3, <2>4 DEF TypeOK, Types
<1> QED BY <1>1, SessionsInvariant, PTL

(* ClientPort::active_sessions is the number of sessions of the port whose *)
(* server end something refers to: a handle, the HLE service, the backlog, *)
(* a waiting thread or the context of a request, for any number of         *)
(* clients, whatever is accepted, closed at either end or left by a        *)
(* stopped thread.                                                         *)
THEOREM PortsCountSessions == Spec => []SessionsCounted
<1>1. IInv => SessionsCounted
  BY DEF IInv, SessionsCounted, Owned, PlacesCounted
<1> QED BY <1>1, SessionsInvariant, PTL

(* A server thread sleeps only while there is nothing for it to receive,   *)
(* except a request that the reply of another server thread uncovered.     *)
THEOREM ServersDoNotOversleep == Spec => []NoRequestSleptOver
<1>1. IInv => NoRequestSleptOver
  BY DEF IInv, NoRequestSleptOver, ThreadState, Watched
<1> QED BY <1>1, SessionsInvariant, PTL

(* pending_async_operations is the number of live threads in RunAsync.     *)
THEOREM OperationsCounted == Spec => []AsyncCounted
<1>1. IInv => AsyncCounted
  BY DEF IInv
<1> QED BY <1>1, SessionsInvariant, PTL

(* The places of the request of a thread, one session at a time. *)
Queued(t) == UNION {{s} \X {i \in DOMAIN ses[s].pending : ses[s].pending[i] = t} : s \in Slots}
Handled(t) == {s \in Slots : ses[s].handling = t}

LEMMA NoPlaces ==
  ASSUME NEW t \in Threads, \A s \in Slots : ~In(ses[s], t)
  PROVE  Places(t) = IF timer[t] THEN 1 ELSE 0
<1>1. Queued(t) = {} /\ Handled(t) = {}
  BY DEF Queued, Handled, In
<1>2. Cardinality(Queued(t)) = 0 /\ Cardinality(Handled(t)) = 0
  BY <1>1, FS_EmptySet
<1> QED BY <1>2 DEF Places, Queued, Handled

LEMMA OnePlace ==
  ASSUME NEW t \in Threads, NEW s \in Slots, ~timer[t],
         \A r \in Slots : (In(ses[r], t) <=> s = r) /\ Once(ses[r], t)
  PROVE  Places(t) = 1
<1>1. CASE ses[s].handling = t
  <2>1. Handled(t) = {s}
    BY <1>1 DEF Handled, In
  <2>2. Queued(t) = {}
    <3>1. \A r \in Slots : \A i \in DOMAIN ses[r].pending : ses[r].pending[i] # t
      BY <1>1 DEF In, Once
    <3> QED BY <3>1 DEF Queued
  <2>3. Cardinality(Queued(t)) = 0 /\ Cardinality(Handled(t)) = 1
    BY <2>1, <2>2, FS_EmptySet, FS_Singleton
  <2> QED BY <2>3 DEF Places, Queued, Handled
<1>2. CASE ses[s].handling # t
  <2>1. Handled(t) = {}
    BY <1>2 DEF Handled, In
  <2>2. PICK i \in DOMAIN ses[s].pending : ses[s].pending[i] = t
    BY <1>2 DEF In
  <2>3. \A r \in Slots : \A j \in DOMAIN ses[r].pending : ses[r].pending[j] = t => r = s /\ j = i
    BY <2>2 DEF In, Once
  <2>4. Queued(t) = {<<s, i>>}
    BY <2>2, <2>3 DEF Queued
  <2>5. Cardinality(Queued(t)) = 1 /\ Cardinality(Handled(t)) = 0
    BY <2>1, <2>4, FS_EmptySet, FS_Singleton
  <2> QED BY <2>5 DEF Places, Queued, Handled
<1> QED BY <1>1, <1>2

(* A request is never lost, duplicated or answered twice: a thread that    *)
(* waits for an answer is in exactly one place, unless an end of its       *)
(* session went, and a thread that does not wait for one is in none.       *)
THEOREM RequestsInOnePlace == Spec => []RequestInOnePlace
<1>1. IInv => RequestInOnePlace
  <2> SUFFICES ASSUME IInv, NEW t \in Threads
               PROVE  /\ status[t] = "ipc" => Places(t) = IF req[t] = None THEN 0 ELSE 1
                      /\ status[t] \in {"ready", "sync"} => Places(t) = 0
                      /\ status[t] = "hle" => Places(t) <= 1 /\ req[t] = None
    BY DEF RequestInOnePlace
  <2>1. ThreadState(t) /\ RequestState(t) /\ req[t] \in Slots \cup {None, "hle"}
    BY DEF IInv, Types
  <2>2. None # "hle" /\ \A s \in Slots : s # "hle" /\ s # None
    BY SessionsAssumption DEF Ports
  <2>3. CASE status[t] \in {"ready", "sync", "hle"}
    <3>1. Places(t) = IF timer[t] THEN 1 ELSE 0
      BY <2>1, <2>3, NoPlaces DEF RequestState
    <3> QED BY <2>1, <2>3, <3>1 DEF ThreadState
  <2>4. CASE status[t] = "ipc" /\ req[t] \notin Slots
    <3>1. Places(t) = IF timer[t] THEN 1 ELSE 0
      BY <2>1, <2>4, NoPlaces DEF RequestState
    <3> QED BY <2>1, <2>2, <2>4, <3>1 DEF ThreadState
  <2>5. CASE status[t] = "ipc" /\ req[t] \in Slots
    <3>1. ~timer[t] /\ req[t] # None
      BY <2>1, <2>2, <2>5 DEF ThreadState
    <3>2. Places(t) = 1
      BY <2>1, <2>5, <3>1, OnePlace DEF RequestState
    <3> QED BY <2>5, <3>1, <3>2
  <2> QED BY <2>3, <2>4, <2>5
<1> QED BY <1>1, SessionsInvariant, PTL
=============================================================================
