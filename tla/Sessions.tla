------------------------------ MODULE Sessions ------------------------------
(***************************************************************************)
(* IPC between threads: ports, sessions with a client and a server end,    *)
(* requests that a server thread answers (svcReplyAndReceive) or an HLE    *)
(* service handles, and the operations such a service runs on another host *)
(* thread (HLERequestContext::RunAsync).                                   *)
(*                                                                         *)
(* System calls are steps of the emulation thread.  Another host thread    *)
(* runs the asynchronous sections; what it schedules reaches the queue of  *)
(* the core at its next Advance.  The scheduler chooses any ready thread,  *)
(* a wakeup any of the threads that wait: module KernelSync has the        *)
(* priorities.  A stopped thread runs nothing more.                        *)
(***************************************************************************)
EXTENDS Integers, Sequences, FiniteSets, SequencesExt

CONSTANTS
  Slots,        \* sessions that exist at one time
  Clients,      \* threads that send requests
  Servers,      \* threads that answer them
  MaxSessions,  \* max_sessions of each port
  None          \* no thread, no session

Threads == Clients \cup Servers
Ports == {"lle", "hle"}

ASSUME SessionsAssumption ==
  /\ IsFiniteSet(Slots) /\ IsFiniteSet(Threads)
  /\ MaxSessions \in Nat
  /\ Clients \cap Servers = {} /\ Slots \cap Ports = {}
  /\ None \notin Slots \cup Threads \cup Ports

VARIABLES
  ses,        \* the sessions
  backlog,    \* pending_sessions of the port of the server threads
  active,     \* active_sessions of each port
  status,     \* ThreadStatus
  waits,      \* wait_objects of a thread in svcReplyAndReceive
  callback,   \* wakeup_callback
  ctx,        \* the session of the HLERequestContext that this callback keeps
  counter,    \* pending_async_operations
  worker,     \* the asynchronous section of the thread's request is running
  tsq,        \* its wakeup is in the thread-safe queue
  timer,      \* a wakeup of the thread is in the event queue
  req         \* the session of the thread's request, None once it is stranded

vars == <<ses, backlog, active, status, waits, callback, ctx, counter, worker, tsq, timer, req>>
host == <<worker, tsq>>
async == <<counter, worker, tsq, timer>>

-----------------------------------------------------------------------------
(* A session: its port, whether each end exists, whether a handle or the   *)
(* HLE service refers to the server end, pending_requesting_threads,       *)
(* currently_handling; freed says that a reply left a request behind.      *)
Unused == [port |-> "none", client |-> FALSE, server |-> FALSE, handle |-> FALSE, hle |-> FALSE,
           pending |-> <<>>, handling |-> None, freed |-> FALSE]

Pair(port) ==
  [Unused EXCEPT !.port = port, !.client = TRUE, !.server = TRUE,
                 !.handle = (port = "none"), !.hle = (port = "hle")]

Waiters(o, w) == {t \in Threads : o \in w[t]}

(* ServerSession::ShouldWait. *)
ShouldWait(x) == x.client /\ (x.pending = <<>> \/ x.handling # None)

(* Mutant: the request stays in the list. *)
AcquireWithoutPop(x) ==
  IF ~x.client THEN x ELSE [x EXCEPT !.handling = Last(x.pending), !.freed = FALSE]

(* ServerSession::Acquire: the last request is taken first. *)
Acquire(x) ==
  IF ~x.client THEN x
  ELSE [x EXCEPT !.handling = Last(x.pending), !.pending = Front(@), !.freed = FALSE]

(* The server end is alive while something refers to it: a handle, the HLE *)
(* service, the backlog of the port, a thread that waits for it, or the    *)
(* context of a request that the wakeup callback of a thread keeps.        *)
Referenced(s, x, log, w, c) ==
  x.handle \/ x.hle \/ s \in ToSet(log) \/ Waiters(s, w) # {} \/ \E t \in Threads : c[t] = s

(* ~ServerSession. *)
Destroyed(x) ==
  IF x.client THEN [x EXCEPT !.server = FALSE, !.pending = <<>>, !.handling = None, !.freed = FALSE]
  ELSE Unused

(* Mutant: the port is not told. *)
NoConnectionClosed(count, p, gone) == count[p]

(* ClientPort::ConnectionClosed, for the sessions whose server end goes. *)
ConnectionClosed(count, p, gone) == count[p] - Cardinality({s \in gone : ses[s].port = p})

(* The end of a step that changed sessions, backlog, waits or ctx: the     *)
(* references it drops destroy server ends, which wakes nobody.  The       *)
(* requests of sessions that lost an end are stranded.                     *)
Finish(new, count, log, w, asked) ==
  LET gone == {s \in Slots : new[s].server /\ ~Referenced(s, new[s], log, w, ctx')}
  IN  /\ ses' = [s \in Slots |-> IF s \in gone THEN Destroyed(new[s]) ELSE new[s]]
      /\ active' = [p \in Ports |-> ConnectionClosed(count, p, gone)]
      /\ backlog' = log
      /\ waits' = w
      /\ req' = [t \in Threads |->
                   IF asked[t] \in Slots /\ ~(ses'[asked[t]].client /\ ses'[asked[t]].server)
                     THEN None ELSE asked[t]]

(* RemoveWaitingThread, for all objects of the threads T. *)
Leave(w, T) == [t \in Threads |-> IF t \in T THEN {} ELSE w[t]]

(* ResumeFromWait of the threads T; a dead one is ignored. *)
Resume(T) ==
  LET awake == {t \in T : status[t] # "dead"}
  IN  /\ status' = [t \in Threads |-> IF t \in awake THEN "ready" ELSE status[t]]
      /\ callback' = [t \in Threads |-> IF t \in awake THEN "none" ELSE callback[t]]

-----------------------------------------------------------------------------
Init ==
  /\ ses = [s \in Slots |-> Unused]
  /\ backlog = <<>>
  /\ active = [p \in Ports |-> 0]
  /\ status = [t \in Threads |-> "ready"]
  /\ waits = [t \in Threads |-> {}]
  /\ callback = [t \in Threads |-> "none"]
  /\ ctx = [t \in Threads |-> None]
  /\ counter = 0
  /\ worker = [t \in Threads |-> FALSE]
  /\ tsq = [t \in Threads |-> FALSE]
  /\ timer = [t \in Threads |-> FALSE]
  /\ req = [t \in Threads |-> None]

(* svcConnectToPort and svcCreateSessionToPort: ClientPort::Connect.  All  *)
(* threads that wait for the port are woken.  (When the handle table is    *)
(* full the client end is closed at once: the step CloseClient.)           *)
Connect(t, p, s) ==
  /\ status[t] = "ready" /\ ses[s] = Unused
  /\ active[p] < MaxSessions
  /\ UNCHANGED ctx
  /\ LET woken == Waiters(p, waits)
     IN  /\ Finish([ses EXCEPT ![s] = Pair(p)], [active EXCEPT ![p] = @ + 1],
                   IF p = "lle" THEN Append(backlog, s) ELSE backlog, Leave(waits, woken), req)
         /\ Resume(woken)
  /\ UNCHANGED async

(* svcCreateSession. *)
CreateSession(t, s) ==
  /\ status[t] = "ready" /\ ses[s] = Unused
  /\ ses' = [ses EXCEPT ![s] = Pair("none")]
  /\ UNCHANGED <<backlog, active, status, waits, callback, ctx, req>> /\ UNCHANGED async

(* svcAcceptSession: the last session first. *)
AcceptSession(t) ==
  /\ status[t] = "ready" /\ backlog # <<>>
  /\ ses' = [ses EXCEPT ![Last(backlog)].handle = TRUE]
  /\ backlog' = Front(backlog)
  /\ UNCHANGED <<active, status, waits, callback, ctx, req>> /\ UNCHANGED async

(* svcSendSyncRequest to a server thread: the request is queued, and one   *)
(* of the threads that wait takes it if the session is free.               *)
SendSyncRequest(t, s) ==
  /\ status[t] = "ready" /\ ses[s].client /\ ses[s].server /\ ~ses[s].hle
  /\ UNCHANGED ctx
  /\ LET x == [ses[s] EXCEPT !.pending = Append(@, t)]
         blocked == [status EXCEPT ![t] = "ipc"]
         asked == [req EXCEPT ![t] = s]
     IN  IF ShouldWait(x) \/ Waiters(s, waits) = {}
           THEN /\ ses' = [ses EXCEPT ![s] = x]
                /\ status' = blocked
                /\ req' = asked
                /\ UNCHANGED <<backlog, active, waits, callback>>
           ELSE \E w \in Waiters(s, waits) :
                  /\ Finish([ses EXCEPT ![s] = Acquire(x)], active, backlog, Leave(waits, {w}), asked)
                  /\ status' = [blocked EXCEPT ![w] = "ready"]
                  /\ callback' = [callback EXCEPT ![w] = "none"]
  /\ UNCHANGED async

(* svcSendSyncRequest to an HLE service that answers at once: the thread   *)
(* sleeps for the time a request takes.                                    *)
HleRequest(t, s) ==
  /\ status[t] = "ready" /\ ses[s].client /\ ses[s].hle
  /\ status' = [status EXCEPT ![t] = "ipc"]
  /\ timer' = [timer EXCEPT ![t] = TRUE]
  /\ req' = [req EXCEPT ![t] = "hle"]
  /\ UNCHANGED <<ses, backlog, active, waits, callback, ctx, counter>> /\ UNCHANGED host

(* RunAsync: ReportAsyncState(true), and SleepClientThread with the        *)
(* section on another host thread or, with deterministic_async_operations, *)
(* done already and a timeout.  The callback of the thread keeps the       *)
(* context, and the context the session and the thread.                    *)
RunAsync(t, s, deterministic) ==
  /\ status[t] = "ready" /\ ses[s].client /\ ses[s].hle
  /\ counter' = counter + 1
  /\ status' = [status EXCEPT ![t] = "hle"]
  /\ callback' = [callback EXCEPT ![t] = "async"]
  /\ ctx' = [ctx EXCEPT ![t] = s]
  /\ worker' = [worker EXCEPT ![t] = ~deterministic]
  /\ timer' = [timer EXCEPT ![t] = deterministic]
  /\ UNCHANGED <<ses, backlog, active, waits, tsq, req>>

(* Mutant: the thread is not woken. *)
NoWakeAfterDelay(t) == tsq

WakeAfterDelay(t) == [tsq EXCEPT ![t] = TRUE]

(* Another host thread: the section ends with WakeAfterDelay, which does   *)
(* not ask whether the thread still waits.                                 *)
SectionEnds(t) ==
  /\ worker[t]
  /\ worker' = [worker EXCEPT ![t] = FALSE]
  /\ tsq' = WakeAfterDelay(t)
  /\ UNCHANGED <<ses, backlog, active, status, waits, callback, ctx, counter, timer, req>>

(* Timer::Advance moves the wakeup to the event queue. *)
MoveEvents(t) ==
  /\ tsq[t]
  /\ tsq' = [tsq EXCEPT ![t] = FALSE]
  /\ timer' = [timer EXCEPT ![t] = TRUE]
  /\ UNCHANGED <<ses, backlog, active, status, waits, callback, ctx, counter, worker, req>>

(* ThreadWakeupCallback, also for a thread that was stopped.  The result   *)
(* function of RunAsync runs, the operation is no longer pending, and      *)
(* ResumeFromWait lets go of the callback and the context.                 *)
ThreadWakeupCallback(t) ==
  /\ timer[t]
  /\ timer' = [timer EXCEPT ![t] = FALSE]
  /\ counter' = IF status[t] = "hle" /\ callback[t] = "async" THEN counter - 1 ELSE counter
  /\ ctx' = [ctx EXCEPT ![t] = IF status[t] = "dead" THEN @ ELSE None]
  /\ Finish(ses, active, backlog, waits, [req EXCEPT ![t] = None])
  /\ Resume({t})
  /\ UNCHANGED host

-----------------------------------------------------------------------------
(* svcReplyAndReceive, first part: the request is handled. *)
Answered(x) == [x EXCEPT !.handling = None, !.freed = x.client /\ x.pending # <<>>]

(* A reply to nobody, or to a client that closed the session: an error,    *)
(* and nothing is received.                                                *)
ReplyFails(t, s) ==
  /\ status[t] = "ready" /\ ses[s].handle
  /\ ses[s].handling = None \/ ~ses[s].client
  /\ ses' = [ses EXCEPT ![s].handling = None]
  /\ UNCHANGED <<backlog, active, status, waits, callback, ctx, req>> /\ UNCHANGED async

(* Second part, from the sessions as the reply leaves them: the first of   *)
(* the objects that is available is taken ...                              *)
Ready(o, new) == IF o = "lle" THEN backlog # <<>> ELSE ~ShouldWait(new[o])

Receive(t, objs, new, woken) ==
  \/ \E o \in objs :
       /\ Ready(o, new)
       /\ ses' = IF o = "lle" THEN new ELSE [new EXCEPT ![o] = Acquire(@)]
       /\ Resume(woken)
       /\ UNCHANGED waits
  \* ... or the thread waits for all of them (with no object it goes on).
  \/ /\ \A o \in objs : ~Ready(o, new)
     /\ ses' = new
     /\ waits' = [waits EXCEPT ![t] = objs]
     /\ LET sleeps == objs # {}
        IN  /\ status' = [u \in Threads |-> IF u = t /\ sleeps THEN "sync"
                                            ELSE IF u \in woken /\ status[u] # "dead" THEN "ready"
                                            ELSE status[u]]
            /\ callback' = [callback EXCEPT ![t] = IF sleeps THEN "ipc" ELSE @]

(* What the handles of a thread may refer to. *)
Objects == {s \in Slots : ses[s].handle} \cup {"lle"}

ReplyAndReceive(t, objs, target) ==
  /\ status[t] = "ready" /\ objs \subseteq Objects
  /\ IF target = None
       THEN /\ Receive(t, objs, ses, {})
            /\ UNCHANGED req
       ELSE /\ ses[target].handle /\ ses[target].client /\ ses[target].handling # None
            /\ LET r == ses[target].handling
               IN  /\ Receive(t, objs, [ses EXCEPT ![target] = Answered(@)], {r})
                   /\ req' = [req EXCEPT ![r] = None]
  /\ UNCHANGED <<backlog, active, ctx>> /\ UNCHANGED async

-----------------------------------------------------------------------------
(* ~ClientSession: ClientDisconnected, and the requests are dropped. *)
Closed(x) ==
  IF x.server
    THEN [x EXCEPT !.client = FALSE, !.hle = FALSE, !.pending = <<>>, !.handling = None, !.freed = FALSE]
    ELSE Unused

(* Mutant: the server is not told. *)
NoneNotified(s) == {}

(* WakeupAllWaitingThreads of a closed session, which is available to all. *)
Notified(s) == Waiters(s, waits)

(* The last handle to the client end is closed, by any thread of the       *)
(* process; all threads that wait for the session are woken, the ones      *)
(* that sent a request are not.                                            *)
CloseClient(t, s) ==
  /\ status[t] = "ready" /\ ses[s].client
  /\ UNCHANGED ctx
  /\ LET woken == Notified(s)
     IN  /\ Finish([ses EXCEPT ![s] = Closed(@)], active, backlog, Leave(waits, woken), req)
         /\ Resume(woken)
  /\ UNCHANGED async

(* The last handle to the server end is closed. *)
CloseServer(t, s) ==
  /\ status[t] = "ready" /\ ses[s].handle
  /\ UNCHANGED ctx
  /\ Finish([ses EXCEPT ![s].handle = FALSE], active, backlog, waits, req)
  /\ UNCHANGED <<status, callback>> /\ UNCHANGED async

(* Mutant: the operation of a stopped thread stays pending. *)
AbandonNothing(t) == counter

(* WakeupCallback::Abandon. *)
Abandon(t) == IF callback[t] = "async" THEN counter - 1 ELSE counter

(* Thread::Stop: the thread leaves the objects it waits for, its wakeup    *)
(* leaves the event queue (not the thread-safe one), and the request it    *)
(* sent stays where it is.  The callback is kept, and with it the context. *)
Stop(t) ==
  /\ status[t] # "dead"
  /\ counter' = Abandon(t)
  /\ timer' = [timer EXCEPT ![t] = FALSE]
  /\ UNCHANGED ctx
  /\ Finish(ses, active, backlog, [waits EXCEPT ![t] = {}], [req EXCEPT ![t] = None])
  /\ status' = [status EXCEPT ![t] = "dead"]
  /\ UNCHANGED <<callback>> /\ UNCHANGED host

(* What keeps a stopped thread: the context that its own callback keeps    *)
(* (HLERequestContext::thread), a wakeup on its way, the session that its  *)
(* request is in.                                                          *)
ThreadKept(t) ==
  \/ ctx[t] # None \/ worker[t] \/ tsq[t] \/ timer[t]
  \/ \E s \in Slots : ses[s].handling = t \/ t \in ToSet(ses[s].pending)

(* A new thread takes the place of one that is gone. *)
CreateThread(t) ==
  /\ status[t] = "dead" /\ ~ThreadKept(t)
  /\ status' = [status EXCEPT ![t] = "ready"]
  /\ callback' = [callback EXCEPT ![t] = "none"]
  /\ UNCHANGED <<ses, backlog, active, waits, ctx, req>> /\ UNCHANGED async

-----------------------------------------------------------------------------
ClientCall ==
  \E t \in Clients, s \in Slots :
    \/ \E p \in Ports : Connect(t, p, s)
    \/ SendSyncRequest(t, s) \/ HleRequest(t, s) \/ CloseClient(t, s)
    \/ \E deterministic \in BOOLEAN : RunAsync(t, s, deterministic)

ServerCall ==
  \E t \in Servers :
    \/ AcceptSession(t)
    \/ \E s \in Slots : CreateSession(t, s) \/ ReplyFails(t, s) \/ CloseServer(t, s)
    \/ \E objs \in SUBSET (Slots \cup {"lle"}), target \in Slots \cup {None} :
         ReplyAndReceive(t, objs, target)

Wakeup(t) == MoveEvents(t) \/ ThreadWakeupCallback(t)

Next ==
  \/ ClientCall \/ ServerCall
  \/ \E t \in Threads : SectionEnds(t) \/ Wakeup(t) \/ Stop(t) \/ CreateThread(t)

Spec == Init /\ [][Next]_vars

(* The cores advance.  Nothing says that an asynchronous section ends: the *)
(* ones of soc:U may block in accept, recv or poll.                        *)
FairSpec == Spec /\ \A t \in Threads : WF_vars(Wakeup(t))

-----------------------------------------------------------------------------
SessionType(x) ==
  /\ x.port \in Ports \cup {"none"}
  /\ {x.client, x.server, x.handle, x.hle, x.freed} \subseteq BOOLEAN
  /\ ToSet(x.pending) \subseteq Clients /\ x.handling \in Clients \cup {None}

(* Types; neither the sessions of a port nor the operations counted leave  *)
(* their bounds.                                                           *)
TypeOK ==
  /\ DOMAIN ses = Slots /\ \A s \in Slots : SessionType(ses[s])
  /\ ToSet(backlog) \subseteq Slots
  /\ active \in [Ports -> 0 .. MaxSessions]
  /\ status \in [Threads -> {"ready", "ipc", "sync", "hle", "dead"}]
  /\ waits \in [Threads -> SUBSET (Slots \cup {"lle"})]
  /\ callback \in [Threads -> {"none", "ipc", "async"}]
  /\ ctx \in [Threads -> Slots \cup {None}]
  /\ counter \in 0 .. Cardinality(Threads)
  /\ worker \in [Threads -> BOOLEAN] /\ tsq \in [Threads -> BOOLEAN] /\ timer \in [Threads -> BOOLEAN]
  /\ req \in [Threads -> Slots \cup {None, "hle"}]

(* The count of a port is that of the sessions whose server end something  *)
(* refers to, so that ConnectionClosed never finds zero: when a connection *)
(* that was never accepted, one closed at either end, or one closed while  *)
(* a request of it runs on another host thread, gives its place back with  *)
(* its last owner, no sooner and no later.                                 *)
SessionsCounted ==
  /\ \A s \in Slots : ses[s].server => Referenced(s, ses[s], backlog, waits, ctx)
  /\ \A p \in Ports : active[p] = Cardinality({s \in Slots : ses[s].server /\ ses[s].port = p})

(* Where the request of a thread is: in the list of a session, being       *)
(* handled, or answered and waiting for its wakeup.                        *)
Places(t) ==
  Cardinality(UNION {{s} \X {i \in DOMAIN ses[s].pending : ses[s].pending[i] = t} : s \in Slots})
  + Cardinality({s \in Slots : ses[s].handling = t})
  + (IF timer[t] THEN 1 ELSE 0)

(* A thread that waits for an answer is in one place, from which it will   *)
(* be resumed once, unless an end of its session went; a thread that       *)
(* runs or waits for something else is in none, so that a reply never      *)
(* resumes a thread from another wait.                                     *)
RequestInOnePlace ==
  \A t \in Threads :
    /\ status[t] = "ipc" => Places(t) = IF req[t] = None THEN 0 ELSE 1
    /\ status[t] \in {"ready", "sync"} => Places(t) = 0
    /\ status[t] = "hle" => Places(t) <= 1 /\ req[t] = None

(* Only threads in svcReplyAndReceive are in wait lists, of sessions that  *)
(* exist (the assertions of ResumeFromWait and of the wait lists), and     *)
(* such a thread sleeps only while none of its sessions has a request for  *)
(* it and none was closed, except for a request that the reply of another  *)
(* server thread has uncovered, which wakes nobody.                        *)
NoRequestSleptOver ==
  /\ \A t \in Threads :
       /\ (waits[t] # {}) <=> (status[t] = "sync")
       /\ status[t] = "sync" <=> callback[t] = "ipc" /\ status[t] # "dead"
  /\ \A s \in Slots :
       Waiters(s, waits) # {} => ses[s].server /\ (ShouldWait(ses[s]) \/ ses[s].freed)

(* The count that holds a save state back is the number of live threads in *)
(* RunAsync: it never misses an operation whose callback cannot be saved,  *)
(* and none that was stopped is counted for ever.                          *)
AsyncCounted ==
  counter = Cardinality({t \in Threads : callback[t] = "async" /\ status[t] # "dead"})

(* An asynchronous operation whose section has ended is over: its thread   *)
(* runs again, or was stopped.                                             *)
AsyncEnds ==
  \A t \in Threads :
    callback[t] = "async" /\ status[t] = "hle" /\ ~worker[t] ~> status[t] # "hle"

(* ServerSession::ShouldWait: "Wait if we have no pending requests, or if  *)
(* we're currently handling a request": nobody sleeps on a session that    *)
(* has a request and is free.                                              *)
SleepsOnlyIfShouldWait == \A s \in Slots : Waiters(s, waits) # {} => ShouldWait(ses[s])
=============================================================================
