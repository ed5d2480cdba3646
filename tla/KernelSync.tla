----------------------------- MODULE KernelSync -----------------------------
(***************************************************************************)
(* Threads, the scheduler and the synchronisation objects of the HLE       *)
(* kernel: thread.cpp, wait_object.cpp, mutex.cpp, semaphore.cpp,          *)
(* event.cpp, timer.cpp and the system calls of svc.cpp that drive them.   *)
(*                                                                         *)
(* The kernel is sequential: a system call or a timing event runs to its   *)
(* end before anything else does.  An action is therefore a whole handler, *)
(* and the calls a handler makes are composed as operators on the kernel   *)
(* state s, in the order the code makes them.  What is left to the order   *)
(* of actions is what the guest and the timing decide: which call comes    *)
(* next, when a timeout fires, when a core reschedules.                    *)
(*                                                                         *)
(* A failed ASSERT aborts the emulator: it sets s.crashed, and nothing     *)
(* happens after it.                                                       *)
(*                                                                         *)
(* A ready queue is a FIFO per priority level and the chain of the levels  *)
(* in use (ThreadQueueList), which the scheduler follows.                  *)
(***************************************************************************)
EXTENDS Integers, FiniteSets, SequencesExt, ThreadQueueList

CONSTANTS
  Threads, NoThread,
  ThreadOrder,       \* the threads in the order of thread_list (creation)
  Procs, ProcOf,     \* owner_process
  NumCores, CoreOf,  \* core_id
  Started,           \* threads that exist initially; the rest may be created
  Mutexes,
  MutexOrder,        \* the order of the held_mutexes set (addresses)
  Semaphores, MaxCount, InitCount,
  Events, Timers, ResetOf,
  Prios,             \* priority levels in use
  ThreadPrioLowest,  \* 63: the worst level, and the level of a mutex nobody waits for
  InitPrio,          \* priority of the started threads
  NewPrios,          \* priorities passed to SetThreadPriority and CreateThread
  HandleLists,       \* handle arrays passed to WaitSynchronizationN
  Releases,          \* counts passed to ReleaseSemaphore
  GuestFaults,       \* which of Faults the guest programs commit
  NoMagic,           \* threads reached by PROCESSOP_SCHEDULE_THREADS_WITHOUT_TLS_MAGIC
  MaxUsed,           \* bound on the threads that failed creations leave counted
  MaxLock,           \* bound on the recursion depth of a mutex
  MinWord, MaxWord   \* the range of an s32

(* Calls a guest should not make, which no code forbids: a thread that      *)
(* waits for its own end; a process terminated twice; a thread created at   *)
(* an invalid address; a process terminated while a later core has one of   *)
(* its threads to run.  A configuration lets them in one at a time.         *)
Faults == {"self_wait", "terminate_twice", "invalid_entry", "cross_core_stop"}

Objects == Mutexes \cup Semaphores \cup Events \cup Timers \cup Threads
Cores == 0 .. NumCores - 1

(* No value is twice in q. *)
Distinct(q) == \A i, j \in DOMAIN q : q[i] = q[j] => i = j

ASSUME KernelAssumption ==
  /\ ThreadOrder \in Seq(Threads) /\ ToSet(ThreadOrder) = Threads /\ Distinct(ThreadOrder)
  /\ MutexOrder \in Seq(Mutexes) /\ ToSet(MutexOrder) = Mutexes /\ Distinct(MutexOrder)
  /\ IsFiniteSet(Threads) /\ NumCores \in Nat
  /\ Mutexes \cap (Semaphores \cup Events \cup Timers \cup Threads) = {}
  /\ Semaphores \cap (Events \cup Timers \cup Threads) = {}
  /\ (Events \cup Timers) \cap Threads = {}
  /\ ProcOf \in [Threads -> Procs] /\ CoreOf \in [Threads -> Cores]
  /\ NoThread \notin Objects /\ Started \subseteq Threads /\ NoMagic \subseteq Threads
  /\ Prios \subseteq Nat /\ ThreadPrioLowest \in Prios
  /\ \A p \in Prios : p <= ThreadPrioLowest
  /\ InitPrio \in [Threads -> Prios] /\ NewPrios \subseteq Prios
  /\ MinWord \in Int /\ MaxWord \in Int /\ MaxCount \in Int /\ InitCount \in Int
  /\ MinWord < 0 /\ MaxWord >= MaxCount /\ MaxCount >= InitCount /\ InitCount >= MinWord
  /\ Releases \subseteq Int /\ MaxLock \in Nat
  /\ \A h \in HandleLists : h \in Seq(Objects)
  /\ GuestFaults \subseteq Faults
  /\ ResetOf \in [Events \cup Timers -> {"OneShot", "Sticky", "Pulse"}]

VARIABLE k     \* the kernel state, a record (see TypeOK)

(* The part of a list that is in S, in its order. *)
Keep(q, x, S) == IF x \in S THEN Append(q, x) ELSE q

Filter(q, S) ==
  LET part[i \in 0 .. Len(q)] == IF i = 0 THEN <<>> ELSE Keep(part[i - 1], q[i], S)
  IN  part[Len(q)]

(* The levels of a core after the started threads were created. *)
PrepareFor(l, t, c) == IF t \in Started /\ CoreOf[t] = c THEN Prepare(l, InitPrio[t]) ELSE l

FirstLevels(c) ==
  LET l[i \in 0 .. Len(ThreadOrder)] ==
        IF i = 0 THEN EmptyList(Prios) ELSE PrepareFor(l[i - 1], ThreadOrder[i], c)
  IN  l[Len(ThreadOrder)]

Status == {"Running", "Ready", "WaitSleep", "WaitSynchAny", "WaitSynchAll",
           "Dormant", "Dead"}
WaitSynch == {"WaitSynchAny", "WaitSynchAll"}

Init ==
  k = [status   |-> [t \in Threads |-> IF t \in Started THEN "Ready" ELSE "Dormant"],
       nominal  |-> InitPrio,
       prio     |-> InitPrio,
       canSched |-> [t \in Threads |-> TRUE],
       waitObjs |-> [t \in Threads |-> <<>>],
       held     |-> [t \in Threads |-> {}],
       pending  |-> [t \in Threads |-> {}],
       callback |-> [t \in Threads |-> FALSE],
       timer    |-> [t \in Threads |-> 0],
       cur      |-> [c \in Cores |-> NoThread],
       ready    |-> [c \in Cores |-> [p \in Prios |->
                       Filter(ThreadOrder, {t \in Started : CoreOf[t] = c /\ InitPrio[t] = p})]],
       levels   |-> [c \in Cores |-> FirstLevels(c)],
       waiters  |-> [o \in Objects |-> <<>>],
       lock     |-> [m \in Mutexes |-> 0],
       holder   |-> [m \in Mutexes |-> NoThread],
       mprio    |-> [m \in Mutexes |-> ThreadPrioLowest],
       count    |-> [x \in Semaphores |-> InitCount],
       signaled |-> [e \in Events \cup Timers |-> FALSE],
       armed    |-> [x \in Timers |-> 0],
       periodic |-> [x \in Timers |-> FALSE],
       used     |-> [p \in Procs |-> Cardinality({t \in Started : ProcOf[t] = p})],
       exited   |-> [p \in Procs |-> FALSE],
       runsOn   |-> {},
       crashed  |-> FALSE]

(* The order in which a set of mutexes of a thread is walked. *)
InOrder(S) == Filter(MutexOrder, S)

Asserted(s, P) == IF P THEN s ELSE [s EXCEPT !.crashed = TRUE]

-----------------------------------------------------------------------------
(* Priorities: thread.cpp and mutex.cpp. *)

PushBack(s, t) == [s EXCEPT !.ready[CoreOf[t]][s.prio[t]] = Append(@, t)]
Unqueue(s, t) == [s EXCEPT !.ready[CoreOf[t]][s.prio[t]] = Filter(@, Threads \ {t})]

PrepareLevel(s, t, p) == [s EXCEPT !.levels[CoreOf[t]] = Prepare(@, p)]

(* Mutant: the new level is linked for ready threads only. *)
BoostUnprepared(s, t, p) ==
  IF s.status[t] = "Ready"
  THEN PushBack([PrepareLevel(Unqueue(s, t), t, p) EXCEPT !.prio[t] = p], t)
  ELSE [s EXCEPT !.prio[t] = p]

(* Thread::BoostPriority: a ready thread moves to the back of the queue of  *)
(* the new level, even when that is the level it had.                       *)
BoostPriority(s, t, p) ==
  IF s.status[t] = "Ready"
  THEN PushBack([PrepareLevel(Unqueue(s, t), t, p) EXCEPT !.prio[t] = p], t)
  ELSE [PrepareLevel(s, t, p) EXCEPT !.prio[t] = p]

(* Thread::SetPriority. *)
SetPriority(s, t, p) == [BoostPriority(s, t, p) EXCEPT !.nominal[t] = p]

(* Thread::UpdatePriority: the best of the nominal priority and the         *)
(* priorities of the mutexes held.                                          *)
UpdatePriority(s, t) ==
  BoostPriority(s, t, Min({s.nominal[t]} \cup {s.mprio[m] : m \in s.held[t]}))

(* Mutex::UpdatePriority: the best priority of the waiting threads. *)
MutexUpdatePriority(s, m) ==
  LET best == Min({ThreadPrioLowest} \cup {s.prio[t] : t \in ToSet(s.waiters[m])})
  IN  IF s.holder[m] = NoThread \/ best = s.mprio[m] THEN s
      ELSE UpdatePriority([s EXCEPT !.mprio[m] = best], s.holder[m])

-----------------------------------------------------------------------------
(* Wait objects: ShouldWait, Acquire and the list of waiting threads. *)

ShouldWait(s, o, t) ==
  CASE o \in Mutexes         -> s.lock[o] > 0 /\ s.holder[o] # t
    [] o \in Semaphores      -> s.count[o] <= 0
    [] o \in Events \cup Timers -> ~s.signaled[o]
    [] o \in Threads         -> s.status[o] # "Dead"

(* Mutex::Acquire. *)
AcquireMutex(s, m, t) ==
  LET own == IF s.lock[m] > 0 THEN s
             ELSE UpdatePriority([s EXCEPT !.mprio[m] = s.prio[t],
                                           !.held[t] = @ \cup {m},
                                           !.holder[m] = t], t)
  IN  [own EXCEPT !.lock[m] = @ + 1]

(* Acquire of every kind of object; a semaphore does not assert. *)
Acquire(s, o, t) ==
  CASE o \in Mutexes    -> AcquireMutex(Asserted(s, ~ShouldWait(s, o, t)), o, t)
    [] o \in Semaphores -> [s EXCEPT !.count[o] = IF @ <= 0 THEN @ ELSE @ - 1]
    [] o \in Events \cup Timers ->
         [Asserted(s, ~ShouldWait(s, o, t)) EXCEPT
            !.signaled[o] = IF ResetOf[o] = "OneShot" THEN FALSE ELSE @]
    [] o \in Threads    -> Asserted(s, ~ShouldWait(s, o, t))

(* Acquire of all objects of a list, in order. *)
AcquireAll(s, objs, t) ==
  LET u[i \in 0 .. Len(objs)] == IF i = 0 THEN s ELSE Acquire(u[i - 1], objs[i], t)
  IN  u[Len(objs)]

(* Mutant: a new waiter does not raise the priority of the holder. *)
AddWithoutInheritance(s, o, t) ==
  LET u == IF Contains(s.waiters[o], t) THEN s
           ELSE [s EXCEPT !.waiters[o] = Append(@, t)]
  IN  IF o \in Mutexes THEN [u EXCEPT !.pending[t] = @ \cup {o}] ELSE u

(* WaitObject::AddWaitingThread and the override of Mutex. *)
AddWaitingThread(s, o, t) ==
  LET u == IF Contains(s.waiters[o], t) THEN s
           ELSE [s EXCEPT !.waiters[o] = Append(@, t)]
  IN  IF o \in Mutexes
      THEN MutexUpdatePriority([u EXCEPT !.pending[t] = @ \cup {o}], o)
      ELSE u

RemoveWaitingThread(s, o, t) ==
  LET u == [s EXCEPT !.waiters[o] = Filter(@, Threads \ {t})]
  IN  IF o \in Mutexes
      THEN MutexUpdatePriority([u EXCEPT !.pending[t] = @ \ {o}], o)
      ELSE u

(* Mutant: only the first object forgets the thread. *)
LeaveFirstObject(s, t) ==
  [(IF s.waitObjs[t] = <<>> THEN s ELSE RemoveWaitingThread(s, Head(s.waitObjs[t]), t))
     EXCEPT !.waitObjs[t] = <<>>]

(* Removes t from every object it waits for and forgets the list, as a      *)
(* wakeup, a timeout and Stop do.                                           *)
LeaveObjects(s, t) ==
  LET objs == s.waitObjs[t]
      u[i \in 0 .. Len(objs)] == IF i = 0 THEN s ELSE RemoveWaitingThread(u[i - 1], objs[i], t)
  IN  [u[Len(objs)] EXCEPT !.waitObjs[t] = <<>>]

(* Mutant: the timeout of the wait is left scheduled. *)
ResumeKeepsTimer(s, t) ==
  LET u == Asserted(s, s.waitObjs[t] = <<>>)
  IN  CASE s.status[t] \in {"Running", "Dead"} -> u
        [] s.status[t] = "Ready"               -> Asserted(u, ~s.callback[t])
        [] OTHER -> PushBack([u EXCEPT !.callback[t] = FALSE,
                                       !.status[t] = "Ready"], t)

(* Thread::ResumeFromWait. *)
ResumeFromWait(s, t) ==
  LET u == Asserted(s, s.waitObjs[t] = <<>>)
  IN  CASE s.status[t] \in {"Running", "Dead"} -> u
        [] s.status[t] = "Ready"               -> Asserted(u, ~s.callback[t])
        [] OTHER -> PushBack([u EXCEPT !.callback[t] = FALSE,
                                       !.timer[t] = 0,
                                       !.status[t] = "Ready"], t)

(* A waiting thread that o may wake: WaitSynchAll needs all its objects. *)
Wakeable(s, o, t) ==
  /\ ~ShouldWait(s, o, t)
  /\ s.status[t] = "WaitSynchAll" =>
       \A x \in ToSet(s.waitObjs[t]) : ~ShouldWait(s, x, t)

(* WaitObject::GetHighestPriorityReadyThread, the first of the best. *)
BestWaiter(s, o) ==
  LET w == s.waiters[o]
      I == {i \in DOMAIN w : Wakeable(s, o, w[i])}
  IN  IF I = {} THEN NoThread
      ELSE w[CHOOSE i \in I : \A j \in I :
               \/ s.prio[w[i]] < s.prio[w[j]]
               \/ s.prio[w[i]] = s.prio[w[j]] /\ i <= j]

(* The body of the loop of WakeupAllWaitingThreads for one thread. *)
WakeWaiter(s, o, t) ==
  LET got == IF s.status[t] = "WaitSynchAll" THEN AcquireAll(s, s.waitObjs[t], t)
                                             ELSE Acquire(s, o, t)
  IN  ResumeFromWait(LeaveObjects(got, t), t)

(* A turn of that loop: the search, which checks the status of the waiting  *)
(* threads, and the thread it finds.                                        *)
WakeTurn(s, o) ==
  LET u == Asserted(s, \A t \in ToSet(s.waiters[o]) : s.status[t] \in WaitSynch)
      t == BestWaiter(u, o)
  IN  IF u.crashed \/ t = NoThread THEN u ELSE WakeWaiter(u, o, t)

(* Mutant: one thread is woken. *)
WakeOnce(s, o) == WakeTurn(s, o)

(* WaitObject::WakeupAllWaitingThreads.  A turn takes a thread off the      *)
(* list, so that the loop has ended when there was one more turn than       *)
(* threads.                                                                 *)
WakeLoop(s, o) ==
  LET n == Len(s.waiters[o]) + 1
      u[i \in 0 .. n] == IF i = 0 THEN s ELSE WakeTurn(u[i - 1], o)
  IN  u[n]

(* The override of Event and Timer clears a pulse after the loop. *)
WakeupAllWaitingThreads(s, o) ==
  LET u == WakeLoop(s, o)
  IN  IF o \in Events \cup Timers /\ ResetOf[o] = "Pulse"
      THEN [u EXCEPT !.signaled[o] = FALSE] ELSE u

-----------------------------------------------------------------------------
(* The end of a thread. *)

(* Mutant: held_mutexes is not cleared. *)
ReleaseKeepsHeld(s, t) ==
  LET ms == InOrder(s.held[t])
      u[i \in 0 .. Len(ms)] ==
        IF i = 0 THEN s
        ELSE WakeupAllWaitingThreads(
               [u[i - 1] EXCEPT !.lock[ms[i]] = 0, !.holder[ms[i]] = NoThread], ms[i])
  IN  u[Len(ms)]

FreeMutex(s, m) ==
  WakeupAllWaitingThreads([s EXCEPT !.lock[m] = 0, !.holder[m] = NoThread], m)

(* ReleaseThreadMutexes: held_mutexes is cleared after the last wakeup. *)
ReleaseThreadMutexes(s, t) ==
  LET ms == InOrder(s.held[t])
      u[i \in 0 .. Len(ms)] == IF i = 0 THEN s ELSE FreeMutex(u[i - 1], ms[i])
  IN  [u[Len(ms)] EXCEPT !.held[t] = {}]

(* Mutant: the thread stays on the lists of the objects it waits for. *)
StopListed(s, t) ==
  LET u == IF s.status[t] = "Ready" THEN Unqueue(s, t) ELSE s
      dead == [u EXCEPT !.timer[t] = 0, !.status[t] = "Dead",
                        !.used[ProcOf[t]] = @ - 1]
  IN  ReleaseThreadMutexes(WakeupAllWaitingThreads(dead, t), t)

(* Mutant: the thread is not returned to the resource limit. *)
StopCounted(s, t) ==
  LET u == IF s.status[t] = "Ready" THEN Unqueue(s, t) ELSE s
      dead == [u EXCEPT !.timer[t] = 0, !.status[t] = "Dead"]
  IN  ReleaseThreadMutexes(LeaveObjects(WakeupAllWaitingThreads(dead, t), t), t)

(* Thread::Stop. *)
Stop(s, t) ==
  LET u == IF s.status[t] = "Ready" THEN Unqueue(s, t) ELSE s
      dead == [u EXCEPT !.timer[t] = 0, !.status[t] = "Dead",
                        !.used[ProcOf[t]] = @ - 1]
  IN  ReleaseThreadMutexes(LeaveObjects(WakeupAllWaitingThreads(dead, t), t), t)

(* ThreadManager::TerminateProcessThreads: the threads of thread_list, and  *)
(* the current thread last, which may have exited already on another core.  *)
TerminateProcessThreads(s, p, c) ==
  LET others == Filter(ThreadOrder, {t \in Threads :
                  /\ ProcOf[t] = p /\ CoreOf[t] = c /\ t # s.cur[c]
                  /\ s.status[t] \notin {"Dead", "Dormant"}})
      u[i \in 0 .. Len(others)] == IF i = 0 THEN s ELSE Stop(u[i - 1], others[i])
      all == u[Len(others)]
  IN  IF s.cur[c] # NoThread /\ ProcOf[s.cur[c]] = p THEN Stop(all, s.cur[c]) ELSE all

-----------------------------------------------------------------------------
(* System calls.  The caller is the thread that core c executes.  RunLoop   *)
(* runs the cores one after the other and reschedules them before and       *)
(* after, and Stop does not take a thread off its core: the cores of runsOn *)
(* still execute a thread that a call on an earlier core stopped.           *)

Caller(c) == k.cur[c]
Calls(c) == /\ ~k.crashed
            /\ Caller(c) # NoThread
            /\ \/ k.status[Caller(c)] = "Running"
               \/ k.status[Caller(c)] = "Dead" /\ c \in k.runsOn

Timeouts == {"zero", "timed", "forever"}

(* Going to sleep on objs: lists, status, timeout and callback. *)
Block(s, t, objs, how, timeout) ==
  LET u[i \in 0 .. Len(objs)] == IF i = 0 THEN [s EXCEPT !.status[t] = how]
                                 ELSE AddWaitingThread(u[i - 1], objs[i], t)
  IN  [u[Len(objs)] EXCEPT !.waitObjs[t] = objs,
                           !.timer[t] = IF timeout = "timed" THEN @ + 1 ELSE @,
                           !.callback[t] = TRUE]

(* A further recursive lock stays within the bound. *)
LockBound(t, objs) ==
  \A m \in Mutexes \cap ToSet(objs) : k.holder[m] = t => k.lock[m] < MaxLock

(* A handle of a thread exists once the thread was created. *)
Waitable(t, objs) ==
  \A u \in Threads \cap ToSet(objs) :
    k.status[u] # "Dormant" /\ (u = t => "self_wait" \in GuestFaults)

WaitSynchronization1(c, o, timeout) ==
  LET t == Caller(c)
  IN  /\ Calls(c) /\ LockBound(t, <<o>>) /\ Waitable(t, <<o>>)
      /\ k' = IF ~ShouldWait(k, o, t) THEN Acquire(k, o, t)
              ELSE IF timeout = "zero" THEN k
              ELSE Block(k, t, <<o>>, "WaitSynchAny", timeout)

WaitSynchronizationN(c, objs, waitAll, timeout) ==
  LET t == Caller(c)
      free == {i \in DOMAIN objs : ~ShouldWait(k, objs[i], t)}
  IN  /\ Calls(c) /\ LockBound(t, objs) /\ Waitable(t, objs)
      /\ k' = IF waitAll /\ free = DOMAIN objs THEN AcquireAll(k, objs, t)
              ELSE IF ~waitAll /\ free # {} THEN Acquire(k, objs[Min(free)], t)
              ELSE IF timeout = "zero" THEN k
              ELSE Block(k, t, objs, IF waitAll THEN "WaitSynchAll" ELSE "WaitSynchAny",
                         timeout)

(* Mutant: whoever calls releases the mutex. *)
ReleaseByAnyone(c, m) ==
  LET t == k.holder[m]
      free == UpdatePriority([k EXCEPT !.lock[m] = 0, !.held[t] = @ \ {m}], t)
  IN  /\ Calls(c)
      /\ k' = IF k.lock[m] <= 0 THEN k
              ELSE IF k.lock[m] > 1 THEN [k EXCEPT !.lock[m] = @ - 1]
              ELSE WakeupAllWaitingThreads([free EXCEPT !.holder[m] = NoThread], m)

(* Mutex::Release. *)
ReleaseMutex(c, m) ==
  LET t == Caller(c)
      free == UpdatePriority([k EXCEPT !.lock[m] = 0, !.held[t] = @ \ {m}], t)
  IN  /\ Calls(c)
      /\ k' = IF k.holder[m] # t \/ k.lock[m] <= 0 THEN k
              ELSE IF k.lock[m] > 1 THEN [k EXCEPT !.lock[m] = @ - 1]
              ELSE WakeupAllWaitingThreads([free EXCEPT !.holder[m] = NoThread], m)

(* The sum of two s32, which wraps around. *)
Add(a, b) == ((a + b - MinWord) % (MaxWord - MinWord + 1)) + MinWord

(* Mutant: a release that gives no slots wakes nobody. *)
ReleaseOfNone(c, x, n) ==
  /\ Calls(c)
  /\ k' = IF MaxCount < Add(n, k.count[x]) THEN k
          ELSE LET s == [k EXCEPT !.count[x] = Add(@, n)]
               IN  IF n > 0 THEN WakeupAllWaitingThreads(s, x) ELSE s

(* Semaphore::Release.  A negative count and a sum that wraps around pass   *)
(* the check.                                                               *)
ReleaseSemaphore(c, x, n) ==
  /\ Calls(c)
  /\ k' = IF MaxCount < Add(n, k.count[x]) THEN k
          ELSE WakeupAllWaitingThreads([k EXCEPT !.count[x] = Add(@, n)], x)

(* Event::Signal; the services of the HLE layer signal events as well. *)
SignalEvent(e) ==
  /\ ~k.crashed
  /\ k' = WakeupAllWaitingThreads([k EXCEPT !.signaled[e] = TRUE], e)

(* Event::Clear and Timer::Clear. *)
ClearObject(c, o) ==
  /\ Calls(c)
  /\ k' = [k EXCEPT !.signaled[o] = FALSE]

(* Timer::Signal: wake, then schedule the next period. *)
TimerSignal(s, x) ==
  LET u == WakeupAllWaitingThreads([s EXCEPT !.signaled[x] = TRUE], x)
  IN  IF s.periodic[x] THEN [u EXCEPT !.armed[x] = @ + 1] ELSE u

(* Timer::Set: cancel, then signal now or schedule. *)
SetTimer(c, x, initialZero, periodic) ==
  LET s == [k EXCEPT !.armed[x] = 0, !.periodic[x] = periodic]
  IN  /\ Calls(c)
      /\ k' = IF initialZero THEN TimerSignal(s, x) ELSE [s EXCEPT !.armed[x] = @ + 1]

CancelTimer(c, x) ==
  /\ Calls(c)
  /\ k' = [k EXCEPT !.armed[x] = 0]

(* The levels of core c that the scheduler sees, in the order it does: it   *)
(* follows the pointers from the first level on.                            *)
LevelsOf(s, c) ==
  LET l == s.levels[c]
      at[i \in 0 .. Cardinality(Prios)] ==
        IF i = 0 THEN l.first ELSE IF at[i - 1] \in Prios THEN l.next[at[i - 1]] ELSE Null
  IN  [i \in 1 .. Cardinality({i \in DOMAIN at : at[i] # Null}) |-> at[i - 1]]

(* SVC::SleepThread: a zero sleep with no other ready thread returns. *)
HaveReadyThreads(c) == \E p \in ToSet(LevelsOf(k, c)) : k.ready[c][p] # <<>>

SleepThread(c, timeout) ==
  LET t == Caller(c)
  IN  /\ Calls(c)
      /\ timeout = "zero" => HaveReadyThreads(c)
      /\ k' = [k EXCEPT !.status[t] = "WaitSleep",
                        !.timer[t] = IF timeout = "forever" THEN @ ELSE @ + 1]

ExitThread(c) ==
  /\ Calls(c)
  /\ k' = [Stop(k, Caller(c)) EXCEPT !.runsOn = @ \ {c}]

(* SVC::CreateThread reserves a thread of the resource limit before         *)
(* KernelSystem::CreateThread validates the entry point.  Reserve always    *)
(* returns true (resource_limit.cpp:44), so that its refusal never happens, *)
(* and a handle table that is full when the thread exists already leaves    *)
(* the thread as it is: it runs, and the guest has no handle of it.         *)
CreateThread(c, t, p, valid) ==
  LET reserved == [k EXCEPT !.used[ProcOf[t]] = @ + 1]
  IN  /\ Calls(c) /\ k.status[t] = "Dormant" /\ ProcOf[t] = ProcOf[Caller(c)]
      /\ ~valid => "invalid_entry" \in GuestFaults /\ k.used[ProcOf[t]] < MaxUsed
      /\ k' = IF ~valid THEN reserved
              ELSE PushBack([PrepareLevel(reserved, t, p) EXCEPT
                               !.status[t] = "Ready", !.nominal[t] = p, !.prio[t] = p], t)

PendingUpdated(s, t) ==
  LET ms == InOrder(s.pending[t])
      u[i \in 0 .. Len(ms)] == IF i = 0 THEN s ELSE MutexUpdatePriority(u[i - 1], ms[i])
  IN  u[Len(ms)]

(* Mutant: the inherited priority is overwritten. *)
SetPriorityOnly(c, t, p) ==
  /\ Calls(c) /\ k.status[t] # "Dormant"
  /\ k' = PendingUpdated(SetPriority(k, t, p), t)

(* SVC::SetThreadPriority: the mutexes it waits for learn of the change. *)
SetThreadPriority(c, t, p) ==
  /\ Calls(c) /\ k.status[t] # "Dormant"
  /\ k' = PendingUpdated(UpdatePriority(SetPriority(k, t, p), t), t)

(* PROCESSOP_SCHEDULE_THREADS_WITHOUT_TLS_MAGIC: all but the caller. *)
ScheduleThreads(c, p, allow) ==
  LET S == {t \in NoMagic : ProcOf[t] = p /\ t # Caller(c)
                            /\ k.status[t] \notin {"Dead", "Dormant"}}
  IN  /\ Calls(c)
      /\ k' = [k EXCEPT !.canSched = [t \in Threads |-> IF t \in S THEN allow ELSE @[t]]]

(* KernelSystem::TerminateProcess, core by core. *)
TerminateProcess(c, p) ==
  LET later == {d \in Cores : /\ d > c /\ k.cur[d] # NoThread
                              /\ ProcOf[k.cur[d]] = p
                              /\ k.status[k.cur[d]] = "Running"}
      exits == [k EXCEPT !.exited[p] = TRUE, !.runsOn = (@ \cup later) \ {c}]
      u[i \in 0 .. NumCores] ==
        IF i = 0 THEN exits ELSE TerminateProcessThreads(u[i - 1], p, i - 1)
  IN  /\ Calls(c)
      /\ k.exited[p] => "terminate_twice" \in GuestFaults
      /\ later # {} => "cross_core_stop" \in GuestFaults
      /\ k' = IF k.exited[p] THEN Asserted(k, FALSE)
              ELSE u[NumCores]

-----------------------------------------------------------------------------
(* Timing events and the scheduler. *)

(* Mutant: only a thread that waits for objects is resumed. *)
WakeupSkipsSleepers(t) ==
  LET s == [k EXCEPT !.timer[t] = @ - 1]
  IN  /\ ~k.crashed /\ k.timer[t] > 0
      /\ k' = IF k.status[t] \in WaitSynch THEN ResumeFromWait(LeaveObjects(s, t), t)
              ELSE s

(* ThreadManager::ThreadWakeupCallback: the event was popped. *)
ThreadWakeupCallback(t) ==
  LET s == [k EXCEPT !.timer[t] = @ - 1]
  IN  /\ ~k.crashed /\ k.timer[t] > 0
      /\ k' = IF k.status[t] = "Dead" THEN s
              ELSE ResumeFromWait(IF k.status[t] \in WaitSynch
                                  THEN LeaveObjects(s, t) ELSE s, t)

(* TimerManager::TimerCallback. *)
TimerCallback(x) ==
  /\ ~k.crashed /\ k.armed[x] > 0
  /\ k' = TimerSignal([k EXCEPT !.armed[x] = @ - 1], x)

(* The positions in q of the threads that may be scheduled. *)
Schedulable(s, q) == {j \in DOMAIN q : s.canSched[q[j]]}

(* Mutant: a running thread is never preempted. *)
SearchedWithoutPreemption(s, c) ==
  LET t == s.cur[c]
  IN  IF t # NoThread /\ s.status[t] = "Running" THEN <<>> ELSE LevelsOf(s, c)

(* The levels a search visits: next to a running thread only the better     *)
(* ones (pop_first_better).                                                 *)
Searched(s, c) ==
  LET all == LevelsOf(s, c)
      t == s.cur[c]
      worse == {i \in DOMAIN all : all[i] >= s.prio[t]}
  IN  IF t = NoThread \/ s.status[t] # "Running" \/ worse = {} THEN all
      ELSE SubSeq(all, 1, Min(worse) - 1)

(* The queue q of level p after a search of levels that ended at the        *)
(* positions found, if any: the threads before the one that may be          *)
(* scheduled were popped on the way and pushed back, the last popped first, *)
(* to the level they came from, which is that of their current priority.    *)
Popped(s, q, p, levels, found) ==
  IF \E i \in DOMAIN levels : levels[i] = p /\ \A f \in found : i < f THEN Reverse(q)
  ELSE IF found # {} /\ p = levels[Min(found)]
    THEN LET j == Min(Schedulable(s, q)) IN SubSeq(q, j + 1, Len(q)) \o Reverse(SubSeq(q, 1, j - 1))
  ELSE q

(* The first thread of q that may be scheduled. *)
FirstOf(s, q) == q[Min(Schedulable(s, q))]

PopFound(s, c, levels, found) ==
  LET t == s.cur[c]
      runs == t # NoThread /\ s.status[t] = "Running"
  IN  [next  |-> IF found # {} THEN FirstOf(s, s.ready[c][levels[Min(found)]])
                 ELSE IF runs THEN t ELSE NoThread,
       state |-> Asserted([s EXCEPT !.ready[c] = [p \in Prios |-> Popped(s, @[p], p, levels, found)]],
                          runs /\ found = {} => levels # LevelsOf(s, c))]

(* ThreadManager::PopNextReadyThread.  A search next to a running thread    *)
(* that meets no worse level ends in a read through the null pointer.       *)
PopNextReadyThread(s, c) ==
  LET levels == Searched(s, c)
  IN  PopFound(s, c, levels,
               {i \in DOMAIN levels : Schedulable(s, s.ready[c][levels[i]]) # {}})

(* Mutant: the thread that leaves the core is queued whatever its status. *)
SwitchRequeues(s, c, next) ==
  LET t == s.cur[c]
      u == IF t # NoThread
           THEN [s EXCEPT !.ready[c][s.prio[t]] = <<t>> \o @, !.status[t] = "Ready"]
           ELSE s
  IN  IF next = NoThread THEN [u EXCEPT !.cur[c] = NoThread, !.runsOn = @ \ {c}]
      ELSE [Unqueue(Asserted(u, u.status[next] = "Ready"), next) EXCEPT
              !.timer[next] = 0, !.cur[c] = next, !.status[next] = "Running",
              !.runsOn = @ \ {c}]

(* ThreadManager::SwitchContext. *)
SwitchContext(s, c, next) ==
  LET t == s.cur[c]
      u == IF t # NoThread /\ s.status[t] = "Running"
           THEN [s EXCEPT !.ready[c][s.prio[t]] = <<t>> \o @, !.status[t] = "Ready"]
           ELSE s
  IN  IF next = NoThread THEN [u EXCEPT !.cur[c] = NoThread, !.runsOn = @ \ {c}]
      ELSE [Unqueue(Asserted(u, u.status[next] = "Ready"), next) EXCEPT
              !.timer[next] = 0, !.cur[c] = next, !.status[next] = "Running",
              !.runsOn = @ \ {c}]

(* ThreadManager::Reschedule. *)
Rescheduled(s, c) ==
  LET pop == PopNextReadyThread(s, c)
  IN  SwitchContext(pop.state, c, pop.next)

Reschedule(c) ==
  /\ ~k.crashed
  /\ k' = Rescheduled(k, c)

-----------------------------------------------------------------------------
WaitCall(c) ==
  \E timeout \in Timeouts :
    \/ \E o \in Objects : WaitSynchronization1(c, o, timeout)
    \/ \E h \in HandleLists, all \in BOOLEAN : WaitSynchronizationN(c, h, all, timeout)
    \/ SleepThread(c, timeout)

ObjectCall(c) ==
  \/ \E m \in Mutexes : ReleaseMutex(c, m)
  \/ \E x \in Semaphores, n \in Releases : ReleaseSemaphore(c, x, n)
  \/ \E o \in Events \cup Timers : ClearObject(c, o)
  \/ \E x \in Timers : \/ \E zero, periodic \in BOOLEAN : SetTimer(c, x, zero, periodic)
                       \/ CancelTimer(c, x)

ThreadCall(c) ==
  \/ ExitThread(c)
  \/ \E t \in Threads, p \in NewPrios :
       \/ \E valid \in BOOLEAN : CreateThread(c, t, p, valid)
       \/ SetThreadPriority(c, t, p)
  \/ \E p \in Procs : \/ TerminateProcess(c, p)
                      \/ \E allow \in BOOLEAN : ScheduleThreads(c, p, allow)

Next ==
  \/ \E c \in Cores : \/ WaitCall(c)
                      \/ ObjectCall(c)
                      \/ ThreadCall(c)
                      \/ Reschedule(c)
  \/ \E e \in Events : SignalEvent(e)
  \/ \E t \in Threads : ThreadWakeupCallback(t)
  \/ \E x \in Timers : TimerCallback(x)

Spec == Init /\ [][Next]_k

(* Timing::Timer::Advance runs on every slice and dispatches every event    *)
(* that is due, so a scheduled wakeup event fires.                          *)
FairSpec == Spec /\ \A t \in Threads : WF_k(ThreadWakeupCallback(t))

-----------------------------------------------------------------------------
(* Properties. *)

Live == {t \in Threads : k.status[t] \notin {"Dormant", "Dead"}}
Asleep == {t \in Threads : k.status[t] \in WaitSynch}

(* The kernel state has the shape Init gives it. *)
TypeOK ==
  /\ k.status \in [Threads -> Status]
  /\ k.nominal \in [Threads -> Prios] /\ k.prio \in [Threads -> Prios]
  /\ k.canSched \in [Threads -> BOOLEAN] /\ k.callback \in [Threads -> BOOLEAN]
  /\ \A t \in Threads : /\ ToSet(k.waitObjs[t]) \subseteq Objects
                         /\ k.held[t] \subseteq Mutexes /\ k.pending[t] \subseteq Mutexes
                         /\ k.timer[t] \in Nat
  /\ k.cur \in [Cores -> Threads \cup {NoThread}]
  /\ k.levels \in [Cores -> Lists(Prios)]
  /\ \A o \in Objects : ToSet(k.waiters[o]) \subseteq Threads
  /\ k.lock \in [Mutexes -> Nat] /\ k.holder \in [Mutexes -> Threads \cup {NoThread}]
  /\ k.mprio \in [Mutexes -> Prios]
  /\ k.count \in [Semaphores -> MinWord .. MaxWord]
  /\ k.signaled \in [Events \cup Timers -> BOOLEAN]
  /\ k.exited \in [Procs -> BOOLEAN] /\ k.runsOn \subseteq Cores
  /\ k.crashed \in BOOLEAN

(* No ASSERT of the kernel ever fails: no object is acquired while it is    *)
(* unavailable, no list of waiting threads holds a thread that does not     *)
(* wait, no thread resumes with wait objects or with a second callback, and *)
(* only a ready thread is switched to; and no search of a ready queue       *)
(* follows a null pointer.                                                  *)
NoAssertFails == ~k.crashed

(* The two sides of a wait agree: a thread is in the list of an object,     *)
(* once, exactly when it sleeps on that object, and its pending mutexes     *)
(* are the mutexes among its wait objects.                                  *)
WaitListsAgree ==
  /\ \A o \in Objects : Len(k.waiters[o]) = Cardinality(ToSet(k.waiters[o]))
  /\ \A t \in Threads, o \in Objects :
       Contains(k.waiters[o], t) <=> t \in Asleep /\ Contains(k.waitObjs[t], o)
  /\ \A t \in Threads : k.pending[t] = Mutexes \cap ToSet(k.waitObjs[t])

(* No lost wakeup: between two handlers nobody sleeps on objects that would *)
(* let it go on.  A thread in WaitSynchAny waits only while every object is *)
(* unavailable to it, a thread in WaitSynchAll while some object is.        *)
NoLostWakeup ==
  \A t \in Asleep :
    LET objs == ToSet(k.waitObjs[t])
    IN  IF k.status[t] = "WaitSynchAny" THEN \A o \in objs : ShouldWait(k, o, t)
        ELSE \E o \in objs : ShouldWait(k, o, t)

(* holding_thread, lock_count and held_mutexes tell one story, and a thread *)
(* that ended holds nothing: no mutex is locked for ever by the dead.       *)
MutexOwnership ==
  \A m \in Mutexes :
    /\ k.lock[m] > 0 <=> k.holder[m] # NoThread
    /\ \A t \in Threads : m \in k.held[t] <=> k.holder[m] = t
    /\ k.holder[m] # NoThread => k.holder[m] \in Live

(* The current priority of a live thread is the best of its nominal one and *)
(* the priorities of the mutexes it holds, after any sequence of locking,   *)
(* waiting, timing out, stopping and SetThreadPriority.                     *)
InheritedPriority ==
  \A t \in Live :
    k.prio[t] = Min({k.nominal[t]} \cup {k.mprio[m] : m \in k.held[t]})

(* Priority inheritance over one mutex: a thread that waits for a mutex and *)
(* holds none itself never waits for a holder of worse priority.            *)
NoDirectInversion ==
  \A m \in Mutexes : \A t \in ToSet(k.waiters[m]) :
    (k.status[t] = "WaitSynchAny" /\ k.held[t] = {} /\ k.holder[m] # NoThread)
      => k.prio[k.holder[m]] <= k.prio[t]

(* The ready queue of a core is exactly its ready threads, each of them     *)
(* once and on the level of its current priority.  The levels that the      *)
(* scheduler walks are in order and hold every thread it may have to find:  *)
(* a thread never gets a priority, inherited or set, whose level            *)
(* thread_queue_list.h has not linked, where it would be ready for ever     *)
(* without being seen.                                                      *)
ReadyQueueExact ==
  \A c \in Cores :
    /\ \A p \in Prios :
         /\ ToSet(k.ready[c][p]) = {t \in Threads : /\ k.status[t] = "Ready"
                                                   /\ CoreOf[t] = c /\ k.prio[t] = p}
         /\ Len(k.ready[c][p]) = Cardinality(ToSet(k.ready[c][p]))
    /\ ChainInOrder(k.levels[c])
    /\ \A t \in Threads : (k.status[t] # "Dormant" /\ CoreOf[t] = c)
                            => k.prio[t] \in ToSet(LevelsOf(k, c))

(* A thread that does not wait has no timeout scheduled and no callback     *)
(* installed, and a waiting thread has at most one timeout: nothing of an   *)
(* earlier wait can end a later one.                                        *)
NothingLeftOfAWait ==
  \A t \in Threads :
    /\ k.timer[t] <= 1
    /\ k.status[t] \in {"Ready", "Running"} => k.timer[t] = 0 /\ ~k.callback[t]
    /\ k.status[t] = "Dead" => k.timer[t] = 0

(* A thread that was stopped or has exited never runs or waits again: no    *)
(* timeout, wakeup, hand-over of a mutex or reschedule of the core it was   *)
(* current on brings it back.                                               *)
DeadStayDead ==
  [][\A t \in Threads : k.status[t] = "Dead" => k'.status[t] = "Dead"]_k

(* A locked mutex leaves its holder only when the holder itself undoes its  *)
(* last lock, or ends: no wakeup, timeout or wait of another thread, for    *)
(* one or for all of several objects, takes it away.                        *)
OnlyHolderReleases ==
  [][\A m \in Mutexes, t \in Threads :
       k.holder[m] = t /\ k'.holder[m] # t =>
         \/ k'.status[t] = "Dead"
         \/ k.lock[m] = 1 /\ \E c \in Cores : Caller(c) = t /\ ReleaseMutex(c, m)]_k

(* What the resource limit counts for p beyond the threads p has. *)
Drift(s, p) ==
  s.used[p] - Cardinality({t \in Threads : s.status[t] \notin {"Dormant", "Dead"} /\ ProcOf[t] = p})

(* The thread count of a resource limit moves away from the threads of the  *)
(* process in two ways only: a creation that fails after Reserve, and a     *)
(* process that ends while a thread of it that has exited is still the      *)
(* current thread of some core and is stopped again.  Every other end of a  *)
(* thread, on any core and from any state, gives back what it took, once.   *)
ThreadCountKept ==
  [][\/ \A p \in Procs : Drift(k', p) = Drift(k, p)
     \/ \E c \in Cores, t \in Threads, p \in NewPrios : CreateThread(c, t, p, FALSE)
     \/ \E c, d \in Cores, p \in Procs :
          /\ TerminateProcess(c, p)
          /\ k.cur[d] # NoThread /\ ProcOf[k.cur[d]] = p /\ k.status[k.cur[d]] = "Dead"]_k

(* In state s core c runs its best thread and its queue is complete. *)
RunsBest(s, c) ==
  LET R == {u \in Threads : s.status[u] = "Ready" /\ CoreOf[u] = c}
  IN  /\ IF s.cur[c] = NoThread THEN \A u \in R : ~s.canSched[u]
         ELSE \A u \in R : s.canSched[u] => s.prio[s.cur[c]] <= s.prio[u]
      /\ R = UNION {ToSet(s.ready[c][p]) : p \in Prios}

(* Whenever a core reschedules, no ready thread that may be scheduled has a *)
(* better priority than the one it then runs, it idles only without one,    *)
(* and a thread that was kept from running is not lost.                     *)
BestThreadRuns ==
  ~k.crashed => \A c \in Cores : RunsBest(Rescheduled(k, c), c)

(* A wait or a sleep with a timeout ends. *)
TimedWaitEnds ==
  \A t \in Threads : k.timer[t] > 0 ~> k.status[t] \in {"Ready", "Running", "Dead"}

=============================================================================
