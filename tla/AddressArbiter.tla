--------------------------- MODULE AddressArbiter ---------------------------
(***************************************************************************)
(* The address arbiter of the HLE kernel (address_arbiter.cpp) together    *)
(* with the part of Kernel::Thread it depends on: the thread status, the   *)
(* wakeup timer keyed by thread id, the wakeup callback, and the paths of  *)
(* thread.cpp that end a wait (ResumeFromWait, ThreadWakeupCallback, Stop).*)
(*                                                                         *)
(* A guest thread parks on an address; another thread signals the address. *)
(* The arbiter keeps its own list of parked threads, so the same fact is   *)
(* recorded twice, in the list and in the status of the thread, and every  *)
(* way out of a wait has to keep the two together.                         *)
(*                                                                         *)
(* The list waiting_threads is kept as the set of its members plus, for    *)
(* each member, the members that stood before it.  std::stable_partition   *)
(* never reorders two threads parked on one address, so this is all of the *)
(* order that any operation can see.  WaitThread erases a thread before it *)
(* appends it: the list has no duplicates to lose.                         *)
(*                                                                         *)
(* Which of the ready threads a core runs is left open here (the scheduler *)
(* has its own module); so is the object behind a WaitSynchronization.     *)
(***************************************************************************)
EXTENDS Integers, FiniteSets

CONSTANTS
  Threads,    \* guest threads
  Procs,      \* guest processes sharing the arbiter
  ProcOf,     \* owner_process of each thread
  Cores,      \* emulated cores
  CoreOf,     \* core_id of each thread
  Addrs,      \* arbitrated addresses
  NoAddr,     \* the wait_address 0 of a thread that never waited
  Prios,      \* thread priorities; a smaller number is a better priority
  MinWord,    \* least value of a memory word (INT32_MIN)
  MaxWord,    \* greatest value of a memory word (INT32_MAX)
  MaxSignal   \* bound on the count passed to ArbitrationType::Signal

ASSUME ArbiterAssumption ==
  /\ IsFiniteSet(Threads)
  /\ ProcOf \in [Threads -> Procs]
  /\ Cores \subseteq Nat /\ CoreOf \in [Threads -> Cores]
  /\ NoAddr \notin Addrs
  /\ Prios \subseteq Nat
  /\ MinWord \in Int /\ MaxWord \in Int /\ MinWord < MaxWord
  /\ MaxSignal \in Nat

VARIABLES
  status,     \* Thread::status
  prio,       \* Thread::current_priority
  waitAddr,   \* Thread::wait_address
  callback,   \* Thread::wakeup_callback: none, the arbiter's, or the SVC's
  timer,      \* ThreadWakeupEventType events scheduled for the thread
  waiting,    \* AddressArbiter::waiting_threads, as a set
  ahead,      \* ahead[t]: members that stood before t when t was appended
  mem         \* the arbitrated words of guest memory

vars == <<status, prio, waitAddr, callback, timer, waiting, ahead, mem>>

Words     == MinWord .. MaxWord
Status    == {"Running", "Ready", "WaitArb", "WaitSleep", "WaitSynchAny", "Dead"}
Parked    == {"WaitArb", "WaitSleep", "WaitSynchAny"}
Callbacks == {"none", "arbiter", "svc"}

TypeOK ==
  /\ status \in [Threads -> Status]
  /\ prio \in [Threads -> Prios]
  /\ waitAddr \in [Threads -> Addrs \cup {NoAddr}]
  /\ callback \in [Threads -> Callbacks]
  /\ timer \in [Threads -> Nat]
  /\ waiting \in SUBSET Threads
  /\ ahead \in [Threads -> SUBSET Threads]
  /\ mem \in [Addrs -> Words]

Init ==
  /\ status = [t \in Threads |-> "Ready"]
  /\ prio \in [Threads -> Prios]
  /\ waitAddr = [t \in Threads |-> NoAddr]
  /\ callback = [t \in Threads |-> "none"]
  /\ timer = [t \in Threads |-> 0]
  /\ waiting = {}
  /\ ahead = [t \in Threads |-> {}]
  /\ mem \in [Addrs -> Words]

-----------------------------------------------------------------------------
(* Leaving and entering a wait. *)

(* Thread::ResumeFromWait for every thread of S: a thread that is ready,   *)
(* running or dead is left alone; the others become ready, and lose their  *)
(* callback and the timeout of the wait they are leaving.                  *)
ResumeFromWait(S) ==
  LET R == {t \in S : status[t] \in Parked}
  IN  /\ status'   = [t \in Threads |-> IF t \in R THEN "Ready" ELSE status[t]]
      /\ callback' = [t \in Threads |-> IF t \in R THEN "none" ELSE callback[t]]
      /\ timer'    = [t \in Threads |-> IF t \in R THEN 0 ELSE timer[t]]

(* Thread::WakeAfterDelay: every value but -1 schedules one more event. *)
WakeAfterDelay(t, timed) ==
  timer' = [timer EXCEPT ![t] = IF timed THEN @ + 1 ELSE @]

(* AddressArbiter::WaitThread: erase, park, append. *)
WaitThread(t, a) ==
  /\ waitAddr' = [waitAddr EXCEPT ![t] = a]
  /\ status' = [status EXCEPT ![t] = "WaitArb"]
  /\ waiting' = waiting \cup {t}
  /\ ahead' = [u \in Threads |-> IF u = t THEN waiting \ {t}
                               ELSE IF u \in waiting THEN ahead[u] \ {t} ELSE {}]

(* Mutant: stale entries are not pruned. *)
PruneNothing == waiting

(* AddressArbiter::PruneStaleWaiters: what is left of the list. *)
PruneStaleWaiters == {t \in waiting : status[t] = "WaitArb"}

-----------------------------------------------------------------------------
(* AddressArbiter::ArbitrateAddress, one action per ArbitrationType. *)

(* ResumeAllThreads: every live member of the list parked on a. *)
ResumeAllThreads(a) ==
  LET S == {t \in PruneStaleWaiters : waitAddr[t] = a}
  IN  /\ ResumeFromWait(S)
      /\ waiting' = PruneStaleWaiters \ S

(* Mutant: the worst priority is resumed first. *)
WorstFirst(t, u) ==
  \/ prio[t] > prio[u]
  \/ prio[t] = prio[u] /\ t \in ahead[u]

(* t is resumed before u: better priority, then position in the list. *)
Before(t, u) ==
  \/ prio[t] < prio[u]
  \/ prio[t] = prio[u] /\ t \in ahead[u]

(* Mutant: list order only, priorities are ignored. *)
FirstWaiters(a, n) ==
  LET M == {t \in PruneStaleWaiters : waitAddr[t] = a}
  IN  {S \in SUBSET M :
         /\ Cardinality(S) = IF n < Cardinality(M) THEN n ELSE Cardinality(M)
         /\ \A t \in S, u \in M \ S : t \in ahead[u]}

(* The set of threads that n rounds of ResumeHighestPriorityThread pick:   *)
(* the n first of the threads parked on a, or all when there are fewer.    *)
(* (ClosedFormIsLoop: exactly one set satisfies this.)                     *)
BestWaiters(a, n) ==
  LET M == {t \in PruneStaleWaiters : waitAddr[t] = a}
  IN  {S \in SUBSET M :
         /\ Cardinality(S) = IF n < Cardinality(M) THEN n ELSE Cardinality(M)
         /\ \A t \in S, u \in M \ S : Before(t, u)}

(* std::min_element over the threads M: the first of the best priority. *)
MinElement(M) == CHOOSE t \in M : \A u \in M \ {t} : Before(t, u)

(* A round of ResumeHighestPriorityThread, when the rounds before it woke  *)
(* the threads S of M: it picks among the others, and wakes no thread when *)
(* none is left.                                                           *)
ResumeHighestPriorityThread(M, S) ==
  IF M \subseteq S THEN S ELSE S \cup {MinElement(M \ S)}

(* The loop of ArbitrationType::Signal over the threads M parked on the    *)
(* address, as the code writes it: what n rounds wake.                     *)
SignalLoop(M, n) ==
  LET woken[i \in 0 .. n] ==
        IF i = 0 THEN {} ELSE ResumeHighestPriorityThread(M, woken[i - 1])
  IN  woken[n]

(* n rounds of ResumeHighestPriorityThread.  With n = 0 the loop body      *)
(* never runs and the list is not even pruned.                             *)
ResumeHighestPriorityThreads(a, n) ==
  \E S \in BestWaiters(a, n) :
    /\ ResumeFromWait(S)
    /\ waiting' = IF n = 0 THEN waiting ELSE PruneStaleWaiters \ S

(* ArbitrationType::Signal: a negative value resumes every thread. *)
Signal(t, a, value) ==
  /\ status[t] = "Running"
  /\ IF value < 0 THEN ResumeAllThreads(a)
                  ELSE ResumeHighestPriorityThreads(a, value)
  /\ UNCHANGED <<prio, waitAddr, ahead, mem>>

(* WaitIfLessThan: no callback and no timeout. *)
WaitIfLessThan(t, a, value) ==
  /\ status[t] = "Running"
  /\ mem[a] < value
  /\ WaitThread(t, a)
  /\ UNCHANGED <<prio, callback, timer, mem>>

(* WaitIfLessThanWithTimeout: a timeout of -1 installs the callback only. *)
WaitIfLessThanWithTimeout(t, a, value, timed) ==
  /\ status[t] = "Running"
  /\ mem[a] < value
  /\ callback' = [callback EXCEPT ![t] = "arbiter"]
  /\ WakeAfterDelay(t, timed)
  /\ WaitThread(t, a)
  /\ UNCHANGED <<prio, mem>>

(* Write32(address, value - 1) in 32-bit two's complement. *)
Decrement(a) ==
  mem' = [mem EXCEPT ![a] = IF @ = MinWord THEN MaxWord ELSE @ - 1]

(* DecrementAndWaitIfLessThan: the word changes only if the thread waits. *)
DecrementAndWaitIfLessThan(t, a, value) ==
  /\ status[t] = "Running"
  /\ mem[a] < value
  /\ Decrement(a)
  /\ WaitThread(t, a)
  /\ UNCHANGED <<prio, callback, timer>>

DecrementAndWaitIfLessThanWithTimeout(t, a, value, timed) ==
  /\ status[t] = "Running"
  /\ mem[a] < value
  /\ Decrement(a)
  /\ callback' = [callback EXCEPT ![t] = "arbiter"]
  /\ WakeAfterDelay(t, timed)
  /\ WaitThread(t, a)
  /\ UNCHANGED prio

-----------------------------------------------------------------------------
(* The other waits of a thread, and the ways out of every wait. *)

(* SVC::SleepThread with a positive or zero delay. *)
SleepThread(t) ==
  /\ status[t] = "Running"
  /\ status' = [status EXCEPT ![t] = "WaitSleep"]
  /\ WakeAfterDelay(t, TRUE)
  /\ UNCHANGED <<prio, waitAddr, callback, waiting, ahead, mem>>

(* SVC::WaitSynchronization1 on an object that is not available. *)
WaitSynchronization1(t, timed) ==
  /\ status[t] = "Running"
  /\ status' = [status EXCEPT ![t] = "WaitSynchAny"]
  /\ callback' = [callback EXCEPT ![t] = "svc"]
  /\ WakeAfterDelay(t, timed)
  /\ UNCHANGED <<prio, waitAddr, waiting, ahead, mem>>

(* WaitObject::WakeupAllWaitingThreads reaches a thread in WaitSynchAny. *)
WakeupAllWaitingThreads(t) ==
  /\ status[t] = "WaitSynchAny"
  /\ ResumeFromWait({t})
  /\ UNCHANGED <<prio, waitAddr, waiting, ahead, mem>>

(* Mutant: the callback leaves the thread on the list. *)
TimeoutErasesNothing(t) == FALSE

(* AddressArbiter::WakeUp: the timeout callback erases the thread. *)
TimeoutErases(t) == status[t] = "WaitArb" /\ callback[t] = "arbiter"

(* ThreadManager::ThreadWakeupCallback: the event is popped, the callback  *)
(* runs if the thread waits, and the thread is resumed.  Stop removed a    *)
(* dead thread from wakeup_callback_table: the event is then dropped.      *)
ThreadWakeupCallback(t) ==
  /\ timer[t] > 0
  /\ IF status[t] \in Parked
     THEN /\ waiting' = IF TimeoutErases(t) THEN waiting \ {t} ELSE waiting
          /\ ResumeFromWait({t})
     ELSE /\ timer' = [timer EXCEPT ![t] = @ - 1]
          /\ UNCHANGED <<status, callback, waiting>>
  /\ UNCHANGED <<prio, waitAddr, ahead, mem>>

(* Thread::Stop for the threads of S: timers are cancelled, the callback is *)
(* deliberately kept, and the arbiter is not told.                          *)
Stop(S) ==
  /\ status' = [t \in Threads |-> IF t \in S THEN "Dead" ELSE status[t]]
  /\ timer' = [t \in Threads |-> IF t \in S THEN 0 ELSE timer[t]]
  /\ UNCHANGED <<prio, waitAddr, callback, waiting, ahead, mem>>

(* SVC::ExitThread. *)
ExitThread(t) ==
  /\ status[t] = "Running"
  /\ Stop({t})

(* KernelSystem::TerminateProcess, called by t, stops every thread of the   *)
(* process.  RunLoop would still run a thread it stopped on a later core,   *)
(* which KernelSync is about (runsOn): no such thread runs here.            *)
TerminateProcess(t, p) ==
  /\ status[t] = "Running"
  /\ \E u \in Threads : ProcOf[u] = p /\ status[u] # "Dead"
  /\ \A u \in Threads : ProcOf[u] = p /\ status[u] = "Running" => CoreOf[u] <= CoreOf[t]
  /\ Stop({u \in Threads : ProcOf[u] = p})

(* ThreadManager::SwitchContext: the thread that was running on the core   *)
(* goes back to the ready queue; the new one loses its wakeup events.      *)
SwitchContext(t) ==
  /\ status[t] = "Ready"
  /\ status' = [u \in Threads |->
                  IF u = t THEN "Running"
                  ELSE IF CoreOf[u] = CoreOf[t] /\ status[u] = "Running"
                       THEN "Ready" ELSE status[u]]
  /\ timer' = [timer EXCEPT ![t] = 0]
  /\ UNCHANGED <<prio, waitAddr, callback, waiting, ahead, mem>>

(* SVC::SetThreadPriority, or a change of the inherited priority. *)
SetThreadPriority(t, p) ==
  /\ status[t] # "Dead"
  /\ prio' = [prio EXCEPT ![t] = p]
  /\ UNCHANGED <<status, waitAddr, callback, timer, waiting, ahead, mem>>

(* A store of the guest program to an arbitrated word. *)
GuestWrite(t, a, v) ==
  /\ status[t] = "Running"
  /\ mem' = [mem EXCEPT ![a] = v]
  /\ UNCHANGED <<status, prio, waitAddr, callback, timer, waiting, ahead>>

-----------------------------------------------------------------------------
Wait(t) ==
  \E a \in Addrs, value \in Words :
    \/ WaitIfLessThan(t, a, value)
    \/ DecrementAndWaitIfLessThan(t, a, value)
    \/ \E timed \in BOOLEAN :
         \/ WaitIfLessThanWithTimeout(t, a, value, timed)
         \/ DecrementAndWaitIfLessThanWithTimeout(t, a, value, timed)

Next ==
  \/ \E t \in Threads :
       \/ Wait(t)
       \/ \E a \in Addrs, value \in -1 .. MaxSignal : Signal(t, a, value)
       \/ SleepThread(t)
       \/ \E timed \in BOOLEAN : WaitSynchronization1(t, timed)
       \/ WakeupAllWaitingThreads(t)
       \/ ThreadWakeupCallback(t)
       \/ ExitThread(t)
       \/ \E p \in Procs : TerminateProcess(t, p)
       \/ SwitchContext(t)
       \/ \E p \in Prios : SetThreadPriority(t, p)
       \/ \E a \in Addrs, v \in Words : GuestWrite(t, a, v)

Spec == Init /\ [][Next]_vars

-----------------------------------------------------------------------------
(* Properties. *)

(* Every thread whose status is WaitArb is in waiting_threads: whatever     *)
(* ended its earlier waits, a later signal can find it.                     *)
WaiterListed == \A t \in Threads : status[t] = "WaitArb" => t \in waiting

(* A member of waiting_threads is parked in WaitArb or was stopped: a live  *)
(* thread that left its wait early is never still listed (the zombie entry  *)
(* described in Thread::ResumeFromWait).                                    *)
NoZombieWaiter == \A t \in waiting : status[t] \in {"WaitArb", "Dead"}

(* A scheduled wakeup event belongs to the wait the thread is in now: there *)
(* is at most one, the thread is parked, and an arbiter wait with an event  *)
(* has the callback that takes the thread off the list.                     *)
TimerBelongsToWait ==
  \A t \in Threads :
    timer[t] > 0 => /\ timer[t] = 1
                    /\ status[t] \in Parked
                    /\ status[t] = "WaitArb" => callback[t] = "arbiter"

(* Threads, list and timers agree: what a wait of a thread put into any of  *)
(* the three is gone when the wait ends, however it ends, and there while   *)
(* it lasts.  A stopped thread alone may stay listed, until it is pruned.   *)
WaitsAgree == WaiterListed /\ NoZombieWaiter /\ TimerBelongsToWait

ParkedOn(a) == {t \in Threads : status[t] = "WaitArb" /\ waitAddr[t] = a}

(* A signal for n threads resumes n of the threads parked on the address,   *)
(* or all of them when fewer are parked (or n is negative): no wakeup is    *)
(* spent on a list entry that is not a parked thread.                       *)
SignalNotSwallowed ==
  [][\A t \in Threads, a \in Addrs, n \in -1 .. MaxSignal :
       Signal(t, a, n) =>
         LET N == Cardinality(ParkedOn(a))
         IN  Cardinality({u \in ParkedOn(a) : status'[u] = "Ready"})
               = IF n < 0 \/ N < n THEN N ELSE n]_vars

(* The closed form BestWaiters is the loop of ArbitrateAddress: in every    *)
(* state, for every address and count, one set of threads satisfies it, and *)
(* it is the set that round after round of the loop wakes.                  *)
ClosedFormIsLoop ==
  \A a \in Addrs, n \in 0 .. MaxSignal :
    LET M == {u \in PruneStaleWaiters : waitAddr[u] = a}
    IN  BestWaiters(a, n) = {SignalLoop(M, n)}

(* The arbiter implements the parking lot: ResumeFromWait, Stop and the     *)
(* wakeup timers end an arbiter wait only in the ways it allows.            *)
Lot == INSTANCE ParkingLot WITH
  parked <- [t \in Threads |-> IF status[t] = "WaitArb" THEN waitAddr[t] ELSE NoAddr],
  timed  <- [t \in Threads |-> status[t] = "WaitArb" /\ callback[t] = "arbiter"
                                                     /\ timer[t] > 0],
  level  <- prio,
  gone   <- {t \in Threads : status[t] = "Dead"}

ImplementsLot == Lot!Spec

=============================================================================
