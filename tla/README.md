# A TLA+ verification of Cytrus

Cytrus is the Nintendo 3DS emulation core of Folium and Delta: a fork of Citra
and Azahar with an iOS frontend. This directory holds TLA+ modules for the parts
of it where the order of events decides whether the program is right: the
threads, synchronisation objects, sessions and handles of the emulated kernel,
its address arbiter, the timing of the emulated cores, and save states, from the
request of the frontend to the file on disk. TLC checks them on small instances,
and TLAPS proves the central invariants for all instances.

## 1. Inventory

| component | state | operations | talks to |
|---|---|---|---|
| Threads and scheduler (`thread.cpp`) | status, nominal and current priority, wait objects, held and pending mutexes, wakeup callback, one ready queue and current thread per core | create, stop, resume, set / update / boost priority, reschedule, wakeup event | wait objects (lists), core timing (wakeup events), resource limit |
| Ready queue (`thread_queue_list.h`) | a queue per priority; the levels in use, chained | prepare, push, move, remove, pop the first or the first better | scheduler |
| Synchronisation objects (`wait_object.cpp`, `mutex.cpp`, `semaphore.cpp`, `event.cpp`, `timer.cpp`) | list of waiting threads; owner and lock count; count; signalled flag; period | ShouldWait, Acquire, Release, Signal, Clear, Set, Cancel, WakeupAllWaitingThreads | threads, mutually recursive through priorities |
| Address arbiter (`address_arbiter.cpp`) | its own list of parked threads | five arbitration types, timeout callback | threads, guest memory |
| Sessions and ports (`client_*.cpp`, `server_*.cpp`, `session.cpp`) | requests that wait, the one being handled, sessions not yet accepted, sessions of a port | connect, accept, request, reply and receive, close at either end | threads, HLE services |
| HLE framework (`hle_ipc.cpp`, `service.cpp`) | asynchronous operations and their count | put a client to sleep, run asynchronously, abandon | threads, core timing, save-state requests |
| Handle table (`handle_table.cpp`), handle translation (`ipc.cpp`, `hle_ipc.cpp`) | objects, generations, free list | create, duplicate, close, clear; copy and move in a command buffer | all kernel objects |
| System calls (`svc.cpp`) | none | validate, wait, wake, reschedule | all kernel objects |
| Processes, resource limits (`process.cpp`, `resource_limit.cpp`) | process status, counters | terminate, reserve, release | threads of all cores |
| Core timing (`core_timing.cpp`, the loop of `core.cpp`) | clock, slice and event queue per core, thread-safe queues | schedule, unschedule, advance, slice, idle, serialise | every component with a timeout |
| Core run loop (`core.cpp`) | signal slot, pending request, cancel latch, mirror, executing flag, callback, outcome latch | RunLoop, SendSignal, CancelPendingSaveStateOperation, SetSaveStateCallback, NotifySaveStateResult | frontend thread (mutexes, atomics), kernel (pending asynchronous operations) |
| iOS loop (`CytrusEmulator.mm`) | `stop_run`, `pause_emulation`, pause condition variable | insert, pause, stop, load, save, cancel | core run loop |
| Save-state files (`savestate.cpp`) | scratch and final file per title and slot | save, validate, load, list | file system |
| Services, video, audio, network, CPU cores, loaders, file systems, frontend | | | not modelled: mostly data transformation and I/O |

What is hard: the kernel itself is sequential (a system call or timing event
runs to its end), but guests choose any sequence of calls, timeouts fire at any
moment between them, and the same fact is recorded in several places (status of
a thread, list of the object, list of the arbiter, ready queue, timer queue,
inherited priority). Requests, handles and events outlive the threads that made
them. The save-state path is truly concurrent (two host threads, two mutexes and
several relaxed atomics), asynchronous sections of services run on host threads
of their own, and a save may be killed at any byte. `PROJECT.json` lists each
hazard at its line, with the properties that watch it.

What makes each component correct:

- *arbiter*: the list and the thread status agree; no signal is spent on an
  entry that is no longer parked; a timeout never ends a later wait;
- *threads and objects*: no assertion fails; both sides of a wait agree; nobody
  sleeps on something available; mutex ownership is consistent and does not
  survive its owner; the inherited priority is exact; the ready queues are the
  ready threads, on levels the scheduler visits; a core runs the best thread; a
  mutex leaves its holder by its own doing only; the dead stay dead; a thread
  gives its place in the resource limit back once; a timed wait ends;
- *handles*: the free list is exact; a handle finds the object it was made for
  or nothing; an object is not lost on its way to another process;
- *sessions*: a request is in one place, from which it is answered once; no
  server sleeps while it has work; the count of a port is that of its sessions,
  and a session that nothing owns is gone;
- *asynchronous operations*: the count that holds a save state back is exact,
  also when threads are stopped, and an operation whose host section ended is
  given back;
- *core timing*: no slice is empty and none runs past an event of its core; no
  event is forgotten; the cores stay together; a load leaves the input armed
  once, on a timer that runs;
- *save-state requests*: every request ends in exactly one report, delivered at
  most once, that says the truth; a cancel never hits another request; a stop
  ends the session;
- *save-state files*: a save happens at once or not at all, and a completed one
  survives every failure of the next; only a whole file of the right title and
  build is loaded, and a load gives what was saved.

## 2. Modules

| module | models | extends |
|---|---|---|
| `ParkingLot` | abstract promise of an address arbiter | |
| `AddressArbiter` | `address_arbiter.cpp` and the waits of `thread.cpp` | |
| `ThreadQueueList` | the chain of levels of `thread_queue_list.h` | |
| `KernelSync` | threads, scheduler, mutexes, semaphores, events, timers, system calls | `ThreadQueueList`, SequencesExt |
| `HandleTable` | `handle_table.cpp`, the translation of handles in messages | |
| `Sessions` | ports, sessions, server threads, HLE requests, asynchronous operations | SequencesExt |
| `CoreTiming` | `core_timing.cpp` and the slices of `System::RunLoop` | SequencesExt |
| `SaveStateRequest` | the requests of `System::RunLoop`, the signal and callback API, the iOS loop | |
| `SlotStore` | abstract promise of the save slots | |
| `SaveStateFile` | `System::SaveState`, `LoadState`, `ListSaveStates` | |
| `...Proofs` | theorems on the arbiter, the ready queue, the kernel, handles, sessions, timing, requests and files | the module, TLAPS |
| `MC...` | instances for TLC | |

Definitions marked *Mutant* are plausible bugs of the definition that follows
them. No specification uses them: substituted for that definition one at a time,
they show that the property named in `PROJECT.json` notices the bug.

### AddressArbiter

`waiting` and `ahead` are `waiting_threads`: the members, and for each member
the ones that stood before it, which is all of the order that
`std::stable_partition` lets an operation see. `timer[t]` counts the wakeup
events of a thread, because the code keys them by thread id and nothing in the
data structure prevents two. Each `ArbitrationType` is an action; so are the
other waits of a thread, which share its status, timer and callback.
`TerminateProcess` excludes the case of a thread that a later core still runs
(see `runsOn` below). A signal for `n` threads takes a set of `BestWaiters`, a
closed form; `SignalLoop` is the loop as the code writes it, and
`ClosedFormIsLoop` says that the two agree.

`ParkingLot` has no list: threads are parked or not, and leave by a signal (best
priority first), their own timeout or being stopped. `Lot` is the refinement
mapping: a thread is parked where its `wait_address` says while its status is
`WaitArb`. The state of a thread that no longer waits (a stale list entry, an
old `wait_address`) is invisible to it, which is exactly what has to be shown.

### ThreadQueueList and KernelSync

`ThreadQueueList` has the pointers of the ready queue: `first`, and for each
level the next level in use, with the two special values of the code. The
threads on the levels are in `KernelSync`.

The state of `KernelSync` is one record `k`. A handler is an operator from kernel
state to kernel state, and the calls it makes are composed in the order of the
code, so the intermediate states in which the code would assert are met as the
code meets them; a failed `ASSERT` sets `crashed`, after which nothing happens.
(`ASSERT` is compiled into release builds; `DEBUG_ASSERT` is not, and is left
out.) So does the null pointer that `pop_first_better` follows when it looks for
a level that was never linked. `Calls(c)`: the thread that core `c` executes
makes a system call. `runsOn` is the set of cores that still execute a thread
which an earlier core stopped, because `RunLoop` reschedules before and after it
runs the cores and not between.

A loop of the code over a list is a recursive function over its positions
(`u[i]` is the state after `i` rounds). The loop that wakes the waiting threads
of an object ends when nobody is left whom it may wake: `WakeLoop` makes as many
rounds as threads wait and one more, each of which wakes the best one it may wake
or, from some round on, nobody.
`PopNextReadyThread` is in closed form: the scheduler pops threads it may not
schedule until it meets one that it may, or the level of the running thread, and
pushes the popped ones back, the last one first; what that leaves of the levels
is `Popped`. `Searched` are the levels that the search visits.

`GuestFaults` names four things a guest program should not do although no code
prevents it: waiting for its own end, terminating a process twice, creating a
thread at an invalid address, terminating a process while a later core has one
of its threads to run. `kernel_objects` and `kernel_cores` admit the failed
creation. No run admits the others: the first two end at once in a failed
assertion of the kernel, and what the last one does is recorded in section 3. A
fifth one is in `HandleLists`: with an array that names a one-shot event twice,
`WaitSynchronizationN` for all of them acquires the event a second time and the
assertion of `Event::Acquire` fails. The arrays of the runs are without
repetition.

`CreateThread` has no refusal by the resource limit: `ResourceLimit::Reserve`
only logs that the limit is exceeded and returns true (`resource_limit.cpp:44`).
A creation fails after it, for an invalid entry point, or in the handle table,
which leaves a thread that runs without a handle; that is the thread of a
creation that succeeded whose handle was closed. `ReleaseSemaphore` takes any
word: the check of the code is one-sided and its sum wraps around, and both are
in the model and in `kernel_objects`.

### HandleTable

A table is a record of the arrays and counters of the code and of three history
fields: the number of handles made, all of them with their objects, and the free
slots in order. A handle is a record of its bits, with bit 31 apart because
`GetSlot` drops it. `cmd` is the command buffer being translated, one handle per
step; `ctx` holds the objects of a request that an HLE service works on.
`R_ASSERT` on a full destination table sets `crashed`.

### Sessions

`ses[s]` is a pair of ends with the list of requesting threads and the one being
handled; a server end lives while a handle, the HLE service, the backlog of the
port, a waiting thread or the context of a request refers to it, and its
destructor runs when the last of them goes, at the end of whatever step that is
(`Finish`). `ctx[t]` is the session of the `HLERequestContext` that the wakeup
callback of `t` keeps: from `RunAsync` to the wakeup, and after `Stop` for ever,
because the context keeps the thread in turn (`ThreadKept`). A request is answered by `ReplyAndReceive`, or handled by an HLE
service that answers at once (`HleRequest`) or on a host thread (`RunAsync`,
`SectionEnds`), whose wakeup passes through the thread-safe queue (`tsq`,
`MoveEvents`) to the event queue (`timer`). `Stop` may take any thread at any
moment. `freed` marks a session whose reply uncovered another request: the code
then wakes no other server thread. The scheduler is abstracted to a free choice,
which `KernelSync` refines.

### CoreTiming

Each step of `RunLoop` is an action: the round that catches up cores far behind,
the round that advances them, the common slice, each core's run. A core runs to
the end of its slice, is cut short by an event its thread schedules, idles, or
overshoots by up to `Overshoot`. Times are relative to the slowest core at the
start of a round, which makes the state space finite without a bound on time.
The callback of an event that is due may schedule and unschedule any event on any
core (`CallbackSchedules`, `CallbackUnschedules`).
`HostSchedule` is another host thread. It reads the clock without a lock and
pushes later: `Readings` are the differences between what it took for the clock
and the clock at the push, without any bound in the proofs, and in the run so
far behind that the event may be late when its core takes it. The section of an
operation that was abandoned is not counted, so that it may push at any moment,
between the steps of a save or a load too.

A load makes a new Timing, reads its queues (`LoadTiming`) and locks them; calls
of other components while they are restored are ignored, and the input modules
re-arm their events at the end, also when the load threw. `attached` are the cores whose CPU holds the
Timer that Timing lists for it. Reading the Timers replaces those that the CPUs
of the new system hold, and each CPU reads its own afterwards (`AttachCore`). A
load that throws in between (`LoadTimingThrows`, or `LoadDone` before all are
attached) leaves a system that runs on with two sets of Timers (`split`); what its
cores do is not modelled further, and section 3 says what it means for the pump.

### SaveStateRequest

Two threads, `pc` and `fpc`. Each access to a shared atomic that the other thread
can observe is a step of its own; a critical section nobody can look into is one
step. Three orders matter and are kept: `RunLoop` clears
`save_state_request_status`, then the mirror, then sets `save_state_executing`;
the cancel reads the mirror, then stores the latch; a report updates the latch
under the lock and calls the callback after it. The atomics are relaxed; the
model is sequentially consistent, which is what the hardware gives for one
location, and no property here relates two locations that are both accessed
outside a lock by the frontend. Reset and LoadState are steps that succeed or
fail and leave the core powered on or off, with a kernel or without: `Reset` does
not look at the result of `Load`, and the next pass of the iOS loop samples the
program counter through a null kernel (`pc = "crashed"`) before `RunLoop` could
report anything. A boot is two steps: `Insert` starts
it, and `Boot` is the return of `System::Load`, after which the code stores
`stop_run` and `pause_emulation` and so overwrites a stop or a pause of the
frontend in between. The wait for the end of a pause is `running_cv`: `Unpark`
takes `paused_mutex` and looks at the flags, `Wait` registers and gives the mutex
back, and only `NotifyAll` or a spurious wakeup returns the thread to the flags.
`pause:` and `stop` store their flags under the mutex and notify after it; a store
and a notify between the look and the registration would be lost, which is the
mutant `StopUnlocked`.
`stop` calls `StopPresenting` through a pointer that is null without a second
screen; the method is not virtual and its body is empty
(`EmulationWindow_Vulkan.mm:100`), so the step goes on.

### SaveStateFile

A file is its header, the state in it and how many of its `Size` pieces are
there. `WriteBytes` hands a piece to the stdio buffer, any part of which may
reach the disk; `Close` flushes, `Rename` publishes, and each may fail and leaves
through the guard that deletes the scratch file. `Off` kills the process between
any two steps. `Import` puts foreign and truncated files in place. A load that
throws half way leaves `Broken`, in which the program goes on and which it saves
like any other state. `kept`,
`torn` and `killed` are history. A power failure that loses flushed data is not
modelled: the code calls no `fsync`.

`SlotStore` has no files: a slot holds a state or nothing, `Save` changes it in
one step, `Read` takes what it holds. `Store` is the refinement mapping: a slot
holds the state of its file if `LoadState` would accept it for the title of the
slot (`Loadable`), and nothing otherwise. Scratch files, pieces and program
counters are invisible to it, so `ImplementsStore` says that all steps of a save
but the rename, and every way of failing or being killed, change no slot, and
that the rename puts in the state the system had when the save was asked for.
The abstract `Tear` is a flush that fails at the close, which the code does not
notice (the violation run `torn_save`).

## 3. Runs

| run | instance | states | properties |
|---|---|---|---|
| `arbiter` | 3 threads, 2 processes, 2 cores, 1 address, 2 priorities, words -1..0, signals up to 2 | 394 thousand | `WaitsAgree`, `SignalNotSwallowed`, `ClosedFormIsLoop`, `ImplementsLot` |
| `kernel_mutex` | 3 threads of 3 priorities, 2 mutexes, recursion depth 2, waits for any and all | 1.6 million | `NoAssertFails`, `WaitListsAgree`, `MutexOwnership`, `NoDirectInversion`, `NoLostWakeup`, `OnlyHolderReleases` |
| `kernel_objects` | 2 threads, one created later or in vain, mutex, semaphore of 1 with words -2..1, one-shot event, pulse timer | 244 thousand | `NoLostWakeup`, `NothingLeftOfAWait`, `TimedWaitEnds` |
| `kernel_cores` | 2 cores, 2 processes, 3 threads, one created later or in vain, one not schedulable at times, 2 priorities, one of them to set, a mutex | 771 thousand | `InheritedPriority`, `ReadyQueueExact`, `BestThreadRuns`, `DeadStayDead`, `ThreadCountKept` |
| `handle_table` | 2 processes, tables of 2 slots, generations 1 and 2, 3 creations each, 2 handles per command | 1.1 million | `FreeListExact`, `HandlesResolve`, `NothingLostInTransit` |
| `sessions` | 2 clients, 2 server threads, 2 sessions, ports of 1 session | 377 thousand | `SessionsCounted`, `RequestInOnePlace`, `NoRequestSleptOver`, `AsyncCounted`, `AsyncEnds` |
| `core_timing` | 2 cores, the pump, a guest and a host event, slices of 2, overshoot 1, 1 load | 1.1 million | `SliceAssertion`, `DispatchedOnTime`, `CoresTogether`, `PumpArmed`, `EventsFire` |
| `save_state` | a load and a save, 1 call of cancel or reset, 1 session | @SS@ | `OneOwner`, `DeliveredOnce`, `OutcomeTruthful`, `ExecutingVisible`, `RequestReported`, `StopEndsSession` |
| `save_file` | 2 titles, 1 slot, 2 states, files of 3 pieces | 517 thousand | `LastSaveSurvives`, `NoScratchLeft`, `ImplementsStore` |
| `stale_cancel` | two loads, 1 cancel, 1 session | violation | `NoStaleCancel` |
| `torn_save` | 1 title, 1 slot, 2 states, files of 2 pieces | violation | `NeverPartial` |
| `uncovered_request` | 2 clients, 2 server threads, 1 session | violation | `SleepsOnlyIfShouldWait` |

`TypeOK` of every module, and `OnlyWholeFilesLoad` of the files (which
`ImplementsStore` implies), are left to the proofs.
`core_timing`, `sessions` and `save_file` also check that there is no deadlock.
The others say `CHECK_DEADLOCK FALSE` because the modelled systems may stop:
every guest thread may be dead, the creations of a table are bounded, and the
frontend need not boot again.

Bounds. Three threads make a waker, a waiter and a bystander (or a chain over two
mutexes); two priorities of mutexes and threads make better and worse; two
processes on two cores make a terminator and a victim. Words of two values hold
the comparison and the wrap-around of the 32-bit words. Two slots and two
generations fill a table, reuse a slot and wrap the counter, and three creations
go round it. Two clients and two servers on two sessions make a queue, a
competing server, an answer to either and a port that is full. Slices of 2 with an
overshoot of 1 leave room for an event before, at and behind the end of a slice
and for a core that is far behind. Two requests of different kinds make every
refusal, cancel and overlap, and one call of cancel or reset every race with
them. Three pieces are a header, a middle and an end. `MaxLock`, `MaxSignal`,
`MaxCalls`, `MaxSessions` (of `SaveStateRequest`), `MaxUsed`, `MaxCreates` and
`MaxLoads` only bound counters. `WaitCall` chooses among a zero, a finite and an
infinite timeout, the three cases the code tells apart. The words of
`kernel_objects` are so small that a release of 1 overflows with a full semaphore
and one of -1 with a count far below zero; `NoWakeupIsLost` is proved for all
widths and counts. What a second session and further requests add to
`save_state` is left to the theorems on it, which are for any number of both. `handle_table` uses the symmetry of the
processes, and `save_file` that of the titles, which have the same constants;
neither checks liveness.

Fairness.
- `KernelSync`: `ThreadWakeupCallback` is weakly fair, because
  `Timing::Timer::Advance` runs on each slice of each core and dispatches every
  event that is due.
- `CoreTiming`: the emulation thread goes on with `RunLoop` and with a load it
  has begun. Guests, callbacks and host threads may schedule for ever.
- `Sessions`: the cores advance, that is, move and dispatch their events. Nothing
  is assumed of servers and clients, nor of asynchronous sections: `accept`,
  `recv` and `poll` of the socket service may block for ever (`soc_u.cpp:986`,
  `1552`), so `AsyncEnds` begins when a section has ended.
- `SaveStateRequest`: the emulation thread is weakly fair while its loop runs, a
  boot returns, a call the frontend has begun returns, and the clock moves on;
  nothing is assumed of the frontend's choices or of the asynchronous
  operations, which is why `RequestReported` needs the five-second deadline.

Runs that find a violation show where the code and what is written about it
disagree; each is a finding in `PROJECT.json` with the quotation:

- `stale_cancel`: a cancel that reads the mirror just before `RunLoop` resolves
  the request kills the next request instead;
- `torn_save`: nobody reads whether the last flush of the scratch file succeeded,
  so that a file that is not whole is renamed into place, where the comment says
  that the `.cst` never exists in a partial state. `LastSaveSurvives` and
  `ImplementsStore` except exactly these files (`torn`, `Tear`);
- `uncovered_request`: a reply makes the next request of its session available
  and wakes no other server thread that sleeps on it. `NoRequestSleptOver`
  excepts exactly these sessions (`freed`).

Observed while modelling, and not the subject of a run:

*Threads and objects*
- a thread stopped while parked stays on the arbiter's list until the next signal
  prunes it (harmless: `SignalNotSwallowed` is proved, and `NoZombieWaiter`
  allows dead threads for this reason);
- a thread that waits for its own end and is terminated, a second
  `TerminateProcess` of one process, and a wait for all of two handles to one
  one-shot event fail assertions (`event.cpp:39` for the last);
- a creation that fails after the limit was reserved, and a thread stopped
  again by a `TerminateProcess` because it exited and is still the current thread
  of a core, let the thread count of the resource limit drift; `ThreadCountKept`
  says that nothing else does;
- a creation that fails to allocate its TLS page (`thread.cpp:436`) leaves a
  dormant thread in the list of its manager; this failure is not modelled;
- a thread stopped by an earlier core runs for the rest of the round, and a wait
  it makes brings it back to life (`"cross_core_stop"` in `GuestFaults`: with it
  TLC refutes `DeadStayDead` in nine states);
- a negative release count makes `available_count` negative, and one that
  overflows passes the check and wraps around;
- inheritance is not transitive, hence `NoDirectInversion` is about waiters that
  hold no mutex themselves;
- `BoostPriority` lasts until the priority is next recomputed, not until the
  thread is scheduled.

*Handles and sessions*
- the descriptor word is compared with `MoveHandle` as a whole (`ipc.cpp:82`,
  `hle_ipc.cpp:202`), so that a command that moves two or more handles, whose
  count is in its upper bits, leaves them open at the sender (`ClosesSource`);
- `GetSlot` drops bit 31 of a handle, although `handle_table.h` describes the
  slot as the bits above the generation: two values name each handle;
- `CreatePort` and `CreateSession` leave their first handle open when the table
  has no room for the second;
- a message to a process whose table is full ends in `R_ASSERT` (`ipc.cpp:94`);
  an invalid handle in a request to an HLE service ends in an assertion;
- closing either end leaves the thread whose request was in flight asleep for
  ever (the destructors have a TODO for it);
- `Stop` leaves a dead thread in `pending_requesting_threads`;
- a thread stopped during `RunAsync` and its callback keep each other for ever:
  the thread has the callback, the callback the context of the request, the
  context the thread (`thread.cpp:109` says that the callback "dies with the
  Thread instead"). The session of the context stays counted in its port
  (`ctx`, `ThreadKept`; `SessionsCounted` is exact about it);
- requests are taken last in, first out, so that an early one may starve;
- a thread that a later core still runs after it was stopped may call `RunAsync`
  and leak a pending operation.

*Timing and save states*
- a host thread reads a clock while its core moves it, and pushes its event any
  time later: how late the event is has no bound, whatever `AsyncDelay` adds.
  `DispatchedOnTime` is about the events a core schedules for itself, and
  `EventsFire` says that those of host threads come at all;
- a load that throws while the Timers are read (`core_timing.h:317`), or before
  the CPUs have read theirs, leaves Timers that no CPU advances in Timing, and the
  re-arm of the catch block puts the input pump on one of them, where it stays:
  input is dead although the queue is unlocked (`split`);
- `UnscheduleEvent` does not reach the thread-safe queue;
- `is_timer_sane` is not serialised: after a load `GetTicks` forgets what a core
  had run of its slice until the core advances, so that cores which were together
  when the state was saved are apart, and the slice that lets one catch up may be
  longer than any before. The bounds on slices, drift and lateness are therefore
  stated until the first load; types, the assertion on slices and the pump are
  stated, and proved, after any number of them;
- `SendSignal` reports a refused request while it holds `signal_mutex`;
- a second request of the kind that is queued overwrites it silently: the history
  variable `replaced` counts this as the end of the first one, whereas
  `CytrusEmulator.h:159` promises a call per request;
- after a `Reset` whose `Load` failed there is no kernel, and the loop of the
  frontend dies in `SamplePc` (`CytrusEmulator.mm:307`) before `RunLoop` can
  report the request that waits; `RequestReported` ends there (`"crashed"`). With
  a kernel that is not powered on, which a failed load may leave, the request is
  reported;
- a stop during the boot is overwritten by the stores after `System::Load`
  (`CytrusEmulator.mm:210`); `StopEndsSession` is about a booted session;
- when `serialize` throws, `save_state_status` stays at LOADING (`core.cpp:1113`)
  and the next boot skips the LLE modules.

## 4. Proofs

Assumptions: `ArbiterAssumption` (a finite set of threads; processes, cores,
priorities and words of the right types), `RequestAssumption` (kinds of requests,
`None` different from everything), `HandleAssumption` (a table smaller than the
range of slot numbers, at least one generation), `FileAssumption` (a file has
at least two pieces), `SessionsAssumption` (finitely many threads and sessions;
clients are not servers), `TimingAssumption` (at least one core, a slice of at
least one tick, delays of zero or more; the pump is no other event) and
`KernelAssumption` (finitely many threads and mutexes, listed in some order; the
kinds of objects are disjoint; priorities are numbers and
`ThreadPrioLowest` is the worst of them). The sets are arbitrary otherwise.

*AddressArbiterProofs.* The inductive invariant `Inv` is `TypeOK` with the three
parts of `WaitsAgree`. None of the three is inductive alone: that a timeout takes
the thread off the list depends on the event belonging to an arbiter wait with
the arbiter's callback, which depends on `ResumeFromWait` cancelling the event of
the wait it ends. Lemmas per group of actions (park, signal, timeout, stop) give
`TypeCorrect` and `ListAgreesWithStatus`. `NoSwallowedWakeup` is an action
property: under the invariant the pruned list is exactly the parked threads
(`PrunedListIsParked`), so a cardinality taken on the list is one of parked
threads. `ArbiterImplementsLot` maps initial states to initial states and each
action to a step or a stutter of `ParkingLot`.

`BestWaitersIsSignalLoop` is about a loop of any length over a list of any length.
Its invariant `ListOrdered` says that `ahead` is a strict total order on the
members of the list, although nothing updates it when a thread leaves; so
`Before` orders the threads parked on an address, a finite set of them has a
first one (`MinElementExists`, which is why the CHOOSE of `MinElement` is
`std::min_element`), and after each round the threads woken are a prefix of that
order (`PrefixNext`, `LoopPrefix`). A prefix is determined by its size
(`PrefixUnique`), hence equal to the closed form.

*SaveStateRequestProofs.* `IInv` adds to the properties `Shape` (which local
values are in use at which program counter), `MirrorInv` (a request that is about
to lose the mirror is the only one pending: otherwise the store of `false` would
uncover another), `OutcomeInv` (the outcome carried is that of what was done) and
`ExecutingInv`. `OneOwner` is a conservation law: the places a request can be in,
its reports and its replacement add up to one once it was sent. Lemma `Fresh`
draws from it that a request on its way was not reported and is not resolved
elsewhere, which the outcome needs. `CancelSeesNoGap` is `MirrorCovers`: the
mirror that a cancel reads covers every request that was consumed.

*HandleTableProofs.* `IInv` is `TypeOK` and, for every table, `FreeListOf` (the
generations of empty slots are the free list), `GenerationsOf` (the handles of
the last cycle carry the counter run backwards, so no two of them share a
generation) and `LatestOf` (an occupied slot belongs to the last handle issued
for it). `HandlesResolve` alone is not inductive: that a stale handle misses
depends on which generation comes next. Lemmas about `Insert`, `Remove` and
`ClearTable` carry the invariant, and `TransitKeepsObjects` is an action property
on top of it.

*SaveStateFileProofs.* `IInv` adds `Progress` (the path of an operation belongs to
the running title, the image is a whole file, and the scratch file is a beginning
of it) and `Survives`, the part of `LastSaveSurvives` that does not mention the
loader. `SavesAreAtomic` is the refinement of `SlotStore`. It needs `WorldHeld`
besides: from `Serialise` on the image is the state that still runs, so that the
one abstract step, taken at the rename, saves the state of that moment.
`SavingStore` shows that each step of a save but a successful rename is a
stutter, and the rename `Save` or, of a torn file, `Tear`; `OtherStore` maps each
of the remaining actions to its abstract one, and the start of a save to a stutter. `Progress` is what makes a renamed file `Loadable`:
it carries the title of its path.

*ThreadQueueListProofs.* `PrepareKeepsOrder`: linking a level keeps the chain in
order and complete. `Link` inserts behind the greatest better level in use, which
exists by a well-founded minimum and is the only one whose pointer changes.

*SessionsProofs.* `IInv` adds to the invariants of the run what ties the
pieces of state of one request together. `Ends`: a session without one of its
ends holds no request, and the backlog of a port holds only sessions with a
server end. `ThreadState`: the wakeup callback, the objects waited for and the
three places of a wakeup (section, thread-safe queue, event queue) belong to the
status of the thread, and a wakeup is in one of them. `RequestState`: a thread
that waits for an answer is in the session it asked, in the list or being handled,
once. `Watched`: a session somebody sleeps on has a server end and nothing to take.
`Owned`: a server end that exists is referred to by something, so that no place of
a port is kept for nothing.
None is inductive alone: that an answer reaches the thread that asked needs that
a closed end dropped its requests, and that the count of operations is exact
needs that a wakeup of `RunAsync` is not also in flight elsewhere. The lemmas
about one session (`QueuedIn`, `AcquireIn`, `AnsweredIn`, `ClosedIn`) say what an
operation does to the requests in it; `FinishKeeps` is about the destructors that
run at the end of each action and change the count of a port by the number of
sessions they end; `AsyncStep` about the set of asynchronous operations, of which
an action adds or removes one thread. The number of places of a request is a sum
of cardinalities, which `OnePlace` derives from `RequestState` at the end.

*CoreTimingProofs.* `IInv` has two halves. `Basic` holds also during and after a
load: `Types` (heaps are sorted), `Pumps` (the heaps hold one pump and the
thread-safe queues none, except between a load and the re-arming) and `Phases`
(what `RunLoop` knows at each place of its loop: a core that was advanced and has
not run has no slice and no event that is due, the core that is to catch up has a
slice and is the one that was picked, the common slice is positive, and the
running core has ticks left or has run some). `SliceAssertion` and `PumpArmed`
follow from it. `Unloaded` says `Early` until the first load:
- `Slices` bounds the length of a slice;
- `Together` bounds how far the cores are apart. The bound
  `MaxSlice + MinDelay + NumCores * Overshoot` is not inductive: in a round each
  core runs as long as the one before it actually ran, so the overshoots add up
  from core to core, and from round to round unless something stops them. The
  invariant gives each core a rank (`Ranks`, an injection into 1 .. NumCores) and
  lets a core of rank `r` be behind the fastest one by a slice, the delay and `r`
  overshoots (`Spread`). After a round of all cores the ranks are those of their
  positions (`RoundRanks`), after a round of a core that was far behind it becomes
  the first and the others that it overtook move down by one (`AloneRanks`);
- `Rounds` says what the cores have run of the round in progress;
- `EventsInTime` bounds for each event that a core scheduled for itself how far
  behind its time the core can be (`OwnBound`). Nothing is said of the events of
  host threads and of other cores, and nothing has to be: a slice ends at the
  first event of the heap, whoever scheduled it.

`Push`, `Erase` and `Shift` have lemmas (`PushHeap`, `EraseHeap`, `ShiftHeap`)
that they keep a heap sorted and neither lose nor double an event. `PushAll` and
`Erase` are loops over a queue of any length; no induction principle of the
library applies, so `UpTo` proves the step from a number to the next one from the
least number at which it would fail, and `LoopExists` that the loop is defined.
A bound on slices was found to be too small by these proofs, and then by TLC on
another instance: a load breaks it (three cores, no overshoot). `TypeOK` states
the corrected one.

*KernelSyncProofs.* `KernelTyped` holds of every guest. The other theorems assume
`ProperGuest`: of the faults only `invalid_entry` is committed, and no array of
handles names an object twice. Each exclusion is needed for `NoAssertFails` or,
for `cross_core_stop`, because a dead thread would go on calling (section 3).
`ThreadsCounted` is about steps: on any number of cores the drift between the
count and the live threads changes only by a creation that fails or by a
`TerminateProcess` that stops a dead current thread again. A handler that stops
several threads keeps the drift call by call (`SameDrift`, `DriftTrans`), and
`CurAlive` says when the current threads it meets are alive.

The inductive invariant `KInv` has these parts, each of a state `s`:
- `Own` (`lock`, `holder` and `held` agree, holders are alive) and `Inherit` (the
  current priority of a live thread is `Best`);
- `Queue` and `Levelled` (each ready thread is once in its queue, on a level that
  is linked), `CurCore` (a core runs threads of its own that were created);
- `Timed` (at most one timeout, and with its callback only during a wait);
- `Waits` (the two sides of a wait agree, without repetition; nobody waits for
  itself) and `NoLost` (nobody sleeps who could go on);
- `NoInv` (a mutex has taken notice of every waiter that holds nothing): the
  priority of a mutex, not of its holder, is what the calls maintain, and
  `NoDirectInversion` follows from it with `Inherit`.

Handlers break these parts between their calls, so the lemmas about the calls are
stated for `Mid(s, d, o)`: the invariant, but for a thread `d` that is ending and
still holds mutexes and stands on lists, and for the waiters of an object `o`
that is about to wake them. `WakeupFacts` closes the second exception: each turn
of `WakeLoop` shortens the list of `o` or leaves nobody whom `o` could wake, so
after as many turns as threads waited nobody is left (`WakeLoopFacts`).
`ReleaseFacts` and `StopFacts` close the first. That a thread woken by `o` cannot
make another wakeup be lost is `Takes`: an acquisition never frees an object for
anybody else. For each action one lemma gives its type and one the invariant,
most of them through `Handled` (no thread is created, ended or switched);
`NextType` and `NextKept` put them together. `BestThreadAlwaysRuns` rests on
`LevelsFacts` (following the pointers visits the linked levels in order),
`SearchedFacts` and `PopFacts` (a search finds the best thread that may be
scheduled, and puts back every other one), and `MovedBest`. Loops over lists are
handled by `UpTo` and `LoopExists` as in `CoreTimingProofs`.

Two theorems are about steps. `TheDeadStayDead` and `MutexesAreNotTaken` compare
the state before a handler with the one after it, and a handler is a composition
of calls that lend mutexes to threads they wake, so every lemma about a call also
says `Lasting` (who was dead is dead) and `Holding` (who held a mutex holds it or
is dead, but for a set `M` of mutexes). `HoldingTrans` composes them. Acquisition
takes only a mutex that is free or the thread's own, which is where `Waits` and
`Own` enter: a thread is woken only if none of its objects makes it wait. Only
`ReleaseMutex` has a set `M` that is not empty, and `GaveUp` says that the caller
held its mutex once; `KeptStep` joins this with the invariant for all actions.

Only model-checked is liveness: `AsyncEnds`, `EventsFire`, `TimedWaitEnds`,
`RequestReported` and `StopEndsSession`; the prover does not support fairness
(ENABLED). Every other property of a passing run is also a theorem.

## 5. Not modelled, and the plan

Next, in this order:

1. which of the theorems on `KernelSync` survive which guest faults: a proof that
   a process terminated under the feet of another core damages its own threads
   only;
2. `Sessions` in place of the flag `async` of `SaveStateRequest`;
3. memory: the VM manager's map of regions, split and merged by system calls, and
   the accounting of the memory regions;
4. the applet manager and the local wireless service, the two services with a
   protocol of their own.

Left out for good: rendering, audio, instruction emulation, file formats,
services with independent small state, networking libraries, logging and user
interface; TLA+ has little to say about them that a unit test does not. They, and
vendored headers, are most of the lines of the repository.
