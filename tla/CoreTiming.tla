----------------------------- MODULE CoreTiming -----------------------------
(***************************************************************************)
(* The event queues of core_timing.cpp and the slices in which             *)
(* System::RunLoop runs the CPU cores, one after the other on one host     *)
(* thread, with the save and the load of a state between two rounds.       *)
(* Another host thread schedules through the thread-safe queues.           *)
(*                                                                         *)
(* Times are ticks.  Only differences of ticks matter, so each round of    *)
(* RunLoop counts them from the slowest core.  A heap is the sequence of   *)
(* its events in the order of Event::operator<; the order of arrival       *)
(* (fifo_order) is the order within one time.                              *)
(***************************************************************************)
EXTENDS Integers, Sequences, FiniteSets, SequencesExt, FiniteSetsExt

CONSTANTS
  NumCores,     \* cores, 0 .. NumCores - 1
  Pump,         \* the pad update event of the HID service, always scheduled
  Guest,        \* events of the emulated system: timeouts, timers
  Async,        \* events of other host threads
  Delays,       \* cycles into the future the system asks for
  MaxSlice,     \* MAX_SLICE_LENGTH, and the period of the pump
  MinDelay,     \* min_delay
  Overshoot,    \* ticks a core runs past its slice
  Readings,     \* how far what another host thread reads of a clock may be off
  MaxLoads      \* bound: loads of a state

Cores == 0 .. NumCores - 1
Events == {Pump} \cup Guest \cup Async

ASSUME TimingAssumption ==
  /\ NumCores \in Nat \ {0}
  /\ MaxSlice \in Nat \ {0} /\ MinDelay \in Nat /\ Overshoot \in Nat /\ MaxLoads \in Nat
  /\ Delays \subseteq Nat /\ Readings \subseteq Int
  /\ Pump \notin Guest \cup Async /\ Guest \cap Async = {}

VARIABLES
  heap,       \* event_queue of each core, in order
  ts,         \* ts_queue of each core
  exec,       \* executed_ticks
  slice,      \* slice_length
  down,       \* downcount
  sane,       \* is_timer_sane
  locked,     \* event_queue_locked
  current,    \* the core of current_timer
  pc,         \* where RunLoop is
  loc,        \* its local variables
  snap,       \* the state on disk
  loads,      \* loads so far
  attached    \* cores whose CPU runs the Timer that Timing has for them

queues == <<heap, ts>>
clocks == <<exec, slice, down, sane>>
files == <<snap, loads, attached>>
vars == <<heap, ts, exec, slice, down, sane, locked, current, pc, loc, snap, loads, attached>>

-----------------------------------------------------------------------------
(* An event with the way it was scheduled, which only the properties read. *)
Event(e, t, how) == [id |-> e, time |-> t, how |-> how]

(* push_heap: behind the events of the same time. *)
Push(q, x) ==
  LET n == Cardinality({i \in DOMAIN q : q[i].time <= x.time})
  IN  SubSeq(q, 1, n) \o <<x>> \o SubSeq(q, n + 1, Len(q))

PushAll(q, xs) ==
  LET pushed[i \in 0 .. Len(xs)] == IF i = 0 THEN q ELSE Push(pushed[i - 1], xs[i])
  IN  pushed[Len(xs)]

Ticks(c) == exec[c] + (IF sane[c] THEN 0 ELSE slice[c] - down[c])

(* Each event is in a queue at most once, which bounds the model. *)
IsQueued(e) ==
  \E c \in Cores : \E x \in ToSet(heap[c]) \cup ToSet(ts[c]) : x.id = e

(* Mutant: the running slice is not shortened. *)
NoForceExceptionCheck(c, cycles) == UNCHANGED <<slice, down>>

ForceExceptionCheck(c, cycles) ==
  LET n == Max({0, cycles})
  IN  IF down[c] > n
        THEN /\ slice' = [slice EXCEPT ![c] = @ - (down[c] - n)]
             /\ down' = [down EXCEPT ![c] = n]
        ELSE UNCHANGED <<slice, down>>

(* ScheduleEvent on the emulation thread, for core c. *)
ScheduleEvent(e, cycles, c) ==
  IF locked THEN UNCHANGED <<heap, ts, slice, down>>
  ELSE IF c = current
    THEN /\ heap' = [heap EXCEPT ![c] =
                       Push(@, Event(e, Ticks(c) + cycles, IF cycles < 0 THEN "late" ELSE "own"))]
         /\ IF sane[c] THEN UNCHANGED <<slice, down>> ELSE ForceExceptionCheck(c, cycles)
         /\ UNCHANGED ts
    ELSE /\ ts' = [ts EXCEPT ![c] = Append(@, Event(e, Ticks(c) + cycles, "cross"))]
         /\ UNCHANGED <<heap, slice, down>>

(* UnscheduleEvent and RemoveEvent: the heaps of all cores, not the        *)
(* thread-safe queues.                                                     *)
Keep(q, x, e) == IF x.id = e THEN q ELSE Append(q, x)

Erase(q, e) ==
  LET kept[i \in 0 .. Len(q)] == IF i = 0 THEN <<>> ELSE Keep(kept[i - 1], q[i], e)
  IN  kept[Len(q)]

Without(e) == [c \in Cores |-> Erase(heap[c], e)]

UnscheduleEvent(e) ==
  /\ heap' = IF locked THEN heap ELSE Without(e)
  /\ UNCHANGED ts

(* SetNextSlice(n). *)
NextSlice(c, n) == IF heap[c] = <<>> THEN n ELSE Min({heap[c][1].time - exec[c], n})

(* GetMaxSliceLength, whose assertion is the property SliceAssertion. *)
GetMaxSliceLength(c) == IF heap[c] = <<>> THEN MaxSlice ELSE heap[c][1].time - exec[c]

-----------------------------------------------------------------------------
(* A Timing object with the pump the HID module schedules, at boot and     *)
(* after the Init of a load.                                               *)
FreshHeap == [c \in Cores |-> IF c = 0 THEN <<Event(Pump, MaxSlice, "own")>> ELSE <<>>]

NoLoc == [core |-> 0, global |-> 0, delay |-> 0, maxDelay |-> 0, victim |-> 0,
          maxSlice |-> 0, start |-> 0, alone |-> FALSE]

(* What a file holds of the timing.  The flag is_timer_sane is not part of *)
(* it.  A file is one of a boot, one whose pump had died, or the state     *)
(* saved just now: a load forgets whatever came between it and the save.   *)
Snapshot(h, x, s, d, cur) == [heap |-> h, exec |-> x, slice |-> s, down |-> d, current |-> cur]

NoFile == Snapshot([c \in Cores |-> <<>>], [c \in Cores |-> 0], [c \in Cores |-> 0],
                   [c \in Cores |-> 0], 0)

Init ==
  /\ heap = FreshHeap
  /\ ts = [c \in Cores |-> <<>>]
  /\ exec = [c \in Cores |-> 0]
  /\ slice = [c \in Cores |-> MaxSlice]
  /\ down = [c \in Cores |-> MaxSlice]
  /\ sane = [c \in Cores |-> TRUE]
  /\ locked = FALSE
  /\ current = 0
  /\ pc = "start"
  /\ loc = NoLoc
  /\ snap = NoFile
  /\ loads = 0
  /\ attached = Cores

-----------------------------------------------------------------------------
(* RunLoop: the global time is that of the fastest core. *)
Begin ==
  /\ pc = "start"
  /\ LET base == Min({exec[c] : c \in Cores})
         Rebase(q) == [i \in DOMAIN q |-> [q[i] EXCEPT !.time = @ - base]]
     IN  /\ exec' = [c \in Cores |-> exec[c] - base]
         /\ heap' = [c \in Cores |-> Rebase(heap[c])]
         /\ ts' = [c \in Cores |-> Rebase(ts[c])]
         /\ loc' = [NoLoc EXCEPT !.global = Max({Ticks(c) : c \in Cores}) - base]
  /\ pc' = "sync"
  /\ UNCHANGED <<slice, down, sane, locked, current>> /\ UNCHANGED files

MoveEvents(c) ==
  /\ heap' = [heap EXCEPT ![c] = PushAll(@, ts[c])]
  /\ ts' = [ts EXCEPT ![c] = <<>>]

(* The first half of Timer::Advance. *)
BeginAdvance(c) ==
  /\ MoveEvents(c)
  /\ exec' = [exec EXCEPT ![c] = @ + (slice[c] - down[c])]
  /\ slice' = [slice EXCEPT ![c] = 0]
  /\ down' = [down EXCEPT ![c] = 0]
  /\ sane' = [sane EXCEPT ![c] = TRUE]
  /\ current' = c

(* The cores that are behind catch up: Advance, and a slice up to the      *)
(* global time.  The one that is furthest behind will run.                 *)
SyncCore ==
  /\ pc = "sync" /\ loc.core \in Cores
  /\ LET c == loc.core
     IN  IF Ticks(c) < loc.global
           THEN /\ BeginAdvance(c)
                /\ loc' = [loc EXCEPT !.delay = loc.global - Ticks(c)]
                /\ pc' = "syncing"
           ELSE /\ loc' = [loc EXCEPT !.core = @ + 1]
                /\ UNCHANGED pc /\ UNCHANGED queues /\ UNCHANGED clocks /\ UNCHANGED current
  /\ UNCHANGED locked /\ UNCHANGED files

(* Mutant: an event is due one tick after its time. *)
DueAfter(c) == heap[c] # <<>> /\ heap[c][1].time < exec[c]

(* The loop of Advance: one event is popped and its callback runs.  The    *)
(* callback of the pump schedules it again; others may schedule again,     *)
(* cycles_late earlier, or not (a timer does if its interval is not 0).    *)
Due(c) == heap[c] # <<>> /\ heap[c][1].time <= exec[c]

Dispatch ==
  /\ pc \in {"syncing", "advancing"}
  /\ LET c == loc.core
     IN  /\ Due(c)
         /\ \E again \in IF heap[c][1].id = Pump THEN {MaxSlice}
                         ELSE IF heap[c][1].id \in Guest THEN (Delays \ {0}) \cup {-1} ELSE {-1} :
              LET x == heap[c][1]
                  t == exec[c] + (again - (exec[c] - x.time))
              IN  heap' = [heap EXCEPT ![c] =
                             IF again = -1 THEN Tail(@)
                             ELSE Push(Tail(@), Event(x.id, t, IF t < exec[c] THEN "late" ELSE "own"))]
  /\ UNCHANGED <<ts, locked, current, pc, loc>> /\ UNCHANGED clocks /\ UNCHANGED files

(* What else the callback of the due event does: it wakes and stops        *)
(* threads, and schedules and unschedules other events on any core.  It    *)
(* does so before the step that pops its event; what it schedules is not   *)
(* due yet, so that is no different from after it.                         *)
CallbackSchedules(e, cycles, c) ==
  /\ pc \in {"syncing", "advancing"} /\ Due(loc.core) /\ ~IsQueued(e)
  /\ ScheduleEvent(e, cycles, c)
  /\ UNCHANGED <<exec, sane, locked, current, pc, loc>> /\ UNCHANGED files

CallbackUnschedules(e) ==
  /\ pc \in {"syncing", "advancing"} /\ Due(loc.core) /\ IsQueued(e)
  /\ heap[loc.core][1].id # e
  /\ UnscheduleEvent(e)
  /\ UNCHANGED <<locked, current, pc, loc>> /\ UNCHANGED clocks /\ UNCHANGED files

(* The end of Advance for a core that is behind. *)
SyncAdvanced ==
  /\ pc = "syncing" /\ ~Due(loc.core)
  /\ LET c == loc.core
         n == NextSlice(c, loc.delay)
         worst == loc.delay > loc.maxDelay
     IN  /\ sane' = [sane EXCEPT ![c] = FALSE]
         /\ slice' = [slice EXCEPT ![c] = n]
         /\ down' = [down EXCEPT ![c] = n]
         /\ loc' = [loc EXCEPT !.core = @ + 1, !.delay = 0,
                               !.maxDelay = IF worst THEN loc.delay ELSE @,
                               !.victim = IF worst THEN c ELSE @]
  /\ pc' = "sync"
  /\ UNCHANGED <<exec, locked, current>> /\ UNCHANGED queues /\ UNCHANGED files

(* Mutant: a core never catches up. *)
FarBehindNever == FALSE

FarBehind == loc.maxDelay > MinDelay

(* A core that is far behind runs alone, otherwise all cores run. *)
Synced ==
  /\ pc = "sync" /\ loc.core = NumCores
  /\ IF FarBehind
       THEN /\ loc' = [NoLoc EXCEPT !.core = loc.victim, !.alone = TRUE]
            /\ current' = loc.victim
            /\ pc' = "run"
       ELSE /\ loc' = [NoLoc EXCEPT !.maxSlice = MaxSlice]
            /\ UNCHANGED current
            /\ pc' = "advance"
  /\ UNCHANGED locked /\ UNCHANGED queues /\ UNCHANGED clocks /\ UNCHANGED files

AdvanceCore ==
  /\ pc = "advance" /\ loc.core \in Cores
  /\ BeginAdvance(loc.core)
  /\ pc' = "advancing"
  /\ UNCHANGED <<locked, loc>> /\ UNCHANGED files

Advanced ==
  /\ pc = "advancing" /\ ~Due(loc.core)
  /\ LET c == loc.core
     IN  /\ sane' = [sane EXCEPT ![c] = FALSE]
         /\ loc' = [loc EXCEPT !.core = @ + 1,
                               !.maxSlice = Min({@, GetMaxSliceLength(c)})]
  /\ pc' = "advance"
  /\ UNCHANGED <<exec, slice, down, locked, current>> /\ UNCHANGED queues /\ UNCHANGED files

(* The cores run one after the other, each as long as the one before. *)
AllAdvanced ==
  /\ pc = "advance" /\ loc.core = NumCores
  /\ loc' = [loc EXCEPT !.core = 0]
  /\ pc' = "slice"
  /\ UNCHANGED <<locked, current>> /\ UNCHANGED queues /\ UNCHANGED clocks /\ UNCHANGED files

SetNextSlice ==
  /\ pc = "slice" /\ loc.core \in Cores
  /\ LET c == loc.core
         n == NextSlice(c, loc.maxSlice)
     IN  /\ slice' = [slice EXCEPT ![c] = n]
         /\ down' = [down EXCEPT ![c] = n]
         /\ loc' = [loc EXCEPT !.start = exec[c]]
         /\ current' = c
  /\ pc' = "run"
  /\ UNCHANGED <<exec, sane, locked>> /\ UNCHANGED queues /\ UNCHANGED files

(* Mutant: the slice of an idle core is not used up. *)
KeepDowncount(c) == UNCHANGED down

UseUpSlice(c) == down' = [down EXCEPT ![c] = 0]

(* No thread is ready: Idle. *)
Idle ==
  /\ pc = "run"
  /\ UseUpSlice(loc.core)
  /\ pc' = "ran"
  /\ UNCHANGED <<exec, slice, sane, locked, current, loc>> /\ UNCHANGED queues /\ UNCHANGED files

(* Instructions; the last one may exceed the slice. *)
Execute ==
  /\ pc = "run" /\ down[loc.core] > 0
  /\ \E n \in 1 .. down[loc.core] + Overshoot :
       down' = [down EXCEPT ![loc.core] = @ - n]
  /\ pc' = "call"
  /\ UNCHANGED <<exec, slice, sane, locked, current, loc>> /\ UNCHANGED queues /\ UNCHANGED files

(* After them a call that schedules or unschedules an event, or none. *)
GuestSchedule(e, cycles, c) ==
  /\ pc = "call" /\ ~IsQueued(e)
  /\ ScheduleEvent(e, cycles, c)
  /\ pc' = "called"
  /\ UNCHANGED <<exec, sane, locked, current, loc>> /\ UNCHANGED files

GuestUnschedule(e) ==
  /\ pc = "call" /\ IsQueued(e)
  /\ UnscheduleEvent(e)
  /\ pc' = "called"
  /\ UNCHANGED <<locked, current, loc>> /\ UNCHANGED clocks /\ UNCHANGED files

(* The core runs on while its slice lasts, or stops to reschedule. *)
Proceed ==
  /\ pc \in {"call", "called"}
  /\ pc' \in (IF down[loc.core] > 0 THEN {"run"} ELSE {}) \cup {"ran"}
  /\ UNCHANGED <<locked, current, loc>> /\ UNCHANGED queues /\ UNCHANGED clocks /\ UNCHANGED files

EndRun ==
  /\ pc = "ran"
  /\ LET last == loc.alone \/ loc.core = NumCores - 1
     IN  /\ pc' = IF last THEN "start" ELSE "slice"
         /\ loc' = IF last THEN NoLoc
                   ELSE [loc EXCEPT !.core = @ + 1, !.start = 0,
                                    !.maxSlice = Ticks(loc.core) - loc.start]
  /\ UNCHANGED <<locked, current>> /\ UNCHANGED queues /\ UNCHANGED clocks /\ UNCHANGED files

(* ScheduleEvent in thread-safe mode, from another host thread.  It reads  *)
(* executed_ticks, slice_length and downcount without a lock while the     *)
(* emulation thread writes them, and pushes any time later: what it took   *)
(* for the clock may be torn, and may lag behind the clock at the push.    *)
AsyncDelay == 2 * MaxSlice

HostSchedule(e, c) ==
  /\ ~locked /\ ~IsQueued(e)
  /\ \E off \in Readings :
       ts' = [ts EXCEPT ![c] = Append(@, Event(e, Ticks(c) + off + AsyncDelay, "async"))]
  /\ UNCHANGED <<heap, locked, current, pc, loc>> /\ UNCHANGED clocks /\ UNCHANGED files

-----------------------------------------------------------------------------
(* Timer::serialize on a save: the thread-safe queues are moved first.     *)
(* RunLoop waits with a save or a load for the operations that the kernel  *)
(* counts, but that of a stopped thread is not counted and may still push. *)
SaveState ==
  /\ pc = "start"
  /\ heap' = [c \in Cores |-> PushAll(heap[c], ts[c])]
  /\ ts' = [c \in Cores |-> <<>>]
  /\ UNCHANGED <<locked, current, pc, loc>> /\ UNCHANGED clocks /\ UNCHANGED files

Files ==
  LET boot(h) == Snapshot(h, [c \in Cores |-> 0], [c \in Cores |-> MaxSlice],
                          [c \in Cores |-> MaxSlice], 0)
  IN  {boot(FreshHeap), boot([c \in Cores |-> <<>>])}
      \cup (IF \A c \in Cores : ts[c] = <<>>
               THEN {Snapshot(heap, exec, slice, down, current)} ELSE {})

(* A load: Shutdown and Init make a new Timing object, and CPUs that hold  *)
(* its Timers ...                                                          *)
LoadState ==
  /\ pc \in {"start", "split"} /\ loads < MaxLoads
  /\ loads' = loads + 1
  /\ snap' \in Files
  /\ heap' = FreshHeap
  /\ ts' = [c \in Cores |-> <<>>]
  /\ exec' = [c \in Cores |-> 0]
  /\ slice' = [c \in Cores |-> MaxSlice]
  /\ down' = [c \in Cores |-> MaxSlice]
  /\ sane' = [c \in Cores |-> TRUE]
  /\ current' = 0
  /\ attached' = Cores
  /\ pc' = "loading"
  /\ UNCHANGED <<locked, loc>>

(* ... whose Timers are replaced by those of the file; then the queue is   *)
(* locked.                                                                 *)
LoadTiming ==
  /\ pc = "loading"
  /\ heap' = snap.heap /\ exec' = snap.exec /\ slice' = snap.slice /\ down' = snap.down
  /\ ts' = [c \in Cores |-> <<>>]
  /\ current' = snap.current
  /\ sane' = [c \in Cores |-> TRUE]
  /\ locked' = TRUE
  /\ snap' = NoFile
  /\ attached' = {}
  /\ pc' = "restoring"
  /\ UNCHANGED <<loc, loads>>

(* An exception while the Timers are read, when n are replaced.  Nothing   *)
(* is locked; current_timer is still the first Timer of Init, which only   *)
(* the CPU has now.  The re-arm removes the pump from the Timers of Timing *)
(* and schedules it there, for the last time: its callback schedules on    *)
(* the Timers of Timing.                                                   *)
LoadTimingThrows(n) ==
  /\ pc = "loading"
  /\ LET read(f, g) == [c \in Cores |-> IF c < n THEN f[c] ELSE g[c]]
     IN  /\ heap' = [c \in Cores |-> Erase(read(snap.heap, heap)[c], Pump)]
         /\ ts' = read([c \in Cores |-> <<>>], ts)
         /\ exec' = read(snap.exec, exec)
         /\ slice' = read(snap.slice, slice)
         /\ down' = read(snap.down, down)
  /\ snap' = NoFile
  /\ attached' = {c \in Cores : c >= n}
  /\ pc' = "split"
  /\ UNCHANGED <<sane, locked, current, loc, loads>>

(* The CPUs are read one after the other, each with its Timer first. *)
AttachCore ==
  /\ pc = "restoring"
  /\ \E c \in Cores : /\ attached = 0 .. c - 1
                      /\ attached' = attached \cup {c}
  /\ UNCHANGED <<locked, current, pc, loc, snap, loads>> /\ UNCHANGED queues /\ UNCHANGED clocks

(* The services and the kernel are read: the constructors and destructors  *)
(* of what is replaced schedule and unschedule as always.                  *)
RestoreSchedules(e) ==
  /\ pc = "restoring" /\ attached = Cores
  /\ ScheduleEvent(e, MaxSlice, current)
  /\ UNCHANGED <<exec, sane, locked, current, pc, loc>> /\ UNCHANGED files

RestoreUnschedules(e) ==
  /\ pc = "restoring" /\ attached = Cores
  /\ UnscheduleEvent(e)
  /\ UNCHANGED <<locked, current, pc, loc>> /\ UNCHANGED clocks /\ UNCHANGED files

(* UnlockEventQueue, by the end of the load or by SCOPE_EXIT. *)
UnlockEventQueue == locked' = FALSE

LoadDone(failed) ==
  /\ pc = "restoring" /\ (attached = Cores \/ failed)
  /\ UnlockEventQueue
  /\ pc' = "rearm"
  /\ UNCHANGED <<current, loc>> /\ UNCHANGED queues /\ UNCHANGED clocks /\ UNCHANGED files

(* An exception before Shutdown: the file is refused, the system goes on.   *)
LoadRefused ==
  /\ pc = "start" /\ loads < MaxLoads
  /\ loads' = loads + 1
  /\ pc' = "rearm"
  /\ UNCHANGED <<locked, current, loc, snap, attached>> /\ UNCHANGED queues /\ UNCHANGED clocks

(* An exception before the timers are read. *)
LoadFailsEarly ==
  /\ pc = "loading"
  /\ snap' = NoFile
  /\ pc' = "rearm"
  /\ UNCHANGED <<locked, current, loc, loads, attached>> /\ UNCHANGED queues /\ UNCHANGED clocks

(* Mutant: the event is scheduled again and the old one stays. *)
RearmTwice == heap

(* RearmUpdateEvents removes the event before it schedules it, also when   *)
(* the load threw.                                                         *)
RearmHeap == IF locked THEN heap ELSE Without(Pump)

RearmUpdateEvents ==
  /\ pc = "rearm"
  /\ heap' = IF locked THEN heap
             ELSE [RearmHeap EXCEPT ![current] =
                     Push(@, Event(Pump, Ticks(current) + MaxSlice, "loaded"))]
  /\ IF locked \/ sane[current] THEN UNCHANGED <<slice, down>>
     ELSE ForceExceptionCheck(current, MaxSlice)
  /\ pc' = IF attached = Cores THEN "start" ELSE "split"
  /\ UNCHANGED <<ts, exec, sane, locked, current, loc>> /\ UNCHANGED files

(* RunLoop goes on with a CPU whose Timer is not the one that Timing has   *)
(* for its core.  That one is never advanced: nothing of it is dispatched. *)
(* What the cores do then, and the Timers that only a CPU holds, are left  *)
(* out.                                                                    *)
RunSplit == pc = "split" /\ UNCHANGED vars

-----------------------------------------------------------------------------
GuestCall ==
  \E e \in Guest :
    \/ \E cycles \in Delays, c \in Cores : GuestSchedule(e, cycles, c)
    \/ GuestUnschedule(e)

Callback ==
  \E e \in Guest :
    \/ \E cycles \in Delays \ {0}, c \in Cores : CallbackSchedules(e, cycles, c)
    \/ CallbackUnschedules(e)

RunLoop ==
  \/ Begin \/ SyncCore \/ Dispatch \/ SyncAdvanced \/ Synced
  \/ AdvanceCore \/ Advanced \/ AllAdvanced \/ SetNextSlice
  \/ Idle \/ Execute \/ Proceed \/ EndRun

Load ==
  \/ LoadState \/ LoadTiming \/ LoadRefused \/ LoadFailsEarly \/ RearmUpdateEvents
  \/ \E n \in 1 .. NumCores : LoadTimingThrows(n)
  \/ AttachCore \/ RunSplit
  \/ \E e \in {Pump} \cup Guest : RestoreSchedules(e) \/ RestoreUnschedules(e)
  \/ \E failed \in BOOLEAN : LoadDone(failed)

Next ==
  \/ RunLoop \/ GuestCall \/ Callback \/ SaveState \/ Load
  \/ \E e \in Async, c \in Cores : HostSchedule(e, c)

Spec == Init /\ [][Next]_vars

(* The emulation thread goes on, and does not save or load for ever. *)
FairSpec ==
  /\ Spec
  /\ WF_vars(RunLoop)
  /\ WF_vars(LoadTiming) /\ WF_vars(AttachCore)
  /\ WF_vars(\E failed \in BOOLEAN : LoadDone(failed))
  /\ WF_vars(RearmUpdateEvents)

-----------------------------------------------------------------------------
(* How far cores may be apart beyond a slice. *)
Drift == MinDelay + NumCores * Overshoot

EventType(x) == x.id \in Events /\ x.time \in Int
                /\ x.how \in {"own", "late", "cross", "async", "loaded"}

(* Types; no core runs further past its slice than an overshoot, and until *)
(* a load no slice is longer than MAX_SLICE_LENGTH and the drift of the    *)
(* cores.  After a load it may be: is_timer_sane is not in the file, so    *)
(* GetTicks forgets what each core had run of its slice.                   *)
TypeOK ==
  /\ \A c \in Cores : \A x \in ToSet(heap[c]) \cup ToSet(ts[c]) : EventType(x)
  /\ \A c \in Cores : sane[c] \in BOOLEAN
  /\ \A c \in Cores : /\ exec[c] \in Nat /\ slice[c] \in Nat
                     /\ down[c] \in -Overshoot .. slice[c]
                     /\ loads = 0 => slice[c] <= MaxSlice + Drift
  /\ locked \in BOOLEAN /\ current \in Cores
  /\ pc \in {"start", "sync", "syncing", "advance", "advancing", "slice", "run", "call",
             "called", "ran", "loading", "restoring", "rearm", "split"}
  /\ loads \in 0 .. MaxLoads /\ attached \subseteq Cores

(* The assertion of GetMaxSliceLength: after Advance the next event of a   *)
(* core is in its future, so that no core is ever given an empty slice.    *)
SliceAssertion ==
  /\ pc = "advance" =>
       \A c \in 0 .. loc.core - 1 : heap[c] # <<>> => heap[c][1].time > exec[c]
  /\ pc = "run" => down[loc.core] > 0

(* An event that a core scheduled for itself is dispatched when its time   *)
(* comes, at most by an overshoot late: ForceExceptionCheck shortens the   *)
(* running slice, and no slice reaches past the next event.                *)
DispatchedOnTime ==
  pc \in {"syncing", "advancing"} /\ loads = 0 =>
    \A x \in ToSet(heap[loc.core]) : x.how = "own" => exec[loc.core] - x.time <= Overshoot

(* Cores drift apart by less than a slice, an overshoot each and the delay *)
(* that RunLoop tolerates.                                                 *)
CoresTogether ==
  pc = "start" /\ loads = 0 =>
    \A c, d \in Cores : Ticks(c) - Ticks(d) <= MaxSlice + Drift

Loading == pc \in {"loading", "restoring", "rearm"}

(* The pump of the input is scheduled exactly once whenever the cores run, *)
(* after any load of any state, complete or not, unless the load ended     *)
(* before each CPU had the Timer of its core.                              *)
PumpArmed ==
  ~Loading /\ pc # "split" =>
    Cardinality(UNION {{c} \X {i \in DOMAIN heap[c] : heap[c][i].id = Pump} : c \in Cores}) = 1

(* What another host thread schedules fires, or goes with the Timer it is  *)
(* in when a load replaces it: RunAsync relies on it to wake the thread    *)
(* that waits, whatever the cores schedule and unschedule and however late *)
(* it comes.                                                               *)
EventsFire == \A e \in Async : IsQueued(e) ~> (~IsQueued(e) \/ pc = "split")
=============================================================================
