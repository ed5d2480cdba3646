------------------------ MODULE AddressArbiterProofs ------------------------
(***************************************************************************)
(* The list of the address arbiter and the statuses of the threads agree,  *)
(* for any number of threads, processes, cores, addresses and priorities.  *)
(*                                                                         *)
(* WaiterListed and NoZombieWaiter are not inductive: ThreadWakeupCallback *)
(* resumes a thread out of an arbiter wait and takes it off the list only  *)
(* when the arbiter's callback is installed, which an untimed wait does    *)
(* not do.  TimerBelongsToWait is what rules that case out, and it holds   *)
(* because every way out of a wait cancels the timer of that wait.         *)
(***************************************************************************)
EXTENDS AddressArbiter, FiniteSetTheorems, NaturalsInduction, WellFoundedInduction, TLAPS

Inv == TypeOK /\ WaiterListed /\ NoZombieWaiter /\ TimerBelongsToWait

(* Threads leaving a wait through ResumeFromWait keep the types. *)
LEMMA ResumeType ==
  ASSUME TypeOK, NEW S \in SUBSET Threads, ResumeFromWait(S)
  PROVE  /\ status' \in [Threads -> Status]
         /\ callback' \in [Threads -> Callbacks]
         /\ timer' \in [Threads -> Nat]
  BY DEF TypeOK, ResumeFromWait, Status, Callbacks

(* Nobody is parked at the start. *)
LEMMA InitInv == Init => Inv
  <1> SUFFICES ASSUME Init PROVE Inv
    OBVIOUS
  <1>1. TypeOK
    BY DEF Init, TypeOK, Status, Callbacks
  <1>2. WaiterListed /\ NoZombieWaiter /\ TimerBelongsToWait
    BY DEF Init, WaiterListed, NoZombieWaiter, TimerBelongsToWait
  <1> QED BY <1>1, <1>2 DEF Inv

(* Parking: the caller is running, so no timer of an earlier wait is left. *)
LEMMA ParkInv ==
  ASSUME Inv, NEW t \in Threads, NEW a \in Addrs, status[t] = "Running",
         WaitThread(t, a), prio' = prio, mem' \in [Addrs -> Words],
         \/ UNCHANGED <<callback, timer>>
         \/ /\ callback' = [callback EXCEPT ![t] = "arbiter"]
            /\ \E timed \in BOOLEAN : WakeAfterDelay(t, timed)
  PROVE  Inv'
  <1>0. timer[t] = 0
    BY DEF Inv, TypeOK, TimerBelongsToWait, Parked
  <1>1. /\ timer' \in [Threads -> Nat]
        /\ callback' \in [Threads -> Callbacks]
        /\ \A u \in Threads : u # t => timer'[u] = timer[u] /\ callback'[u] = callback[u]
        /\ timer'[t] > 0 => timer'[t] = 1 /\ callback'[t] = "arbiter"
    BY <1>0 DEF Inv, TypeOK, WakeAfterDelay, Callbacks
  <1>2. TypeOK'
    BY <1>1 DEF Inv, TypeOK, WaitThread, Status
  <1>3. WaiterListed' /\ NoZombieWaiter'
    BY DEF Inv, TypeOK, WaiterListed, NoZombieWaiter, WaitThread
  <1>4. TimerBelongsToWait'
    BY <1>1 DEF Inv, TypeOK, TimerBelongsToWait, WaitThread, Parked
  <1> QED BY <1>2, <1>3, <1>4 DEF Inv

(* Signalling: the threads of S leave the wait and the list together. *)
LEMMA SignalInv ==
  ASSUME Inv, NEW t \in Threads, NEW a \in Addrs, NEW n \in Int, Signal(t, a, n)
  PROVE  Inv'
  <1>1. PICK S \in SUBSET PruneStaleWaiters :
          /\ ResumeFromWait(S)
          /\ \/ waiting' = PruneStaleWaiters \ S
             \/ waiting' = waiting /\ S = {}
    <2>1. CASE n < 0
      <3> DEFINE S == {u \in PruneStaleWaiters : waitAddr[u] = a}
      <3> WITNESS S \in SUBSET PruneStaleWaiters
      <3> QED BY <2>1 DEF Signal, ResumeAllThreads
    <2>2. CASE ~(n < 0)
      <3> DEFINE M == {u \in PruneStaleWaiters : waitAddr[u] = a}
      <3>1. PICK S \in SUBSET M :
              /\ Cardinality(S) = IF n < Cardinality(M) THEN n ELSE Cardinality(M)
              /\ ResumeFromWait(S)
              /\ waiting' = IF n = 0 THEN waiting ELSE PruneStaleWaiters \ S
        BY <2>2 DEF Signal, ResumeHighestPriorityThreads, BestWaiters
      <3>2. IsFiniteSet(M) /\ IsFiniteSet(S)
        BY ArbiterAssumption, FS_Subset DEF Inv, TypeOK, PruneStaleWaiters
      <3>3. n = 0 => S = {}
        BY <3>1, <3>2, FS_EmptySet, FS_CardinalityType
      <3> QED BY <3>1, <3>3
    <2> QED BY <2>1, <2>2
  <1>2. S \subseteq waiting /\ \A u \in S : status[u] = "WaitArb"
    BY DEF PruneStaleWaiters
  <1>3. TypeOK'
    BY <1>1, <1>2, ResumeType DEF Inv, TypeOK, Signal, PruneStaleWaiters
  <1>4. WaiterListed' /\ NoZombieWaiter'
    BY <1>1, <1>2 DEF Inv, TypeOK, WaiterListed, NoZombieWaiter, ResumeFromWait,
                      PruneStaleWaiters, Parked
  <1>5. TimerBelongsToWait'
    BY <1>1, <1>2 DEF Inv, TypeOK, TimerBelongsToWait, ResumeFromWait, Parked
  <1> QED BY <1>3, <1>4, <1>5 DEF Inv

(* A timer fires: an arbiter wait that has one has the arbiter's callback. *)
LEMMA TimeoutInv ==
  ASSUME Inv, NEW t \in Threads, ThreadWakeupCallback(t)
  PROVE  Inv'
  <1>1. /\ status[t] \in Parked
        /\ ResumeFromWait({t})
        /\ waiting' = IF TimeoutErases(t) THEN waiting \ {t} ELSE waiting
    BY DEF Inv, TimerBelongsToWait, ThreadWakeupCallback
  <1>2. status[t] = "WaitArb" => TimeoutErases(t)
    BY DEF Inv, TimerBelongsToWait, ThreadWakeupCallback, TimeoutErases
  <1>3. TypeOK'
    BY <1>1, ResumeType DEF Inv, TypeOK, ThreadWakeupCallback
  <1>4. WaiterListed' /\ NoZombieWaiter'
    BY <1>1, <1>2 DEF Inv, TypeOK, WaiterListed, NoZombieWaiter, ResumeFromWait,
                      TimeoutErases, Parked
  <1>5. TimerBelongsToWait'
    BY <1>1 DEF Inv, TypeOK, TimerBelongsToWait, ResumeFromWait, Parked
  <1> QED BY <1>3, <1>4, <1>5 DEF Inv

(* Threads that are stopped stay listed, dead, and without a timer. *)
LEMMA StopInv ==
  ASSUME Inv, NEW S \in SUBSET Threads, Stop(S)
  PROVE  Inv'
  <1>1. TypeOK'
    BY DEF Inv, TypeOK, Stop, Status
  <1>2. WaiterListed' /\ NoZombieWaiter' /\ TimerBelongsToWait'
    BY DEF Inv, TypeOK, WaiterListed, NoZombieWaiter, TimerBelongsToWait, Stop, Parked
  <1> QED BY <1>1, <1>2 DEF Inv

(* Every step keeps the invariant. *)
LEMMA NextInv == Inv /\ [Next]_vars => Inv'
  <1> SUFFICES ASSUME Inv, [Next]_vars PROVE Inv'
    OBVIOUS
  <1> USE DEF Inv
  <1>1. ASSUME NEW t \in Threads, Wait(t) PROVE Inv'
    <2>1. PICK a \in Addrs, value \in Words :
            \/ WaitIfLessThan(t, a, value)
            \/ DecrementAndWaitIfLessThan(t, a, value)
            \/ \E timed \in BOOLEAN :
                 \/ WaitIfLessThanWithTimeout(t, a, value, timed)
                 \/ DecrementAndWaitIfLessThanWithTimeout(t, a, value, timed)
      BY <1>1 DEF Wait
    <2>2. mem' = mem \/ Decrement(a)
      BY <2>1 DEF WaitIfLessThan, DecrementAndWaitIfLessThan,
                  WaitIfLessThanWithTimeout, DecrementAndWaitIfLessThanWithTimeout
    <2>3. mem' \in [Addrs -> Words]
      BY <2>2, ArbiterAssumption DEF TypeOK, Decrement, Words
    <2>4. /\ status[t] = "Running"
          /\ WaitThread(t, a)
          /\ prio' = prio
          /\ \/ UNCHANGED <<callback, timer>>
             \/ /\ callback' = [callback EXCEPT ![t] = "arbiter"]
                /\ \E timed \in BOOLEAN : WakeAfterDelay(t, timed)
      BY <2>1 DEF WaitIfLessThan, DecrementAndWaitIfLessThan,
                  WaitIfLessThanWithTimeout, DecrementAndWaitIfLessThanWithTimeout
    <2> QED BY <2>3, <2>4, ParkInv
  <1>2. ASSUME NEW t \in Threads, NEW a \in Addrs, NEW n \in -1 .. MaxSignal, Signal(t, a, n)
        PROVE  Inv'
    BY <1>2, SignalInv, ArbiterAssumption
  <1>3. ASSUME NEW t \in Threads, SleepThread(t) PROVE Inv'
    BY <1>3 DEF SleepThread, WakeAfterDelay, TypeOK, Status, Parked,
                WaiterListed, NoZombieWaiter, TimerBelongsToWait
  <1>4. ASSUME NEW t \in Threads, NEW timed \in BOOLEAN, WaitSynchronization1(t, timed)
        PROVE  Inv'
    BY <1>4 DEF WaitSynchronization1, WakeAfterDelay, TypeOK, Status, Callbacks, Parked,
                WaiterListed, NoZombieWaiter, TimerBelongsToWait
  <1>5. ASSUME NEW t \in Threads, WakeupAllWaitingThreads(t) PROVE Inv'
    <2>1. TypeOK'
      BY <1>5, ResumeType DEF WakeupAllWaitingThreads, TypeOK
    <2>2. WaiterListed' /\ NoZombieWaiter' /\ TimerBelongsToWait'
      BY <1>5 DEF WakeupAllWaitingThreads, ResumeFromWait, TypeOK, Parked,
                  WaiterListed, NoZombieWaiter, TimerBelongsToWait
    <2> QED BY <2>1, <2>2
  <1>6. ASSUME NEW t \in Threads, ThreadWakeupCallback(t) PROVE Inv'
    BY <1>6, TimeoutInv
  <1>7. ASSUME NEW t \in Threads, ExitThread(t) PROVE Inv'
    BY <1>7, StopInv DEF ExitThread
  <1>8. ASSUME NEW t \in Threads, SwitchContext(t) PROVE Inv'
    BY <1>8 DEF SwitchContext, TypeOK, Status, Parked,
                WaiterListed, NoZombieWaiter, TimerBelongsToWait
  <1>9. ASSUME NEW t \in Threads, NEW p \in Prios, SetThreadPriority(t, p) PROVE Inv'
    BY <1>9 DEF SetThreadPriority, TypeOK, WaiterListed, NoZombieWaiter, TimerBelongsToWait
  <1>10. ASSUME NEW t \in Threads, NEW a \in Addrs, NEW v \in Words, GuestWrite(t, a, v)
         PROVE  Inv'
    BY <1>10 DEF GuestWrite, TypeOK, WaiterListed, NoZombieWaiter, TimerBelongsToWait
  <1>11. ASSUME NEW t \in Threads, NEW p \in Procs, TerminateProcess(t, p) PROVE Inv'
    BY <1>11, StopInv DEF TerminateProcess
  <1>12. CASE UNCHANGED vars
    BY <1>12 DEF vars, TypeOK, WaiterListed, NoZombieWaiter, TimerBelongsToWait
  <1> QED
    BY <1>1, <1>2, <1>3, <1>4, <1>5, <1>6, <1>7, <1>8, <1>9, <1>10, <1>11, <1>12 DEF Next

(* The types of the arbiter's state hold in every reachable state. *)
THEOREM TypeCorrect == Spec => []TypeOK
  <1>1. Inv => TypeOK
    BY DEF Inv
  <1> QED BY <1>1, InitInv, NextInv, PTL DEF Spec

(* Every parked thread is listed, every listed thread is parked or stopped, *)
(* and a wakeup event always belongs to the wait its thread is in.          *)
THEOREM ListAgreesWithStatus == Spec => []WaitsAgree
  <1>1. Inv => WaitsAgree
    BY DEF Inv, WaitsAgree
  <1> QED BY <1>1, InitInv, NextInv, PTL DEF Spec

-----------------------------------------------------------------------------
(* Under the invariant the live part of the list is exactly the parked     *)
(* threads, so a count taken on the list is a count of parked threads.     *)
LEMMA PrunedListIsParked ==
  ASSUME Inv, NEW a \in Addrs
  PROVE  {u \in PruneStaleWaiters : waitAddr[u] = a} = ParkedOn(a)
  BY DEF Inv, TypeOK, WaiterListed, PruneStaleWaiters, ParkedOn

(* A signal wakes exactly the threads of some subset of the parked ones. *)
LEMMA SignalWakes ==
  ASSUME Inv, NEW t \in Threads, NEW a \in Addrs, NEW n \in Int, Signal(t, a, n)
  PROVE  \E S \in SUBSET ParkedOn(a) :
           /\ ResumeFromWait(S)
           /\ Cardinality(S) = IF n < 0 \/ Cardinality(ParkedOn(a)) < n
                               THEN Cardinality(ParkedOn(a)) ELSE n
           /\ \A x \in S, y \in ParkedOn(a) \ S : Before(x, y)
           /\ S = {u \in ParkedOn(a) : status'[u] = "Ready"}
  <1> DEFINE M == ParkedOn(a)
  <1>0. M = {u \in PruneStaleWaiters : waitAddr[u] = a}
    BY PrunedListIsParked
  <1>1. Cardinality(M) \in Nat
    BY ArbiterAssumption, FS_Subset, FS_CardinalityType DEF ParkedOn
  <1>2. \A S \in SUBSET M : ResumeFromWait(S) => S = {u \in M : status'[u] = "Ready"}
    BY DEF Inv, TypeOK, ResumeFromWait, ParkedOn, Parked
  <1>3. CASE n < 0
    <2>1. ResumeFromWait(M)
      BY <1>0, <1>3 DEF Signal, ResumeAllThreads
    <2> QED BY <1>2, <1>3, <2>1
  <1>4. CASE ~(n < 0)
    <2>1. PICK S \in SUBSET M :
            /\ Cardinality(S) = IF n < Cardinality(M) THEN n ELSE Cardinality(M)
            /\ \A x \in S, y \in M \ S : Before(x, y)
            /\ ResumeFromWait(S)
      BY <1>0, <1>4 DEF Signal, ResumeHighestPriorityThreads, BestWaiters
    <2>2. Cardinality(S) = IF n < 0 \/ Cardinality(M) < n THEN Cardinality(M) ELSE n
      BY <1>1, <1>4, <2>1
    <2> QED BY <1>2, <2>1, <2>2
  <1> QED BY <1>3, <1>4

(* A signal for n threads resumes n parked threads, or all when there are   *)
(* fewer: no stale entry of waiting_threads takes a wakeup.                 *)
THEOREM NoSwallowedWakeup == Spec => SignalNotSwallowed
  <1> DEFINE A == \A t \in Threads, a \in Addrs, n \in -1 .. MaxSignal :
                    Signal(t, a, n) =>
                      LET N == Cardinality(ParkedOn(a))
                      IN  Cardinality({u \in ParkedOn(a) : status'[u] = "Ready"})
                            = IF n < 0 \/ N < n THEN N ELSE n
  <1>1. Inv => A
    <2> SUFFICES ASSUME Inv, NEW t \in Threads, NEW a \in Addrs,
                        NEW n \in -1 .. MaxSignal, Signal(t, a, n)
                 PROVE  Cardinality({u \in ParkedOn(a) : status'[u] = "Ready"})
                          = IF n < 0 \/ Cardinality(ParkedOn(a)) < n
                            THEN Cardinality(ParkedOn(a)) ELSE n
      OBVIOUS
    <2>1. n \in Int
      BY ArbiterAssumption
    <2> QED BY <2>1, SignalWakes
  <1>2. Inv /\ [Next]_vars => [A]_vars
    BY <1>1
  <1> QED BY <1>2, InitInv, NextInv, PTL DEF Spec, SignalNotSwallowed

-----------------------------------------------------------------------------
(* The refinement: every step of the arbiter is a step of the parking lot. *)

(* The initial states of the arbiter are initial states of the lot. *)
LEMMA InitLot == Init => Lot!Init
  BY DEF Init, Lot!Init

(* Resuming a set of parked threads is a step of the lot. *)
LEMMA ReleaseLot ==
  ASSUME Inv, NEW S \in SUBSET Threads, ResumeFromWait(S), UNCHANGED <<prio, waitAddr>>,
         \A u \in S : status[u] = "WaitArb"
  PROVE  Lot!Release(S)
         /\ {u \in Threads : status[u] = "Dead"}' = {u \in Threads : status[u] = "Dead"}
  BY DEF Inv, TypeOK, ResumeFromWait, Parked, Lot!Release

(* A step that touches no arbiter wait and no stopped thread is a stutter. *)
LEMMA StutterLot ==
  ASSUME Inv, UNCHANGED <<prio, waitAddr>>,
         \A u \in Threads : \/ UNCHANGED <<status[u], callback[u], timer[u]>>
                            \/ /\ status[u] \notin {"WaitArb", "Dead"}
                               /\ status'[u] \notin {"WaitArb", "Dead"}
  PROVE  UNCHANGED Lot!lotVars
  BY DEF Lot!lotVars

(* Stopping a set of threads is a step of the lot. *)
LEMMA StopLot ==
  ASSUME Inv, NEW S \in SUBSET Threads, Stop(S)
  PROVE  Lot!Next
  <1>1. Lot!Kill(S)
    BY DEF Inv, TypeOK, Stop, Lot!Kill, Lot!Release
  <1> QED BY <1>1 DEF Lot!Next

(* Every step of the arbiter is a step of the lot, or a stutter. *)
LEMMA StepLot == Inv /\ [Next]_vars => [Lot!Next]_(Lot!lotVars)
  <1> SUFFICES ASSUME Inv, [Next]_vars PROVE [Lot!Next]_(Lot!lotVars)
    OBVIOUS
  <1>1. ASSUME NEW t \in Threads, Wait(t) PROVE Lot!Next
    <2>0. PICK a \in Addrs : /\ status[t] = "Running"
                             /\ WaitThread(t, a)
                             /\ prio' = prio
                             /\ \/ UNCHANGED <<callback, timer>>
                                \/ /\ callback' = [callback EXCEPT ![t] = "arbiter"]
                                   /\ \E timed \in BOOLEAN : WakeAfterDelay(t, timed)
      BY <1>1 DEF Wait, WaitIfLessThan, DecrementAndWaitIfLessThan,
                  WaitIfLessThanWithTimeout, DecrementAndWaitIfLessThanWithTimeout
    <2>1. \A u \in Threads \ {t} : callback'[u] = callback[u] /\ timer'[u] = timer[u]
      BY <2>0 DEF Inv, TypeOK, WakeAfterDelay
    <2>2. PICK w \in BOOLEAN : w = (callback'[t] = "arbiter" /\ timer'[t] > 0)
      OBVIOUS
    <2>3. /\ status'[t] = "WaitArb" /\ waitAddr'[t] = a
          /\ \A u \in Threads \ {t} : status'[u] = status[u] /\ waitAddr'[u] = waitAddr[u]
      BY <2>0 DEF Inv, TypeOK, WaitThread
    <2>4. [u \in Threads |-> IF status[u] = "WaitArb" THEN waitAddr[u] ELSE NoAddr]'
            = [[u \in Threads |-> IF status[u] = "WaitArb" THEN waitAddr[u] ELSE NoAddr]
                 EXCEPT ![t] = a]
      BY <2>3
    <2>5. [u \in Threads |-> status[u] = "WaitArb" /\ callback[u] = "arbiter" /\ timer[u] > 0]'
            = [[u \in Threads |-> status[u] = "WaitArb" /\ callback[u] = "arbiter"
                                                       /\ timer[u] > 0] EXCEPT ![t] = w]
      BY <2>1, <2>2, <2>3
    <2>6. {u \in Threads : status[u] = "Dead"}' = {u \in Threads : status[u] = "Dead"}
      BY <2>0, <2>3
    <2>7. Lot!Park(t, a, w)
      BY <2>0, <2>4, <2>5, <2>6 DEF Lot!Park
    <2> QED BY <2>7, Zenon DEF Lot!Next
  <1>2. ASSUME NEW t \in Threads, NEW a \in Addrs, NEW n \in -1 .. MaxSignal, Signal(t, a, n)
        PROVE  Lot!Next
    <2>1. n \in Int
      BY ArbiterAssumption
    <2>2. PICK S \in SUBSET ParkedOn(a) :
            /\ ResumeFromWait(S)
            /\ \A x \in S, y \in ParkedOn(a) \ S : Before(x, y)
      BY <1>2, <2>1, SignalWakes
    <2>3. ParkedOn(a) = Lot!At(a)
      BY ArbiterAssumption DEF ParkedOn, Lot!At
    <2>4. ASSUME NEW x \in S, NEW y \in ParkedOn(a) \ S PROVE prio[x] <= prio[y]
      <3>1. Before(x, y)
        BY <2>2
      <3>2. prio[x] \in Nat /\ prio[y] \in Nat
        BY ArbiterAssumption DEF Inv, TypeOK, ParkedOn
      <3> QED BY <3>1, <3>2 DEF Before
    <2>5. S \in SUBSET Threads /\ \A u \in S : status[u] = "WaitArb"
      BY DEF ParkedOn
    <2>6. Lot!Release(S)
          /\ {u \in Threads : status[u] = "Dead"}' = {u \in Threads : status[u] = "Dead"}
      BY <1>2, <2>2, <2>5, ReleaseLot DEF Signal
    <2>7. Lot!Signal(a)
      BY <2>3, <2>4, <2>6 DEF Lot!Signal
    <2> QED BY <2>7 DEF Lot!Next
  <1>3. ASSUME NEW t \in Threads, ThreadWakeupCallback(t) PROVE [Lot!Next]_(Lot!lotVars)
    <2>1. ResumeFromWait({t}) /\ UNCHANGED <<prio, waitAddr>> /\ timer[t] > 0
      BY <1>3 DEF Inv, TimerBelongsToWait, ThreadWakeupCallback
    <2>2. CASE status[t] = "WaitArb"
      <3>1. callback[t] = "arbiter"
        BY <2>1, <2>2 DEF Inv, TimerBelongsToWait
      <3>2. {t} \in SUBSET Threads /\ \A u \in {t} : status[u] = "WaitArb"
        BY <2>2
      <3>3. Lot!Release({t})
            /\ {u \in Threads : status[u] = "Dead"}' = {u \in Threads : status[u] = "Dead"}
        BY <2>1, <3>2, ReleaseLot
      <3>4. Lot!Expire(t)
        BY <2>1, <2>2, <3>1, <3>3 DEF Lot!Expire
      <3> QED BY <3>4 DEF Lot!Next
    <2>3. CASE status[t] # "WaitArb"
      <3>1. \A u \in Threads :
              \/ UNCHANGED <<status[u], callback[u], timer[u]>>
              \/ /\ status[u] \notin {"WaitArb", "Dead"}
                 /\ status'[u] \notin {"WaitArb", "Dead"}
        BY <2>1, <2>3 DEF ResumeFromWait, Parked
      <3> QED BY <2>1, <3>1, StutterLot
    <2> QED BY <2>2, <2>3
  <1>4. ASSUME NEW t \in Threads,
               \/ SleepThread(t)
               \/ \E timed \in BOOLEAN : WaitSynchronization1(t, timed)
               \/ WakeupAllWaitingThreads(t)
               \/ SwitchContext(t)
               \/ \E a \in Addrs, v \in Words : GuestWrite(t, a, v)
        PROVE  UNCHANGED Lot!lotVars
    <2>1. \A u \in Threads :
            \/ UNCHANGED <<status[u], callback[u], timer[u]>>
            \/ /\ status[u] \notin {"WaitArb", "Dead"}
               /\ status'[u] \notin {"WaitArb", "Dead"}
      BY <1>4 DEF Inv, TypeOK, SleepThread, WaitSynchronization1, WakeupAllWaitingThreads,
                  SwitchContext, GuestWrite, ResumeFromWait, WakeAfterDelay, Parked
    <2>2. UNCHANGED <<prio, waitAddr>>
      BY <1>4 DEF SleepThread, WaitSynchronization1, WakeupAllWaitingThreads,
                  SwitchContext, GuestWrite
    <2> QED BY <2>1, <2>2, StutterLot
  <1>5. ASSUME NEW t \in Threads, ExitThread(t) PROVE Lot!Next
    BY <1>5, StopLot DEF ExitThread
  <1>6. ASSUME NEW t \in Threads, NEW p \in Procs, TerminateProcess(t, p) PROVE Lot!Next
    BY <1>6, StopLot DEF TerminateProcess
  <1>7. ASSUME NEW t \in Threads, NEW p \in Prios, SetThreadPriority(t, p) PROVE Lot!Next
    <2>1. Lot!SetPriority(t, p)
      BY <1>7 DEF SetThreadPriority, Lot!SetPriority
    <2> QED BY <2>1 DEF Lot!Next
  <1>8. CASE UNCHANGED vars
    BY <1>8 DEF vars, Lot!lotVars
  <1> QED BY <1>1, <1>2, <1>3, <1>4, <1>5, <1>6, <1>7, <1>8 DEF Next

(* The arbiter implements the parking lot: a thread leaves its wait only by *)
(* a signal, best priority first, by its own timeout, or by being stopped.  *)
THEOREM ArbiterImplementsLot == Spec => ImplementsLot
  BY InitInv, NextInv, InitLot, StepLot, PTL DEF Spec, ImplementsLot, Lot!Spec

-----------------------------------------------------------------------------
(* The order of the list.  What the arbiter knows about it is, for each     *)
(* member, which members stood before it: on the members this is a strict   *)
(* total order, although nothing updates it when a thread leaves the list.  *)
ListOrdered ==
  \A t, u, v \in waiting :
    /\ t \notin ahead[t]
    /\ t # u => (t \in ahead[u] <=> u \notin ahead[t])
    /\ t \in ahead[u] /\ u \in ahead[v] => t \in ahead[v]

(* A step that appends nothing only takes threads off the list. *)
LEMMA ShorterOrdered ==
  ASSUME ListOrdered, waiting' \in SUBSET waiting, ahead' = ahead
  PROVE  ListOrdered'
  BY DEF ListOrdered

(* WaitThread puts the caller after every other member. *)
LEMMA AppendOrdered ==
  ASSUME TypeOK, ListOrdered, NEW t \in Threads, NEW a, WaitThread(t, a)
  PROVE  ListOrdered'
  <1> SUFFICES ASSUME NEW x \in waiting', NEW y \in waiting', NEW z \in waiting'
               PROVE  /\ x \notin ahead'[x]
                      /\ x # y => (x \in ahead'[y] <=> y \notin ahead'[x])
                      /\ x \in ahead'[y] /\ y \in ahead'[z] => x \in ahead'[z]
    BY DEF ListOrdered
  <1>1. /\ waiting' = waiting \cup {t} /\ waiting \subseteq Threads
        /\ ahead'[t] = waiting \ {t}
        /\ \A u \in waiting \ {t} : ahead'[u] = ahead[u] \ {t}
    BY DEF WaitThread, TypeOK
  <1>2. x \notin ahead'[x]
    BY <1>1 DEF ListOrdered
  <1>3. x # y => (x \in ahead'[y] <=> y \notin ahead'[x])
    BY <1>1 DEF ListOrdered
  <1>4. x \in ahead'[y] /\ y \in ahead'[z] => x \in ahead'[z]
    BY <1>1 DEF ListOrdered
  <1> QED BY <1>2, <1>3, <1>4

LEMMA NextOrdered == Inv /\ ListOrdered /\ [Next]_vars => ListOrdered'
  <1> SUFFICES ASSUME Inv, ListOrdered, [Next]_vars PROVE ListOrdered'
    OBVIOUS
  <1>0. TypeOK
    BY DEF Inv
  <1>1. CASE UNCHANGED vars
    BY <1>1 DEF vars, ListOrdered
  <1>2. CASE Next
    <2>1. PICK t \in Threads :
            \/ Wait(t)
            \/ \E a \in Addrs, value \in -1 .. MaxSignal : Signal(t, a, value)
            \/ SleepThread(t)
            \/ \E timed \in BOOLEAN : WaitSynchronization1(t, timed)
            \/ WakeupAllWaitingThreads(t)
            \/ ThreadWakeupCallback(t)
            \/ ExitThread(t)
            \/ \E p \in Procs : TerminateProcess(t, p)
            \/ SwitchContext(t)
            \/ \E p \in Prios : SetThreadPriority(t, p)
            \/ \E a \in Addrs, v \in Words : GuestWrite(t, a, v)
      BY <1>2 DEF Next
    <2>2. CASE Wait(t)
      <3>1. PICK a \in Addrs : WaitThread(t, a)
        BY <2>2 DEF Wait, WaitIfLessThan, DecrementAndWaitIfLessThan,
             WaitIfLessThanWithTimeout, DecrementAndWaitIfLessThanWithTimeout
      <3> QED BY <3>1, <1>0, AppendOrdered
    <2>3. CASE \E a \in Addrs, value \in -1 .. MaxSignal : Signal(t, a, value)
      <3>1. waiting' \in SUBSET waiting /\ ahead' = ahead
        BY <2>3 DEF Signal, ResumeAllThreads, ResumeHighestPriorityThreads,
             PruneStaleWaiters
      <3> QED BY <3>1, ShorterOrdered
    <2>4. CASE ThreadWakeupCallback(t)
      <3>1. waiting' \in SUBSET waiting /\ ahead' = ahead
        BY <2>4 DEF ThreadWakeupCallback
      <3> QED BY <3>1, ShorterOrdered
    <2>5. CASE \/ SleepThread(t)
               \/ \E timed \in BOOLEAN : WaitSynchronization1(t, timed)
               \/ WakeupAllWaitingThreads(t)
               \/ ExitThread(t)
               \/ \E p \in Procs : TerminateProcess(t, p)
               \/ SwitchContext(t)
               \/ \E p \in Prios : SetThreadPriority(t, p)
               \/ \E a \in Addrs, v \in Words : GuestWrite(t, a, v)
      <3>1. waiting' \in SUBSET waiting /\ ahead' = ahead
        BY <2>5 DEF SleepThread, WaitSynchronization1, WakeupAllWaitingThreads,
             ExitThread, TerminateProcess, Stop, SwitchContext,
             SetThreadPriority, GuestWrite
      <3> QED BY <3>1, ShorterOrdered
    <2> QED BY <2>1, <2>2, <2>3, <2>4, <2>5
  <1> QED BY <1>1, <1>2

-----------------------------------------------------------------------------
(* The picks of a signal. *)

(* Before orders the members of the list. *)
LEMMA BeforeOrder ==
  ASSUME TypeOK, ListOrdered, NEW t \in waiting, NEW u \in waiting, NEW v \in waiting
  PROVE  /\ ~Before(t, t)
         /\ ~(Before(t, u) /\ Before(u, t))
         /\ t # u => Before(t, u) \/ Before(u, t)
         /\ Before(t, u) /\ Before(u, v) => Before(t, v)
  <1>1. prio[t] \in Nat /\ prio[u] \in Nat /\ prio[v] \in Nat
    BY ArbiterAssumption DEF TypeOK
  <1>2. /\ t \notin ahead[t]
        /\ t = u => t \notin ahead[u]
        /\ t # u => (t \in ahead[u] <=> u \notin ahead[t])
        /\ t \in ahead[u] /\ u \in ahead[v] => t \in ahead[v]
    BY DEF ListOrdered
  <1> QED BY <1>1, <1>2 DEF Before

LEMMA Least ==
  ASSUME NEW T \in SUBSET Nat, T # {}
  PROVE  \E n \in T : \A m \in T : n <= m
  <1>1. PICK n \in T : \A m \in T : ~(<<m, n>> \in OpToRel(<, Nat))
    BY WFMin, NatLessThanWellFounded
  <1>2. \A m \in T : ~(m < n)
    BY <1>1 DEF OpToRel
  <1> QED BY <1>2

(* Among any parked threads there is one that min_element finds. *)
LEMMA MinElementExists ==
  ASSUME TypeOK, ListOrdered, NEW M \in SUBSET waiting, M # {}
  PROVE  /\ MinElement(M) \in M
         /\ \A u \in M \ {MinElement(M)} : Before(MinElement(M), u)
  <1> DEFINE D(t) == {u \in M : Before(u, t)}
             N(t) == Cardinality(D(t))
             T == {N(t) : t \in M}
  <1>1. \A t \in M : IsFiniteSet(D(t)) /\ N(t) \in Nat
    <2>1. waiting \subseteq Threads
      BY DEF TypeOK
    <2> QED BY <2>1, ArbiterAssumption, FS_Subset, FS_CardinalityType
  <1>2. T \in SUBSET Nat /\ T # {}
    BY <1>1
  <1>3. PICK n \in T : \A m \in T : n <= m
    BY <1>2, Least
  <1>4. PICK t \in M : N(t) = n
    BY <1>3
  <1>5. D(t) = {}
    <2> SUFFICES ASSUME NEW u \in D(t) PROVE FALSE
      OBVIOUS
    <2>1. u \in M /\ Before(u, t)
      OBVIOUS
    <2>2. D(u) \subseteq D(t)
      BY <2>1, BeforeOrder
    <2>3. u \notin D(u)
      BY <2>1, BeforeOrder
    <2>4. D(u) # D(t)
      BY <2>3
    <2>5. N(u) < N(t)
      <3> HIDE DEF D
      <3>1. /\ N(u) <= N(t)
            /\ N(u) = N(t) => D(u) = D(t)
        BY <1>1, <2>2, FS_Subset
      <3> QED BY <3>1, <2>1, <2>4, <1>1
    <2>6. N(u) \in T /\ N(u) \in Nat /\ N(t) \in Nat
      BY <2>1, <1>1
    <2>7. n <= N(u)
      BY <2>6, <1>3
    <2> HIDE DEF N, T
    <2> QED BY <2>5, <2>6, <2>7, <1>4
  <1>6. \A u \in M \ {t} : Before(t, u)
    <2> TAKE u \in M \ {t}
    <2>1. ~Before(u, t)
      BY <1>5
    <2> QED BY <2>1, BeforeOrder
  <1> QED BY <1>6 DEF MinElement

(* A set that holds 0 and, with a number below n, the next one holds n. *)
Inductive(T, n) == 0 \in T /\ \A i \in 1 .. n : i - 1 \in T => i \in T

LEMMA UpTo ==
  ASSUME NEW n \in Nat, NEW T, Inductive(T, n)
  PROVE  n \in T
<1> USE DEF Inductive
<1> SUFFICES ASSUME n \notin T PROVE FALSE
  OBVIOUS
<1> DEFINE F == {i \in 0 .. n : i \notin T}
<1>1. F \in SUBSET Nat /\ F # {}
  OBVIOUS
<1>2. PICK k \in F : \A m \in F : k <= m
  BY <1>1, Least
<1>3. k \in 1 .. n /\ k - 1 \in 0 .. n
  BY <1>2
<1>4. k - 1 \in T
  BY <1>2, <1>3
<1> QED
  BY <1>2, <1>3, <1>4

(* A loop of n steps from a has a value after each step. *)
IsLoop(f, n, S, a, step) ==
  f \in [0 .. n -> S] /\ f[0] = a /\ \A i \in 1 .. n : f[i] = step[<<i, f[i - 1]>>]

LEMMA LoopExists ==
  ASSUME NEW n \in Nat, NEW S, NEW a \in S, NEW step \in [(1 .. n) \X S -> S]
  PROVE  \E f : IsLoop(f, n, S, a, step)
<1> DEFINE Part(m, f) == f[0] = a /\ \A i \in 1 .. m : f[i] = step[<<i, f[i - 1]>>]
           T == {m \in 0 .. n : \E f \in [0 .. m -> S] : Part(m, f)}
<1>1. 0 \in T
  <2> DEFINE f == [i \in 0 .. 0 |-> a]
  <2>1. f \in [0 .. 0 -> S] /\ Part(0, f)
    OBVIOUS
  <2> HIDE DEF f
  <2> QED
    BY <2>1
<1>2. ASSUME NEW m \in 1 .. n, m - 1 \in T PROVE m \in T
  <2>1. PICK f \in [0 .. m - 1 -> S] : Part(m - 1, f)
    BY <1>2
  <2> DEFINE v == step[<<m, f[m - 1]>>]
             g == [i \in 0 .. m |-> IF i = m THEN v ELSE f[i]]
  <2>2. f[m - 1] \in S /\ <<m, f[m - 1]>> \in (1 .. n) \X S
    BY <2>1
  <2>3. v \in S
    BY <2>2
  <2> HIDE DEF v
  <2>4. g \in [0 .. m -> S]
    BY <2>1, <2>3
  <2>5. g[0] = a
    BY <2>1
  <2>6. ASSUME NEW i \in 1 .. m PROVE g[i] = step[<<i, g[i - 1]>>]
    <3>1. CASE i = m
      <4>1. g[i] = v /\ g[i - 1] = f[m - 1]
        BY <3>1
      <4> QED
        BY <4>1, <3>1 DEF v
    <3>2. CASE i # m
      <4>1. i \in 1 .. m - 1 /\ g[i] = f[i] /\ g[i - 1] = f[i - 1]
        BY <3>2
      <4>2. f[i] = step[<<i, f[i - 1]>>]
        BY <4>1, <2>1
      <4> QED
        BY <4>1, <4>2
    <3> QED
      BY <3>1, <3>2
  <2> HIDE DEF g
  <2> QED
    BY <2>4, <2>5, <2>6
<1> HIDE DEF T
<1>3. n \in T
  BY <1>1, <1>2, UpTo DEF Inductive
<1> QED
  BY <1>3 DEF T, IsLoop

-----------------------------------------------------------------------------
(* What n rounds may have woken of the threads M: as many as there were     *)
(* rounds, or all of them, and none left out that stands before one of them.*)
Prefix(M, n, S) ==
  /\ S \in SUBSET M
  /\ Cardinality(S) = IF n < Cardinality(M) THEN n ELSE Cardinality(M)
  /\ \A t \in S, u \in M \ S : Before(t, u)

(* Two such sets are the same: of two different ones of one size each has a *)
(* member that the other lacks, and each of the two stands before the other.*)
LEMMA PrefixUnique ==
  ASSUME TypeOK, ListOrdered, NEW M \in SUBSET waiting, NEW n \in Nat,
         NEW S, NEW R, Prefix(M, n, S), Prefix(M, n, R)
  PROVE  S = R
  <1>1. IsFiniteSet(M) /\ IsFiniteSet(S) /\ IsFiniteSet(R)
    <2>1. M \in SUBSET Threads
      BY DEF TypeOK
    <2>2. IsFiniteSet(M)
      BY <2>1, ArbiterAssumption, FS_Subset
    <2> QED BY <2>2, FS_Subset DEF Prefix
  <1>2. Cardinality(S) = Cardinality(R)
    BY DEF Prefix
  <1>3. S \subseteq R \/ R \subseteq S
    <2> SUFFICES ASSUME NEW x \in S, x \notin R, NEW y \in R, y \notin S PROVE FALSE
      OBVIOUS
    <2>1. x \in waiting /\ y \in waiting /\ Before(x, y) /\ Before(y, x)
      BY DEF Prefix
    <2> QED BY <2>1, BeforeOrder
  <1> QED BY <1>1, <1>2, <1>3, FS_Subset

(* One more round. *)
LEMMA PrefixNext ==
  ASSUME TypeOK, ListOrdered, NEW M \in SUBSET waiting, NEW i \in Nat, i > 0,
         NEW S, Prefix(M, i - 1, S)
  PROVE  Prefix(M, i, ResumeHighestPriorityThread(M, S))
  <1>1. S \in SUBSET M
    BY DEF Prefix
  <1>2. IsFiniteSet(M) /\ IsFiniteSet(S)
    <2>1. M \in SUBSET Threads
      BY DEF TypeOK
    <2>2. IsFiniteSet(M)
      BY <2>1, ArbiterAssumption, FS_Subset
    <2> QED BY <2>2, <1>1, FS_Subset
  <1>3. Cardinality(M) \in Nat /\ Cardinality(S) \in Nat
    BY <1>2, FS_CardinalityType
  <1>4. Cardinality(S) = IF i - 1 < Cardinality(M) THEN i - 1 ELSE Cardinality(M)
    BY DEF Prefix
  <1>5. ASSUME M \subseteq S PROVE Prefix(M, i, S)
    <2>1. S = M
      BY <1>1, <1>5
    <2>2. Cardinality(M) <= i - 1
      BY <2>1, <1>3, <1>4
    <2> QED BY <2>1, <2>2, <1>3 DEF Prefix
  <1>6. ASSUME ~(M \subseteq S) PROVE Prefix(M, i, S \cup {MinElement(M \ S)})
    <2> DEFINE L == M \ S
               x == MinElement(L)
    <2>1. L \in SUBSET waiting /\ L # {}
      BY <1>6
    <2>2. x \in L /\ \A u \in L \ {x} : Before(x, u)
      <3> HIDE DEF L
      <3> QED BY <2>1, MinElementExists
    <2> HIDE DEF x
    <2>3. Cardinality(S \cup {x}) = Cardinality(S) + 1
      BY <2>2, <1>2, FS_AddElement
    <2>4. S # M /\ Cardinality(S) <= Cardinality(M) /\ Cardinality(S) # Cardinality(M)
      BY <1>1, <1>2, <1>6, FS_Subset
    <2>5. Cardinality(S \cup {x}) = IF i < Cardinality(M) THEN i ELSE Cardinality(M)
      BY <2>3, <2>4, <1>3, <1>4
    <2>6. \A t \in S, u \in M \ S : Before(t, u)
      BY DEF Prefix
    <2>7. S \cup {x} \in SUBSET M
      BY <1>1, <2>2
    <2>8. \A t \in S \cup {x}, u \in M \ (S \cup {x}) : Before(t, u)
      BY <2>2, <2>6
    <2>9. Prefix(M, i, S \cup {x})
      BY <2>5, <2>7, <2>8 DEF Prefix
    <2> QED BY <2>9 DEF x
  <1> QED BY <1>5, <1>6 DEF ResumeHighestPriorityThread

(* The loop wakes such a set, however many rounds it makes. *)
LEMMA LoopPrefix ==
  ASSUME TypeOK, ListOrdered, NEW M \in SUBSET waiting, NEW n \in Nat
  PROVE  Prefix(M, n, SignalLoop(M, n))
  <1> DEFINE Round(S) == ResumeHighestPriorityThread(M, S)
             Def(g) == g = [i \in 0 .. n |-> IF i = 0 THEN {} ELSE Round(g[i - 1])]
             step == [w \in (1 .. n) \X SUBSET M |-> Round(w[2])]
             g == CHOOSE g : Def(g)
  <1>1. \A S \in SUBSET M : Round(S) \in SUBSET M
    <2> SUFFICES ASSUME NEW S \in SUBSET M, ~(M \subseteq S)
                 PROVE  MinElement(M \ S) \in M
      BY DEF ResumeHighestPriorityThread
    <2> DEFINE L == M \ S
    <2>1. L \in SUBSET waiting /\ L # {} /\ L \subseteq M
      OBVIOUS
    <2> HIDE DEF L
    <2>2. MinElement(L) \in L
      BY <2>1, MinElementExists
    <2> QED BY <2>1, <2>2 DEF L
  <1>2. step \in [(1 .. n) \X SUBSET M -> SUBSET M]
    BY <1>1
  <1>3. \A i \in 1 .. n, S \in SUBSET M : step[<<i, S>>] = Round(S)
    OBVIOUS
  <1> HIDE DEF step
  <1>4. {} \in SUBSET M
    OBVIOUS
  <1>5. PICK f : IsLoop(f, n, SUBSET M, {}, step)
    BY <1>2, <1>4, LoopExists
  <1>6. /\ f \in [0 .. n -> SUBSET M]
        /\ f[0] = {} /\ \A i \in 1 .. n : f[i] = step[<<i, f[i - 1]>>]
    BY <1>5 DEF IsLoop
  <1>7. \A i \in 1 .. n : f[i] = Round(f[i - 1])
    <2> TAKE i \in 1 .. n
    <2>1. f[i - 1] \in SUBSET M
      BY <1>6
    <2> QED BY <2>1, <1>3, <1>6
  <1> HIDE DEF Round
  <1>8. Def(f)
    BY <1>6, <1>7
  <1>9. Def(g)
    BY <1>8
  <1> HIDE DEF g
  <1>10. g[0] = {} /\ \A i \in 1 .. n : g[i] = Round(g[i - 1])
    <2>1. \A i \in 0 .. n : g[i] = IF i = 0 THEN {} ELSE Round(g[i - 1])
      BY <1>9
    <2>2. 0 \in 0 .. n /\ \A i \in 1 .. n : i \in 0 .. n /\ i # 0
      OBVIOUS
    <2>3. g[0] = {}
      BY <2>1, <2>2
    <2>4. \A i \in 1 .. n : g[i] = Round(g[i - 1])
      BY <2>1, <2>2
    <2> QED BY <2>3, <2>4
  <1> DEFINE T == {i \in 0 .. n : Prefix(M, i, g[i])}
  <1>11. 0 \in T
    <2>1. IsFiniteSet(M) /\ Cardinality(M) \in Nat
      <3>1. M \in SUBSET Threads
        BY DEF TypeOK
      <3> QED BY <3>1, ArbiterAssumption, FS_Subset, FS_CardinalityType
    <2>2. Cardinality({}) = 0
      BY FS_EmptySet
    <2> QED BY <1>10, <2>1, <2>2 DEF Prefix
  <1>12. ASSUME NEW i \in 1 .. n, i - 1 \in T PROVE i \in T
    <2>1. i \in Nat /\ i > 0 /\ Prefix(M, i - 1, g[i - 1])
      BY <1>12
    <2>2. Prefix(M, i, Round(g[i - 1]))
      BY <2>1, PrefixNext DEF Round
    <2> QED BY <2>2, <1>10
  <1> HIDE DEF T
  <1>13. n \in T
    BY <1>11, <1>12, UpTo DEF Inductive
  <1>14. Prefix(M, n, g[n])
    BY <1>13 DEF T
  <1>15. SignalLoop(M, n) = g[n]
    BY DEF SignalLoop, g, Round
  <1> QED BY <1>14, <1>15

(* The closed form is the loop: whatever the priorities, the order of the   *)
(* list and the count, exactly one set satisfies BestWaiters, and it is the *)
(* set the rounds of ResumeHighestPriorityThread wake.                      *)
THEOREM BestWaitersIsSignalLoop == Spec => []ClosedFormIsLoop
  <1>1. Init => ListOrdered
    BY DEF Init, ListOrdered
  <1>2. Inv /\ ListOrdered => ClosedFormIsLoop
    <2> SUFFICES ASSUME Inv, ListOrdered, NEW a \in Addrs, NEW n \in 0 .. MaxSignal
                 PROVE  BestWaiters(a, n)
                          = {SignalLoop({u \in PruneStaleWaiters : waitAddr[u] = a}, n)}
      BY DEF ClosedFormIsLoop
    <2> DEFINE M == {u \in PruneStaleWaiters : waitAddr[u] = a}
               W == SignalLoop(M, n)
    <2>1. TypeOK /\ n \in Nat /\ M \in SUBSET waiting
      BY DEF Inv, PruneStaleWaiters
    <2>2. BestWaiters(a, n) = {S \in SUBSET M : Prefix(M, n, S)}
      BY DEF BestWaiters, Prefix
    <2> HIDE DEF M
    <2>3. Prefix(M, n, W) /\ W \in SUBSET M
      BY <2>1, LoopPrefix DEF Prefix
    <2>4. \A S \in SUBSET M : Prefix(M, n, S) => S = W
      BY <2>1, <2>3, PrefixUnique
    <2> HIDE DEF W
    <2>5. BestWaiters(a, n) = {W}
      BY <2>2, <2>3, <2>4
    <2> QED BY <2>5 DEF W, M
  <1> QED BY <1>1, <1>2, InitInv, NextInv, NextOrdered, PTL DEF Spec
=============================================================================
