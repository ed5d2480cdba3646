---------------------------- MODULE MCKernelSync ----------------------------
(* Instances of KernelSync for TLC. *)
EXTENDS KernelSync

CONSTANTS t1, t2, t3, m1, m2, sem, ev, tm

Order2 == <<t1, t2>>
Order3 == <<t1, t2, t3>>
OneProc == [t \in Threads |-> 1]
TwoProcs == [t \in Threads |-> IF t = t3 THEN 2 ELSE 1]
OneCore == [t \in Threads |-> 0]
TwoCores == [t \in Threads |-> IF t = t2 THEN 1 ELSE 0]

(* t1 is the best thread, t3 the worst. *)
Ladder == [t \in Threads |-> IF t = t1 THEN 30 ELSE IF t = t2 THEN 40 ELSE 50]

(* t3 of the other process is the better thread of core 0. *)
TwoLevels == [t \in Threads |-> IF t = t3 THEN 30 ELSE 40]
Flat == [t \in Threads |-> 40]

OneMutex == <<m1>>
TwoMutexes == <<m1, m2>>

Resets == [o \in Events \cup Timers |-> IF o = ev THEN "OneShot" ELSE "Pulse"]

MutexPair == {<<m1, m2>>}
TimerAndEvent == {<<tm, ev>>}
NoLists == {}

(* Words are so small that either release overflows: the one with a full   *)
(* semaphore, the other with a count far below zero.                       *)
Slots == {-1, 1}
SmallMin == -2
=============================================================================
