CONSTANTS
  t1 = t1
  t2 = t2
  t3 = t3
  m1 = m1
  m2 = m2
  sem = sem
  ev = ev
  tm = tm
  NoThread = NoThread
  Threads = {t1, t2, t3}
  ThreadOrder <- Order3
  Procs = {1, 2}
  ProcOf <- TwoProcs
  NumCores = 2
  CoreOf <- TwoCores
  Started = {t1, t3}
  Mutexes = {m1}
  MutexOrder <- OneMutex
  Semaphores = {}
  MaxCount = 2
  InitCount = 0
  Events = {}
  Timers = {}
  ResetOf <- Resets
  Prios = {30, 40, 63}
  ThreadPrioLowest = 63
  InitPrio <- TwoLevels
  NewPrios = {40}
  HandleLists <- NoLists
  Releases = {}
  GuestFaults = {"invalid_entry"}
  NoMagic = {t2}
  MaxUsed = 2
  MaxLock = 1
  MinWord <- SmallMin
  MaxWord = 3
SPECIFICATION Spec
INVARIANTS
  InheritedPriority
  ReadyQueueExact
  BestThreadRuns
PROPERTIES
  DeadStayDead
  ThreadCountKept
CHECK_DEADLOCK FALSE
