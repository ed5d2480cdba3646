CONSTANTS
  t1 = t1
  t2 = t2
  t3 = t3
  m1 = m1
  m2 = m2
  sem = sem
  ev = ev
  tm = tm
  NoThread = NoThread
  Threads = {t1, t2, t3}
  ThreadOrder <- Order3
  Procs = {1}
  ProcOf <- OneProc
  NumCores = 1
  CoreOf <- OneCore
  Started = {t1, t2, t3}
  Mutexes = {m1, m2}
  MutexOrder <- TwoMutexes
  Semaphores = {}
  MaxCount = 2
  InitCount = 0
  Events = {}
  Timers = {}
  ResetOf <- Resets
  Prios = {30, 40, 50, 63}
  ThreadPrioLowest = 63
  InitPrio <- Ladder
  NewPrios = {}
  HandleLists <- MutexPair
  Releases = {}
  GuestFaults = {}
  NoMagic = {}
  MaxUsed = 2
  MaxLock = 2
  MinWord <- SmallMin
  MaxWord = 3
SPECIFICATION Spec
INVARIANTS
  NoAssertFails
  WaitListsAgree
  MutexOwnership
  NoDirectInversion
  NoLostWakeup
PROPERTIES
  OnlyHolderReleases
CHECK_DEADLOCK FALSE
