CONSTANTS
  t1 = t1
  t2 = t2
  t3 = t3
  m1 = m1
  m2 = m2
  sem = sem
  ev = ev
  tm = tm
  NoThread = NoThread
  Threads = {t1, t2}
  ThreadOrder <- Order2
  Procs = {1}
  ProcOf <- OneProc
  NumCores = 1
  CoreOf <- OneCore
  Started = {t1}
  Mutexes = {m1}
  MutexOrder <- OneMutex
  Semaphores = {sem}
  MaxCount = 1
  InitCount = 0
  Events = {ev}
  Timers = {tm}
  ResetOf <- Resets
  Prios = {40, 63}
  ThreadPrioLowest = 63
  InitPrio <- Flat
  NewPrios = {40}
  HandleLists <- TimerAndEvent
  Releases <- Slots
  GuestFaults = {"invalid_entry"}
  NoMagic = {}
  MaxUsed = 2
  MaxLock = 1
  MinWord <- SmallMin
  MaxWord = 1
SPECIFICATION FairSpec
INVARIANTS
  NoLostWakeup
  NothingLeftOfAWait
PROPERTY TimedWaitEnds
CHECK_DEADLOCK FALSE
