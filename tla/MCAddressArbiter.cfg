CONSTANTS
  t1 = t1
  t2 = t2
  t3 = t3
  Threads = {t1, t2, t3}
  Procs = {1, 2}
  ProcOf <- MCProcOf
  Cores = {0, 1}
  CoreOf <- MCCoreOf
  a1 = a1
  Addrs = {a1}
  NoAddr = NoAddr
  Prios = {26, 48}
  MinWord <- MCMinWord
  MaxWord = 0
  MaxSignal = 2
SPECIFICATION Spec
INVARIANTS
  WaitsAgree
  ClosedFormIsLoop
PROPERTIES
  SignalNotSwallowed
  ImplementsLot
CHECK_DEADLOCK FALSE
