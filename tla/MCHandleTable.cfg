CONSTANTS
  p1 = p1
  p2 = p2
  o1 = o1
  o2 = o2
  Procs = {p1, p2}
  Objects = {o1, o2}
  NoObj = NoObj
  ThreadOf <- MCThreadOf
  ProcessOf <- MCProcessOf
  MaxCount = 2
  SlotLimit = 3
  GenLimit = 3
  MaxCreates = 3
  MaxHandles = 2
SYMMETRY Symmetry
SPECIFICATION Spec
INVARIANTS
  FreeListExact
  HandlesResolve
PROPERTY NothingLostInTransit
CHECK_DEADLOCK FALSE
