CONSTANTS
  r1 = r1
  r2 = r2
  r3 = r3
  None = None
  Requests = {r1, r3}
  KindOf <- LoadThenSave
  MaxCalls = 1
  MaxSessions = 1
SPECIFICATION Spec
PROPERTIES
  NoStaleCancel
CHECK_DEADLOCK FALSE
