CONSTANTS
  a = a
  b = b
  c1 = c1
  c2 = c2
  v1 = v1
  v2 = v2
  None = None
  Slots = {a, b}
  Clients = {c1, c2}
  Servers = {v1, v2}
  MaxSessions = 1
SPECIFICATION FairSpec
INVARIANTS
  SessionsCounted
  RequestInOnePlace
  NoRequestSleptOver
  AsyncCounted
PROPERTY
  AsyncEnds
