CONSTANTS
  NumCores = 2
  Pump = Pump
  e1 = e1
  x1 = x1
  Guest = {e1}
  Async = {x1}
  Delays = {0, 1}
  MaxSlice = 2
  MinDelay = 1
  Overshoot = 1
  Readings <- MCReadings
  MaxLoads = 1
SPECIFICATION FairSpec
INVARIANTS
  SliceAssertion
  DispatchedOnTime
  CoresTogether
  PumpArmed
PROPERTY
  EventsFire
