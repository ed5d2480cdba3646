CONSTANTS
  t1 = t1
  t2 = t1
  w1 = w1
  w2 = w2
  w3 = w2
  None = None
  Broken = w2
  Titles = {t1}
  Slots = {0}
  States = {w1, w2}
  Boot = w1
  Size = 2
  Foreign <- MCForeign
SPECIFICATION Spec
INVARIANTS
  NeverPartial
