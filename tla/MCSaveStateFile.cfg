CONSTANTS
  t1 = t1
  t2 = t2
  w1 = w1
  w2 = w2
  None = None
  w3 = w3
  Broken = w3
  Titles = {t1, t2}
  Slots = {0}
  States = {w1, w2, w3}
  Boot = w1
  Size = 3
  Foreign <- MCForeign
SPECIFICATION Spec
SYMMETRY TitleSymmetry
PROPERTIES
  ImplementsStore
INVARIANTS
  LastSaveSurvives
  NoScratchLeft
