CONSTANTS
  K1 = K1
  K2 = K2
  Keys <- MCKeys
  V3Keys <- MCV3Keys
  ShortId <- MCShortId
  NameLens <- MCNameLens
  MaxLen = 100
  Base = 17
  MaxDescs = 3
SPECIFICATION Spec
INVARIANTS FetchedInOrder BatchFits ImportsRequested
PROPERTIES Terminates GetRefines
CHECK_DEADLOCK FALSE
