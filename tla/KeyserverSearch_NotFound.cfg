CONSTANTS
  K1 = K1
  K2 = K2
  NoKey = NoKey
  Keys <- MCKeys
  InfoCounts <- MCInfoCounts
  ScreenLines = 3
  WithColons = FALSE
  Batch = FALSE
  MaxLines = 4
  MaxSearches = 1
SPECIFICATION Spec
INVARIANT NotFoundHasNoRecords
CHECK_DEADLOCK FALSE
