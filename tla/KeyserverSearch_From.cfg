\* Two searches in one process, each with up to four server lines: the
\* first can end at a final prompt with a header, the second then shows its
\* first header.
CONSTANTS
  K1 = K1
  K2 = K2
  NoKey = NoKey
  Keys <- MCKeys
  InfoCounts <- MCInfoCounts
  ScreenLines = 3
  WithColons = FALSE
  Batch = FALSE
  MaxLines = 4
  MaxSearches = 2
SPECIFICATION Spec
INVARIANT HeaderContinues
\* Once MaxSearches searches have returned nothing more happens.
CHECK_DEADLOCK FALSE
