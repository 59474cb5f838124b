\* One packet of up to four bytes: every pair and triple of CR, LF and
\* another byte, and every line ending at the end of the text.
CONSTANTS
  MaxOutput = 0
  Chunk = 2
  MaxLen = 4
  MaxCalls = 1
SPECIFICATION Spec
INVARIANTS ClearsigHashCanonical
\* The process handles MaxCalls packets and then stops.
CHECK_DEADLOCK FALSE
