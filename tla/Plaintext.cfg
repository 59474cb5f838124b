\* Two plaintext packets of up to three bytes in one process, a 2-byte
\* chunk so that the binary loops take a full and a short chunk, and a
\* --max-output limit of 3 bytes that one packet reaches and two packets
\* together exceed, the crossing chunk falling inside or after a packet.
CONSTANTS
  MaxOutput = 3
  Chunk = 2
  MaxLen = 3
  MaxCalls = 2
SPECIFICATION CutSpec
INVARIANTS OutputWithinLimit SuccessConsumedAll CutAtChunk
\* The process handles MaxCalls packets and then stops.
CHECK_DEADLOCK FALSE
