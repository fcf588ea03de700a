\* Four bases, room for three (15 bytes of 1-byte bases and 4-byte IDs), and
\* three-bit IDs, so that IDs run out.
CONSTANTS
  BitsPerSample = 2
  SamplesPerChunk = 1
  ChunksPerSplit = 1
  NewBaseThresholdPpm = 250000
  MaxActiveDictionaryBytes = 15
  Unlimited = Unlimited
  IdBits = 3
  Base = {b1, b2, b3, b4}
  Panic = Panic
  None = None
SPECIFICATION MCSpec
INVARIANTS ListAndMapsAgree ActiveIsMostRecent IdsDenotePersistedBases
PROPERTIES ImplementsLru
CHECK_DEADLOCK FALSE
