\* Three-bit IDs and splits of two chunks, each chunk a new base: the seventh
\* chunk opens a split whose l_id is one bit wider than an ID.
CONSTANTS
  BitsPerSample = 1
  SamplesPerChunk = 1
  ChunksPerSplit = 2
  NewBaseThresholdPpm = 1000000
  MaxActiveDictionaryBytes = 4
  Unlimited = Unlimited
  IdBits = 3
  ChunksPerPacket = 2
  NewBaseLimit = 2
  MaxSamples = 8
SPECIFICATION Spec
INVARIANTS WholePacketsAreAccepted
CHECK_DEADLOCK FALSE
