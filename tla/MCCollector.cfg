\* Chunks of two one-bit samples, splits of three chunks in packets of at most
\* two, no cap: packets come with parameters and without.  With thirteen samples
\* the last chunk is half full and two split boundaries are crossed.
CONSTANTS
  BitsPerSample = 1
  SamplesPerChunk = 2
  ChunksPerSplit = 3
  NewBaseThresholdPpm = 500000
  MaxActiveDictionaryBytes = Unlimited
  Unlimited = Unlimited
  IdBits = 8
  ChunksPerPacket = 2
  NewBaseLimit = 2
  MaxSamples = 13
SPECIFICATION Spec
INVARIANTS CollectsTheBatch WholePacketsAreCollected
CHECK_DEADLOCK FALSE
