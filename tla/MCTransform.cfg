\* Three samples of two bits: every chunk, every deviation width 0..6.
CONSTANTS
  BitsPerSample = 2
  SamplesPerChunk = 3
  ChunksPerSplit = 1
  NewBaseThresholdPpm = 250000
  MaxActiveDictionaryBytes = Unlimited
  Unlimited = Unlimited
  IdBits = 32
SPECIFICATION Spec
INVARIANTS RoundTrip PositionsFollowLoops BitAccessAgrees WideningOnlyMerges
CHECK_DEADLOCK FALSE
