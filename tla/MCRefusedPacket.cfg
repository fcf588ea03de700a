\* Three-bit samples, so that three packets can each bring a base.
CONSTANTS
  BitsPerSample = 3
  SamplesPerChunk = 1
  ChunksPerSplit = 3
  NewBaseThresholdPpm = 500000
  MaxActiveDictionaryBytes = Unlimited
  Unlimited = Unlimited
  IdBits = 8
  ChunksPerPacket = 1
  NewBaseLimit = 2
  MaxSamples = 3
  MaxArrivals = 4
SPECIFICATION FaultsSpec
INVARIANTS AcceptedPacketsMakeTheBatch
CHECK_DEADLOCK FALSE
