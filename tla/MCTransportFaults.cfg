\* One-bit samples, a chunk each; splits of three chunks, so packets of two and
\* of one chunk.  Room for one active base: bases come back under new IDs.
CONSTANTS
  BitsPerSample = 1
  SamplesPerChunk = 1
  ChunksPerSplit = 3
  NewBaseThresholdPpm = 500000
  MaxActiveDictionaryBytes = 5
  Unlimited = Unlimited
  IdBits = 8
  ChunksPerPacket = 2
  NewBaseLimit = 2
  MaxSamples = 6
  MaxArrivals = 5
SPECIFICATION FaultsSpec
INVARIANTS PlainPacketsAreIndependent LossOrRepetitionIsNoticed CollectedIsReadable ReceiversAgree
CHECK_DEADLOCK FALSE
