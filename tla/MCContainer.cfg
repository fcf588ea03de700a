\* Chunks of two five-bit samples, so that a base takes two bytes and pairs are
\* not aligned to bytes; splits of two chunks, room for one active base.  With
\* five samples the last chunk is half full and a split boundary is crossed.
CONSTANTS
  BitsPerSample = 5
  SamplesPerChunk = 2
  ChunksPerSplit = 2
  NewBaseThresholdPpm = 500000
  MaxActiveDictionaryBytes = 6
  Unlimited = Unlimited
  IdBits = 8
  MaxInput = 5
SPECIFICATION FileSpec
INVARIANTS FileRoundTrips IndexedReaderAgrees PartialFileIsNeverMisread
CHECK_DEADLOCK FALSE
