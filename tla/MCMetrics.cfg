\* Chunks of two two-bit samples, splits of two chunks, room for one active
\* base: with six samples a split boundary is crossed, where both widths change,
\* a request can cross it too, and bases are both shared and repeated under a
\* new ID.
CONSTANTS
  BitsPerSample = 2
  SamplesPerChunk = 2
  ChunksPerSplit = 2
  NewBaseThresholdPpm = 500000
  MaxActiveDictionaryBytes = 5
  Unlimited = Unlimited
  IdBits = 8
  MaxInput = 6
  MaxBlock = 5
SPECIFICATION Spec
INVARIANTS
  BatchIsLossless RandomAccessAgrees
  BoundsBracketTheCost BitCostIsWhatIsRead ExpectedBlocksIsTheMean
CHECK_DEADLOCK FALSE
