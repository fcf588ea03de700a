\* Chunks of two two-byte samples, splits of one chunk: six bytes are two chunks
\* in two splits, the second of them half full, and five bytes are refused.
\* There is room for no base at all: each is evicted as soon as it is inserted.
CONSTANTS
  BitsPerSample = 16
  SamplesPerChunk = 2
  ChunksPerSplit = 1
  NewBaseThresholdPpm = 250000
  MaxActiveDictionaryBytes = 7
  Unlimited = Unlimited
  IdBits = 8
  MaxBytes = 6
SPECIFICATION RawSpec
INVARIANTS RawRoundTrips SamplesAreTheirBytes
CHECK_DEADLOCK FALSE
