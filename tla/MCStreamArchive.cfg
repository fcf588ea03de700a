\* Two one-bit samples per chunk, splits of two chunks, packets of one: five
\* samples make three packets, with parameters and without, the last of them in
\* the second split and half full; the archive is cut off after every byte.
CONSTANTS
  BitsPerSample = 1
  SamplesPerChunk = 2
  ChunksPerSplit = 2
  NewBaseThresholdPpm = 250000
  MaxActiveDictionaryBytes = Unlimited
  Unlimited = Unlimited
  IdBits = 8
  ChunksPerPacket = 1
  NewBaseLimit = 3
  MaxSamples = 5
SPECIFICATION FairArchiveSpec
INVARIANTS ArchiveIsLossless
PROPERTIES WholeArchiveIsAccepted DecodedInTheEnd
CHECK_DEADLOCK FALSE
