\* Three one-bit samples per chunk, splits of three chunks in packets of at most
\* two, room for one active base.  Ten samples are four chunks, the last not
\* full: packets come with parameters and without, and both widths change.
CONSTANTS
  BitsPerSample = 1
  SamplesPerChunk = 3
  ChunksPerSplit = 3
  NewBaseThresholdPpm = 500000
  MaxActiveDictionaryBytes = 5
  Unlimited = Unlimited
  IdBits = 8
  ChunksPerPacket = 2
  NewBaseLimit = 2
  MaxSamples = 10
SPECIFICATION FairSpec
INVARIANTS DictionariesAgree WholePacketsAreAccepted
PROPERTIES Lossless ShortCopiesAreRefused EverythingArrives
CHECK_DEADLOCK FALSE
