\* Chunks of two one-bit samples, splits of four chunks, packets of at most
\* three chunks or two new bases, and room for one active base: most lookups
\* miss, so IDs grow quickly, cross the ID width and, with three bits, run out,
\* in push_sample or in finish.
CONSTANTS
  BitsPerSample = 1
  SamplesPerChunk = 2
  ChunksPerSplit = 4
  NewBaseThresholdPpm = 1000000
  MaxActiveDictionaryBytes = 5
  Unlimited = Unlimited
  IdBits = 3
  ChunksPerPacket = 3
  NewBaseLimit = 2
  MaxSamples = 17
SPECIFICATION EncoderSpec
INVARIANTS EncoderTypeOK PendingFitsWidths RoomForIds FlushNeverFails NoBacklog
           IdWidthNotWasteful PacketsTileSplits OneIdPerBase
CHECK_DEADLOCK FALSE
