---------------------------- MODULE MCContainer -----------------------------
(***************************************************************************)
(* The compress command writes a container file; decompress, get and range *)
(* read it, in another process and at any later time (bin/titchy.rs).  The *)
(* file is written by fs::write, which is not atomic: if the process dies, *)
(* or the disk is full, only some of the bytes are there.  The byte order  *)
(* is the default one; MCRawBytes has both.                                *)
(***************************************************************************)
EXTENDS MCCodec, IndexedReader

(* A bound on the input: samples whose bits, but for the last, are equal.  *)
InputSample ==
  {sample \in Sample : \A i \in 2..(BitsPerSample - 1) : sample[i] = sample[1]}

VARIABLES
  container,    \* <<>> until compressed, then <<container>>
  file          \* what is on disk

fileVars == <<samples, container, file>>

FileInit == Init /\ container = <<>> /\ file = <<>>

ReadInput ==
  /\ container = <<>>
  /\ Next /\ samples'[Len(samples')] \in InputSample
  /\ UNCHANGED <<container, file>>

Compress ==
  /\ container = <<>>
  /\ CompressSamples(samples) # <<>>
  /\ container' = CompressSamples(samples)
  /\ UNCHANGED <<samples, file>>

WriteFile ==
  /\ container # <<>> /\ file = <<>>
  /\ file' = ToBytes(container[1], "little")
  /\ UNCHANGED <<samples, container>>

WriteIsInterrupted ==
  /\ container # <<>> /\ file = <<>>
  /\ \E n \in 1..(Len(ToBytes(container[1], "little")) - 1) :
        file' = SubSeq(ToBytes(container[1], "little"), 1, n)
  /\ UNCHANGED <<samples, container>>

FileNext == ReadInput \/ Compress \/ WriteFile \/ WriteIsInterrupted

FileSpec == FileInit /\ [][FileNext]_fileVars

----------------------------------------------------------------------------
Complete == container # <<>> /\ file = ToBytes(container[1], "little")

Partial == container # <<>> /\ ~ Complete

Reader == OpenReader(file)

Indices == 0..Len(samples)

BitIndices == 0..(Len(samples) * BitsPerSample)

(* What to_bytes wrote, from_bytes reads: the same container under the     *)
(* same configuration, although it finds every record by walking over what *)
(* precedes it and never looks at the index.                               *)
FileRoundTrips ==
  Complete =>
    /\ FromBytes(file) = container
    /\ HeaderConfig(file) =
         [bits_per_sample |-> BitsPerSample, samples_per_chunk |-> SamplesPerChunk,
          chunks_per_split |-> ChunksPerSplit, threshold_ppm |-> NewBaseThresholdPpm,
          max_active |-> MaxActiveDictionaryBytes, endian |-> "little"]

(* The indexed reader, which trusts the index and seeks, answers every     *)
(* request as the in-memory access to the container does, those out of     *)
(* range included.                                                         *)
IndexedReaderAgrees ==
  Complete =>
    /\ Reader # <<>>
    /\ \A i \in Indices : IndexedSample(Reader[1], i) = GetBySampleIndex(container[1], i)
    /\ \A i \in BitIndices : IndexedBit(Reader[1], i) = GetByBitIndex(container[1], i)
    /\ \A i \in Indices : \A len \in 0..(Len(samples) + 1) :
          IndexedRange(Reader[1], i, len) = GetRange(container[1], i, len)

(* A file that is not all there is never decompressed into anything.  The  *)
(* indexed reader does open it, and may answer from what is there; but an  *)
(* answer it gives is the right one.                                       *)
PartialFileIsNeverMisread ==
  Partial =>
    /\ FromBytes(file) = <<>>
    /\ Reader # <<>> =>
         /\ \A i \in Indices :
              IndexedSample(Reader[1], i) \in {<<>>, GetBySampleIndex(container[1], i)}
         /\ \A i \in BitIndices :
              IndexedBit(Reader[1], i) \in {<<>>, GetByBitIndex(container[1], i)}

=============================================================================
