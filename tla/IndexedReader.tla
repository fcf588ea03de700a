--------------------------- MODULE IndexedReader ----------------------------
(***************************************************************************)
(* IndexedTitchyReader (indexed.rs): samples, bits and ranges are read     *)
(* from a container file by seeking to the bytes they need.                *)
(*                                                                         *)
(* An open reader keeps the header's counts and the split index; every     *)
(* access seeks before it reads, so nothing else is remembered.  An        *)
(* operator that may fail returns <<>> for Err and <<value>> for Ok.       *)
(***************************************************************************)
EXTENDS Container

IndexEntry(file, s) ==
  LET entry == HeaderLen + IndexEntryLen * (s - 1)
  IN  [chunk_start  |-> UintAt(file, entry),      chunk_count |-> UintAt(file, entry + 8),
       split_offset |-> UintAt(file, entry + 12), split_len   |-> UintAt(file, entry + 20)]

(* open reads the header and the index, not the dictionary or the splits.  *)
OpenReader(file) ==
  IF ~ HasHeader(file) \/ ~ IndexIsThere(file)
  THEN <<>>
  ELSE LET splits == [s \in 1..UintAt(file, 34) |-> IndexEntry(file, s)]
           dictionary_end == DictionaryOffset(file) + ChunkByteLen * UintAt(file, 30)
       IN  IF \E s \in DOMAIN splits :
                splits[s].split_offset < dictionary_end \/ splits[s].split_len < RecordHeaderLen
           THEN <<>>
           ELSE <<[file |-> file,
                   original_sample_count |-> UintAt(file, 22),
                   dictionary_len |-> UintAt(file, 30),
                   dictionary_offset |-> DictionaryOffset(file),
                   splits |-> splits]>>

(* split_for_chunk: the first entry that covers the chunk.                 *)
Covers(entry, chunk_index) ==
  entry.chunk_start <= chunk_index /\ chunk_index < entry.chunk_start + entry.chunk_count

IndexedSplit(reader, chunk_index) ==
  LET covering == {s \in DOMAIN reader.splits : Covers(reader.splits[s], chunk_index)}
  IN  IF covering = {} THEN <<>>
      ELSE <<reader.splits[CHOOSE s \in covering : \A t \in covering : s <= t]>>

(* read_split_header: the record must match its index entry.               *)
RecordMatches(reader, split, local_index) ==
  LET file == reader.file
      offset == split.split_offset
  IN  /\ HasUint(file, offset, 1) /\ HasUint(file, offset + 1, 1)
      /\ HasUint(file, offset + 2, 2) /\ HasUint(file, offset + 4, 4)
      /\ UintAt(file, offset + 2) = split.chunk_count
      /\ local_index < UintAt(file, offset + 2)
      /\ UintAt(file, offset) <= IdBits /\ UintAt(file, offset + 1) <= ChunkBitLen
      /\ UintAt(file, offset + 4) + RecordHeaderLen <= split.split_len

(* Faulty variant: what the file does not hold is left zero (read instead  *)
(* of read_exact).                                                         *)
ReadPackedZeroFilled(file, offset, len) ==
  <<Join([k \in 1..len |-> IF HasPacked(file, offset + k - 1, 1)
                           THEN file[offset + k].bits ELSE ZeroBits(8)], 8)>>

(* seek and read_exact.                                                    *)
ReadPacked(file, offset, len) ==
  IF HasPacked(file, offset, len) THEN <<PackedAt(file, offset, len)>> ELSE <<>>

(* read_payload_value, and the reading of a pair in read_chunk: the bytes  *)
(* that hold the bits, which must lie in the payload, less the leading     *)
(* bits of the first.  For no bits at all nothing is read.                 *)
PayloadBits(reader, split, bit_start, bit_len) ==
  LET leading_bits == bit_start % 8
      bytes_needed == CeilDiv(leading_bits + bit_len, 8)
      payload_len == UintAt(reader.file, split.split_offset + 4)
      bytes == ReadPacked(reader.file,
                          split.split_offset + RecordHeaderLen + (bit_start \div 8),
                          bytes_needed)
  IN  IF bit_start + bit_len > payload_len * 8 THEN <<>>
      ELSE IF bit_len = 0 THEN << <<>> >>
      ELSE IF bytes = <<>> THEN <<>>
      ELSE <<SubSeq(bytes[1], leading_bits + 1, leading_bits + bit_len)>>

(* The bits of a base, from byte `first` on.                               *)
BaseBytes(reader, base_id, first, len) ==
  IF base_id >= reader.dictionary_len THEN <<>>
  ELSE ReadPacked(reader.file,
                  reader.dictionary_offset + base_id * ChunkByteLen + first, len)

ReadChunk(reader, chunk_index) ==
  LET found == IndexedSplit(reader, chunk_index)
      split == found[1]
      local_index == chunk_index - split.chunk_start
      l_id == UintAt(reader.file, split.split_offset)
      l_d == UintAt(reader.file, split.split_offset + 1)
      pair == PayloadBits(reader, split, local_index * (l_id + l_d), l_id + l_d)
      base == BaseBytes(reader, ReadValue(SubSeq(pair[1], 1, l_id)), 0, ChunkByteLen)
  IN  IF found = <<>> THEN <<>>
      ELSE IF ~ RecordMatches(reader, split, local_index) THEN <<>>
      ELSE IF pair = <<>> THEN <<>>
      ELSE IF base = <<>> THEN <<>>
      ELSE <<InverseTransformChunk(UnpackSamples(SubSeq(base[1], 1, ChunkBitLen)),
                                   SubSeq(pair[1], l_id + 1, l_id + l_d), l_d)>>

IndexedSample(reader, index) ==
  IF index >= reader.original_sample_count THEN <<>>
  ELSE LET chunk == ReadChunk(reader, index \div SamplesPerChunk)
       IN  IF chunk = <<>> THEN <<>> ELSE <<chunk[1][(index % SamplesPerChunk) + 1]>>

(* One deviation bit, or the base ID and one byte of the dictionary.       *)
IndexedBit(reader, bit_index) ==
  LET sample_index == bit_index \div BitsPerSample
      bit == (bit_index % BitsPerSample) + 1
      sample == (sample_index % SamplesPerChunk) + 1
      chunk_index == sample_index \div SamplesPerChunk
      found == IndexedSplit(reader, chunk_index)
      split == found[1]
      local_index == chunk_index - split.chunk_start
      l_id == UintAt(reader.file, split.split_offset)
      l_d == UintAt(reader.file, split.split_offset + 1)
      pair_start == local_index * (l_id + l_d)
      deviation == PayloadBits(reader, split,
                     pair_start + l_id + DeviationBitOffset(l_d, sample, bit) - 1, 1)
      id == PayloadBits(reader, split, pair_start, l_id)
      base_bit == BitAt(sample, bit, BitsPerSample) - 1
      byte == BaseBytes(reader, ReadValue(id[1]), base_bit \div 8, 1)
  IN  IF bit_index >= reader.original_sample_count * BitsPerSample \/ found = <<>> THEN <<>>
      ELSE IF ~ RecordMatches(reader, split, local_index) THEN <<>>
      ELSE IF IsDeviationPosition(l_d, sample, bit)
      THEN IF deviation = <<>> THEN <<>> ELSE <<deviation[1][1]>>
      ELSE IF id = <<>> THEN <<>>
      ELSE IF byte = <<>> THEN <<>>
      ELSE <<byte[1][(base_bit % 8) + 1]>>

(* All chunks the range touches, then the range of their samples.          *)
IndexedRange(reader, start, len) ==
  LET first_chunk == start \div SamplesPerChunk
      last_chunk == (start + len - 1) \div SamplesPerChunk
      chunks == [c \in 1..(last_chunk - first_chunk + 1) |->
                   ReadChunk(reader, first_chunk + c - 1)]
      offset == start - first_chunk * SamplesPerChunk
  IN  IF len = 0 THEN << <<>> >>
      ELSE IF start + len > reader.original_sample_count THEN <<>>
      ELSE IF \E c \in DOMAIN chunks : chunks[c] = <<>> THEN <<>>
      ELSE <<SubSeq(Join([c \in DOMAIN chunks |-> chunks[c][1]], SamplesPerChunk),
                    offset + 1, offset + len)>>

=============================================================================
