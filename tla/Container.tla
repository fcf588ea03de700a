----------------------------- MODULE Container ------------------------------
(***************************************************************************)
(* The TCHY container (codec.rs, to_bytes and from_bytes): a fixed header, *)
(* a split index, the persisted dictionary and the split records.          *)
(*                                                                         *)
(* Files are sequences of the bytes of module Files; offsets are counted   *)
(* from 0, as in the code.                                                 *)
(***************************************************************************)
EXTENDS Codec, Files, SequencesExt

HeaderLen == 38

IndexEntryLen == 24

RecordHeaderLen == 8

----------------------------------------------------------------------------
(* to_bytes.                                                               *)

(* Faulty variant: the byte order is not kept.                             *)
EndianTagLittle(endian) == 0

EndianTag(endian) == IF endian = "little" THEN 0 ELSE 1

(* The fields of the header: their offsets are 0, 4, 5, 6, 7, 8, 10, 14,   *)
(* 22, 30 and 34.  Of the configuration, only the byte order of raw input  *)
(* (module RawBytes) is not a constant.                                    *)
Header(container, endian) ==
  FlattenSeq(<<Uint("TCHY", 4), Uint(2, 1),
               Uint(BitsPerSample, 1), Uint(SamplesPerChunk, 1), Uint(EndianTag(endian), 1),
               Uint(ChunksPerSplit, 2), Uint(NewBaseThresholdPpm, 4),
               Uint(MaxActiveDictionaryBytes, 8),
               Uint(container.original_sample_count, 8),
               Uint(Len(container.dictionary), 4), Uint(Len(container.splits), 4)>>)

(* Faulty variant: every pair begins on a byte boundary.                   *)
PairBytesAligned(split) ==
  FlattenSeq([i \in 1..Len(split.pairs) |->
    PadToByte(WriteValue(split.pairs[i].base_id, split.l_id)
                \o split.pairs[i].deviation_bits)])

PairBytes(split) ==
  PadToByte(FlattenSeq([i \in 1..Len(split.pairs) |->
    WriteValue(split.pairs[i].base_id, split.l_id) \o split.pairs[i].deviation_bits]))

(* encode_split.  Its error, more pairs than a u16 counts, cannot occur:   *)
(* ChunksPerSplit is a u16.                                                *)
SplitRecord(split) ==
  FlattenSeq(<<Uint(split.l_id, 1), Uint(split.l_d, 1), Uint(Len(split.pairs), 2),
               Uint(Len(PairBytes(split)) \div 8, 4), Packed(PairBytes(split))>>)

(* Faulty variant: chunk_start is not advanced.                            *)
ChunkStartStuck(container, s) == 0

ChunkStart(container, s) ==
  LET start[t \in 1..s] ==
        IF t = 1 THEN 0 ELSE start[t - 1] + Len(container.splits[t - 1].pairs)
  IN  start[s]

SplitIndex(container, records) ==
  LET offset[s \in 1..Len(records)] ==
        IF s = 1 THEN HeaderLen + IndexEntryLen * Len(records)
                        + ChunkByteLen * Len(container.dictionary)
        ELSE offset[s - 1] + Len(records[s - 1])
  IN  FlattenSeq([s \in 1..Len(records) |->
        FlattenSeq(<<Uint(ChunkStart(container, s), 8),
                     Uint(Len(container.splits[s].pairs), 4),
                     Uint(offset[s], 8), Uint(Len(records[s]), 4)>>)])

ToBytes(container, endian) ==
  LET records == [s \in 1..Len(container.splits) |-> SplitRecord(container.splits[s])]
      bases == [i \in 1..Len(container.dictionary) |->
                  Packed(PadToByte(container.dictionary[i]))]
  IN  Header(container, endian) \o SplitIndex(container, records)
        \o FlattenSeq(bases) \o FlattenSeq(records)

----------------------------------------------------------------------------
(* from_bytes: <<container>>, or <<>> for an error.                        *)

HeaderFields == <<0, 4, 5, 6, 7, 8, 10, 14, 22, 30, 34>>

HeaderWidths == <<4, 1, 1, 1, 1, 2, 4, 8, 8, 4, 4>>

HasHeader(file) ==
  /\ \A f \in 1..Len(HeaderFields) : HasUint(file, HeaderFields[f], HeaderWidths[f])
  /\ UintAt(file, 0) = "TCHY" /\ UintAt(file, 4) = 2
  /\ UintAt(file, 7) \in {0, 1}
  /\ ValidConfig(UintAt(file, 5), UintAt(file, 6), UintAt(file, 8))

(* The configuration a file is read with is the one in its header.         *)
HeaderConfig(file) ==
  [bits_per_sample  |-> UintAt(file, 5), samples_per_chunk |-> UintAt(file, 6),
   chunks_per_split |-> UintAt(file, 8), threshold_ppm |-> UintAt(file, 10),
   max_active       |-> UintAt(file, 14),
   endian           |-> IF UintAt(file, 7) = 0 THEN "little" ELSE "big"]

IndexIsThere(file) ==
  \A s \in 1..UintAt(file, 34) :
     LET entry == HeaderLen + IndexEntryLen * (s - 1)
     IN  /\ HasUint(file, entry, 8) /\ HasUint(file, entry + 8, 4)
         /\ HasUint(file, entry + 12, 8) /\ HasUint(file, entry + 20, 4)

DictionaryOffset(file) == HeaderLen + IndexEntryLen * UintAt(file, 34)

(* One split record at the cursor.  l_id and l_d are checked before the    *)
(* pairs are read.                                                         *)
RecordIsThere(file, offset) ==
  /\ HasUint(file, offset, 1) /\ UintAt(file, offset) <= IdBits
  /\ HasUint(file, offset + 1, 1) /\ UintAt(file, offset + 1) <= ChunkBitLen
  /\ HasUint(file, offset + 2, 2)
  /\ HasUint(file, offset + 4, 4)
  /\ HasPacked(file, offset + RecordHeaderLen, UintAt(file, offset + 4))

SplitAt(file, offset) ==
  LET l_id == UintAt(file, offset)
      l_d == UintAt(file, offset + 1)
      fields == Cut(PackedAt(file, offset + RecordHeaderLen, UintAt(file, offset + 4)),
                    0, UintAt(file, offset + 2), l_id + l_d)
  IN  [NewSplit(l_id, l_d) EXCEPT
         !.pairs = [i \in DOMAIN fields |->
                      [base_id |-> ReadValue(SubSeq(fields[i], 1, l_id)),
                       deviation_bits |-> SubSeq(fields[i], l_id + 1, l_id + l_d)]]]

(* What the loop over the split records has read after n of them.          *)
ReadSplits(file, n) ==
  LET read[s \in 0..n] ==
        IF s = 0
        THEN [ok |-> TRUE, splits |-> <<>>,
              offset |-> DictionaryOffset(file) + ChunkByteLen * UintAt(file, 30)]
        ELSE IF ~ read[s - 1].ok \/ ~ RecordIsThere(file, read[s - 1].offset)
        THEN [read[s - 1] EXCEPT !.ok = FALSE]
        ELSE LET offset == read[s - 1].offset
             IN  [ok |-> TRUE,
                  splits |-> Append(read[s - 1].splits, SplitAt(file, offset)),
                  offset |-> offset + RecordHeaderLen + UintAt(file, offset + 4)]
  IN  read[n]

FromBytesParts(file, splits) ==
  [original_sample_count |-> UintAt(file, 22),
   dictionary |-> [i \in 1..UintAt(file, 30) |->
                     SubSeq(PackedAt(file, DictionaryOffset(file) + ChunkByteLen * (i - 1),
                                     ChunkByteLen),
                            1, ChunkBitLen)],
   splits |-> splits]

DictionaryIsThere(file) ==
  HasPacked(file, DictionaryOffset(file), ChunkByteLen * UintAt(file, 30))

FromBytes(file) ==
  IF /\ HasHeader(file) /\ IndexIsThere(file) /\ DictionaryIsThere(file)
     /\ ReadSplits(file, UintAt(file, 34)).ok
  THEN <<FromBytesParts(file, ReadSplits(file, UintAt(file, 34)).splits)>>
  ELSE <<>>

=============================================================================
