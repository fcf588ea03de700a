------------------------------- MODULE Codec --------------------------------
(***************************************************************************)
(* Batch compression (codec.rs) and random access (random_access.rs): a    *)
(* whole sequence of samples becomes an in-memory container at once, from  *)
(* which all samples, one sample or one bit are read back.                 *)
(*                                                                         *)
(* A container keeps the original sample count, the persisted bases (base  *)
(* ID + 1 is the index) and the splits with their widths and pairs.  An    *)
(* operator that may fail returns <<>> for Err and <<value>> for Ok.       *)
(***************************************************************************)
EXTENDS Transform, ActiveLru

NewSplit(l_id, l_d) == [l_id |-> l_id, l_d |-> l_d, pairs |-> <<>>]

ChunkSamples(samples) ==
  [c \in 1..CeilDiv(Len(samples), SamplesPerChunk) |->
     PadChunk(SubSeq(samples, (c - 1) * SamplesPerChunk + 1,
                     IF c * SamplesPerChunk <= Len(samples)
                     THEN c * SamplesPerChunk ELSE Len(samples)))]

----------------------------------------------------------------------------
(* The locals of compress_samples.                                         *)
NewCompression ==
  [dictionary      |-> NewDictionary,
   persisted_bases |-> <<>>,
   splits          |-> <<>>,
   current_split   |-> NewSplit(InitialLId, InitialLD),
   old_base_count  |-> 0,
   panicked        |-> FALSE]

(* Faulty variant: the base count of the split before is kept.             *)
NextSplitKeepsCount(c) ==
  LET global_len == c.dictionary.next_id
      widths == c.current_split
  IN  [c EXCEPT
         !.splits = Append(@, c.current_split),
         !.current_split = NewSplit(UpdateLId(global_len, widths.l_id),
                                    UpdateLD(global_len, c.old_base_count, widths.l_d))]

(* A full split is put away, and the next one gets new widths.             *)
NextSplit(c) ==
  LET global_len == c.dictionary.next_id
      widths == c.current_split
  IN  [c EXCEPT
         !.splits = Append(@, c.current_split),
         !.current_split = NewSplit(UpdateLId(global_len, widths.l_id),
                                    UpdateLD(global_len, c.old_base_count, widths.l_d)),
         !.old_base_count = global_len]

CompressChunk(c, chunk) ==
  LET current == IF Len(c.current_split.pairs) = ChunksPerSplit THEN NextSplit(c) ELSE c
      transformed == TransformChunk(chunk, current.current_split.l_d)
      base == PackSamples(transformed.base_samples)
      got == GetOrInsert(current.dictionary, base)
  IN  IF IdsExhausted(current.dictionary, base)
      THEN [current EXCEPT !.panicked = TRUE]
      ELSE [current EXCEPT
              !.dictionary = got.dictionary,
              !.persisted_bases = IF got.is_new THEN Append(@, base) ELSE @,
              !.current_split.pairs =
                 Append(@, [base_id |-> got.id,
                            deviation_bits |-> transformed.deviation_bits])]

(* compress_samples; no container if the dictionary ran out of IDs.        *)
CompressSamples(samples) ==
  LET chunks == ChunkSamples(samples)
      after[n \in 0..Len(chunks)] ==
        IF n = 0 THEN NewCompression
        ELSE IF after[n - 1].panicked THEN after[n - 1]
        ELSE CompressChunk(after[n - 1], chunks[n])
      done == after[Len(chunks)]
  IN  IF done.panicked
      THEN <<>>
      ELSE <<[original_sample_count |-> Len(samples),
              dictionary |-> done.persisted_bases,
              splits |-> IF done.current_split.pairs = <<>> THEN done.splits
                         ELSE Append(done.splits, done.current_split)]>>

----------------------------------------------------------------------------
(* Reading a container.                                                    *)

HasBase(container, pair) == pair.base_id < Len(container.dictionary)

BaseOf(container, pair) == container.dictionary[pair.base_id + 1]

ReconstructChunk(container, pair, l_d) ==
  IF HasBase(container, pair)
  THEN <<InverseTransformChunk(UnpackSamples(BaseOf(container, pair)),
                               pair.deviation_bits, l_d)>>
  ELSE <<>>

(* The samples of all pairs of all splits in order, padding included.      *)
EncodedSamples(container) ==
  LET splits == container.splits
      ChunkOf(split, i) == ReconstructChunk(container, split.pairs[i], split.l_d)[1]
      SamplesOf(split) == Join([i \in 1..Len(split.pairs) |-> ChunkOf(split, i)],
                               SamplesPerChunk)
      read[s \in 0..Len(splits)] == IF s = 0 THEN <<>> ELSE read[s - 1] \o SamplesOf(splits[s])
  IN  read[Len(splits)]

HasAllBases(container) ==
  \A s \in 1..Len(container.splits) :
     \A i \in 1..Len(container.splits[s].pairs) :
        HasBase(container, container.splits[s].pairs[i])

(* Faulty variant: the zeros of the last chunk are not taken off.          *)
DecompressUntruncated(container) ==
  IF HasAllBases(container) THEN <<EncodedSamples(container)>> ELSE <<>>

DecompressSamples(container) ==
  IF HasAllBases(container)
  THEN LET all == EncodedSamples(container)
           count == container.original_sample_count
       IN  <<SubSeq(all, 1, IF count <= Len(all) THEN count ELSE Len(all))>>
  ELSE <<>>

(* Faulty variant: the pairs of the splits before are not subtracted.      *)
SplitForChunkFromStart(container, chunk_index) ==
  LET Holds(s) == chunk_index < Len(container.splits[s].pairs)
  IN  IF \E s \in 1..Len(container.splits) : Holds(s)
      THEN <<container.splits[CHOOSE s \in 1..Len(container.splits) : Holds(s)],
             chunk_index + 1>>
      ELSE <<>>

(* split_for_chunk: the split of a chunk (numbered from 0) and the place   *)
(* of its pair there, counted from 1.                                      *)
SplitForChunk(container, chunk_index) ==
  LET splits == container.splits
      remaining[s \in 1..(Len(splits) + 1)] ==
        IF s = 1 THEN chunk_index ELSE remaining[s - 1] - Len(splits[s - 1].pairs)
      Holds(s) == remaining[s] < Len(splits[s].pairs)
  IN  IF \E s \in 1..Len(splits) : Holds(s)
      THEN LET s == CHOOSE t \in 1..Len(splits) :
                      Holds(t) /\ \A u \in 1..(t - 1) : ~ Holds(u)
           IN  <<splits[s], remaining[s] + 1>>
      ELSE <<>>

(* Samples and bits are numbered from 0, as callers do.                    *)
GetBySampleIndex(container, index) ==
  LET found == SplitForChunk(container, index \div SamplesPerChunk)
  IN  IF index >= container.original_sample_count \/ found = <<>>
      THEN <<>>
      ELSE LET split == found[1]
               chunk == ReconstructChunk(container, split.pairs[found[2]], split.l_d)
           IN  IF chunk = <<>> THEN <<>>
               ELSE <<chunk[1][(index % SamplesPerChunk) + 1]>>

GetByBitIndex(container, bit_index) ==
  LET sample_index == bit_index \div BitsPerSample
      bit == (bit_index % BitsPerSample) + 1
      sample == (sample_index % SamplesPerChunk) + 1
      found == SplitForChunk(container, sample_index \div SamplesPerChunk)
  IN  IF bit_index >= container.original_sample_count * BitsPerSample \/ found = <<>>
      THEN <<>>
      ELSE LET split == found[1]
               pair == split.pairs[found[2]]
           IN  IF IsDeviationPosition(split.l_d, sample, bit)
               THEN <<pair.deviation_bits[DeviationBitOffset(split.l_d, sample, bit)]>>
               ELSE IF HasBase(container, pair)
                    THEN <<BaseOf(container, pair)[BitAt(sample, bit, BitsPerSample)]>>
                    ELSE <<>>

(* get_range_by_sample_index: sample by sample.                            *)
GetRange(container, start, len) ==
  LET samples == [i \in 1..len |-> GetBySampleIndex(container, start + i - 1)]
  IN  IF len = 0 THEN << <<>> >>
      ELSE IF start + len > container.original_sample_count THEN <<>>
      ELSE IF \E i \in 1..len : samples[i] = <<>> THEN <<>>
      ELSE <<[i \in 1..len |-> samples[i][1]]>>

=============================================================================
