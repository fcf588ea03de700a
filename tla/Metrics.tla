------------------------------ MODULE Metrics -------------------------------
(***************************************************************************)
(* Access costs (metrics.rs): how many compressed bits an access costs,    *)
(* computed from a container without reading anything.                     *)
(*                                                                         *)
(* A cost is a number of bits.  A request that is not within the data is   *)
(* refused: <<>>, or <<cost>>.                                             *)
(***************************************************************************)
EXTENDS Codec, FiniteSetsExt

(* Faulty variant: only the blocks of an aligned request are counted.      *)
ExpectedBlocksAligned(requested_bits, block_bits) ==
  CeilDiv(requested_bits, block_bits) * block_bits

(* expected_block_count of two positive numbers (zero is refused), times   *)
(* block_bits: the code's float is a fraction of that denominator.         *)
ExpectedBlocks(requested_bits, block_bits) ==
  CeilDiv(requested_bits, block_bits) * block_bits + ((requested_bits - 1) % block_bits)

(* The widths of a split, eight bits each.                                 *)
ParameterBits == 16

(* Faulty variant: the base ID is always counted.                          *)
BitAccessCostWithId(container, bit_index) ==
  IF bit_index >= container.original_sample_count * BitsPerSample
  THEN <<>>
  ELSE <<ParameterBits + SplitForChunk(container, bit_index \div ChunkBitLen)[1].l_id + 1>>

BitAccessCost(container, bit_index) ==
  LET found == SplitForChunk(container, bit_index \div ChunkBitLen)
      sample == (bit_index % ChunkBitLen) \div BitsPerSample + 1
      bit == (bit_index % BitsPerSample) + 1
      in_deviation == IsDeviationPosition(found[1].l_d, sample, bit)
  IN  IF bit_index >= container.original_sample_count * BitsPerSample \/ found = <<>>
      THEN <<>>
      ELSE <<ParameterBits + (IF in_deviation THEN 0 ELSE found[1].l_id) + 1>>

SampleAccessCost(container, sample_index) ==
  LET found == SplitForChunk(container, sample_index \div SamplesPerChunk)
  IN  IF sample_index >= container.original_sample_count \/ found = <<>>
      THEN <<>>
      ELSE <<ParameterBits + found[1].l_id + BitsPerSample>>

(* Faulty variant: the chunk of the first bit after the request.           *)
LastChunkPastEnd(start_bit, requested_bits) == (start_bit + requested_bits) \div ChunkBitLen

LastChunk(start_bit, requested_bits) == (start_bit + requested_bits - 1) \div ChunkBitLen

(* titchy_access_bounds: the chunks from the first to the last that the    *)
(* request touches are intersected with those of each split in turn.       *)
AccessBounds(container, start_bit, requested_bits) ==
  LET first_chunk == start_bit \div ChunkBitLen
      last_chunk == LastChunk(start_bit, requested_bits)
      chunk_count == last_chunk - first_chunk + 1
      splits == container.splits
      split_end[s \in 0..Len(splits)] ==
        IF s = 0 THEN 0 ELSE split_end[s - 1] + Len(splits[s].pairs)
      overlap(s) == Min({last_chunk + 1, split_end[s]}) - Max({first_chunk, split_end[s - 1]})
      touched == {s \in 1..Len(splits) : overlap(s) > 0}
      pair_and_parameter_bits ==
        MapThenSumSet(LAMBDA s : ParameterBits + overlap(s) * (splits[s].l_id + splits[s].l_d),
                      touched)
      bases == Min({chunk_count, Len(container.dictionary)})
  IN  IF \/ requested_bits = 0
         \/ start_bit + requested_bits > container.original_sample_count * BitsPerSample
      THEN <<>>
      ELSE <<[best_case_bits  |-> ChunkBitLen + pair_and_parameter_bits,
              worst_case_bits |-> ChunkBitLen * bases + pair_and_parameter_bits,
              chunk_count     |-> chunk_count,
              split_count     |-> Cardinality(touched)]>>

(* paper_compressed_bit_len: dictionary, pairs and widths; no headers, no  *)
(* index, no padding.                                                      *)
PaperCompressedBitLen(container) ==
  Len(container.dictionary) * ChunkBitLen
    + MapThenSumSet(LAMBDA s : ParameterBits
                      + Len(container.splits[s].pairs)
                          * (container.splits[s].l_id + container.splits[s].l_d),
                    1..Len(container.splits))

=============================================================================
