---------------------------- MODULE SampleStream ----------------------------
(***************************************************************************)
(* Samples, chunks and packed bases (sample_stream.rs, packed_bits.rs).    *)
(*                                                                         *)
(* A sample is the bit string of its fixed width, a chunk a sequence of    *)
(* SamplesPerChunk samples, and a packed base the bit string of a whole    *)
(* chunk.  Samples that do not fit the width are refused by                *)
(* validate_sample before anything changes, so they are not modelled.      *)
(***************************************************************************)
EXTENDS Params

Sample == BitString(BitsPerSample)

Chunk == [1..SamplesPerChunk -> Sample]

PackedBase == BitString(ChunkBitLen)

(* What a chunk becomes (EncodedPair): the ID of its base, its deviation.  *)
Pair == [base_id : Nat, deviation_bits : Seq(Bit)]

ZeroSample == ZeroBits(BitsPerSample)

(* Faulty variants: least significant bit first, on one side only.         *)
PackLowBitFirst(samples) ==
  Join([s \in 1..Len(samples) |->
          [b \in 1..BitsPerSample |-> samples[s][BitsPerSample + 1 - b]]],
       BitsPerSample)

UnpackLowBitFirst(bits) ==
  LET cut == Cut(bits, 0, Len(bits) \div BitsPerSample, BitsPerSample)
  IN  [s \in 1..Len(cut) |-> [b \in 1..BitsPerSample |-> cut[s][BitsPerSample + 1 - b]]]

PackSamples(samples) == Join(samples, BitsPerSample)

UnpackSamples(bits) ==
  Cut(bits, 0, Len(bits) \div BitsPerSample, BitsPerSample)

(* Faulty variant: the last sample repeated in place of zeros.             *)
PadChunkRepeating(samples) ==
  [s \in 1..SamplesPerChunk |->
      IF s <= Len(samples) THEN samples[s] ELSE samples[Len(samples)]]

(* Vec::resize(samples_per_chunk, 0), and the loop of chunk_samples.       *)
PadChunk(samples) ==
  [s \in 1..SamplesPerChunk |->
      IF s <= Len(samples) THEN samples[s] ELSE ZeroSample]

=============================================================================
