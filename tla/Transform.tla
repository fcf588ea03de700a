----------------------------- MODULE Transform ------------------------------
(***************************************************************************)
(* The base/deviation transform of one chunk (transform.rs).               *)
(*                                                                         *)
(* l_d low-order bits of the chunk are taken out as its deviation, spread  *)
(* over the samples as evenly as possible; what is left, with those bits   *)
(* cleared, is the base the dictionary deduplicates.                       *)
(*                                                                         *)
(* A position is <<sample, bit>>, both numbered from 1, bit 1 being the    *)
(* most significant.                                                       *)
(***************************************************************************)
EXTENDS SampleStream

Position == (1..SamplesPerChunk) \X (1..BitsPerSample)

(* Faulty variants: the remainder goes to the first samples; the samples   *)
(* to skip are counted as those to keep.                                   *)
RemainderFirst(l_d) ==
  [i \in 1..l_d |->
     <<((i - 1) % SamplesPerChunk) + 1, BitsPerSample - ((i - 1) \div SamplesPerChunk)>>]

RemainderSkipped(l_d) ==
  [i \in 1..l_d |->
     LET level == (i - 1) \div SamplesPerChunk
         place == ((i - 1) % SamplesPerChunk) + 1
         skipped == IF level < l_d \div SamplesPerChunk THEN 0 ELSE l_d % SamplesPerChunk
         sample == IF skipped + place <= SamplesPerChunk
                   THEN skipped + place ELSE SamplesPerChunk
     IN  <<sample, BitsPerSample - level>>]

(* deviation_positions, as the function from the place in the result to    *)
(* the position the nested loops push there: level by level from the least *)
(* significant bit, all samples in order, and in the level that l_d does   *)
(* not fill only the last l_d % SamplesPerChunk samples.                   *)
(* LoopPositions of MCTransform is the nested loop itself.                 *)
DeviationPositions(l_d) ==
  [i \in 1..l_d |->
     LET level == (i - 1) \div SamplesPerChunk
         place == ((i - 1) % SamplesPerChunk) + 1
         skipped == IF level < l_d \div SamplesPerChunk
                    THEN 0 ELSE SamplesPerChunk - (l_d % SamplesPerChunk)
     IN  <<skipped + place, BitsPerSample - level>>]

IsDeviationPosition(l_d, sample, bit) ==
  \E i \in 1..l_d : DeviationPositions(l_d)[i] = <<sample, bit>>

(* deviation_bit_offset, of a deviation position.                          *)
DeviationBitOffset(l_d, sample, bit) ==
  CHOOSE i \in 1..l_d :
     /\ DeviationPositions(l_d)[i] = <<sample, bit>>
     /\ \A j \in 1..(i - 1) : DeviationPositions(l_d)[j] # <<sample, bit>>

BaseSamples(samples, l_d) ==
  [s \in 1..SamplesPerChunk |-> [b \in 1..BitsPerSample |->
      IF IsDeviationPosition(l_d, s, b) THEN 0 ELSE samples[s][b]]]

DeviationBits(samples, l_d) ==
  [i \in 1..l_d |->
     LET p == DeviationPositions(l_d)[i] IN samples[p[1]][p[2]]]

TransformChunk(samples, l_d) ==
  [base_samples   |-> BaseSamples(samples, l_d),
   deviation_bits |-> DeviationBits(samples, l_d)]

(* inverse_transform_chunk, for as many deviation bits as l_d says.  No    *)
(* position occurs twice, so the order of the writes does not matter.      *)
InverseTransformChunk(base_samples, deviation_bits, l_d) ==
  [s \in 1..SamplesPerChunk |-> [b \in 1..BitsPerSample |->
      IF IsDeviationPosition(l_d, s, b)
      THEN deviation_bits[DeviationBitOffset(l_d, s, b)]
      ELSE base_samples[s][b]]]

=============================================================================
