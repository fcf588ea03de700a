---------------------------- MODULE MCTransform -----------------------------
(***************************************************************************)
(* Model checking of Transform: every chunk and every deviation width of a *)
(* small geometry is transformed, packed as the dictionary stores it, and  *)
(* restored; the properties are about the intermediate and final states.   *)
(***************************************************************************)
EXTENDS Transform

VARIABLES stage,        \* "raw", "transformed" or "restored"
          samples,      \* the chunk
          l_d,          \* the deviation width it is transformed with
          base,         \* the packed base (all zeros while "raw")
          deviation,    \* the deviation bits
          restored      \* the chunk decoding gives back

vars == <<stage, samples, l_d, base, deviation, restored>>

----------------------------------------------------------------------------
(* deviation_positions as the nested loops of the code: the counts per     *)
(* sample, then every bit level from the least significant one, and in     *)
(* each level the samples whose count reaches it.                          *)

PerSample(width) ==
  [s \in 1..SamplesPerChunk |->
     width \div SamplesPerChunk
       + (IF s > SamplesPerChunk - (width % SamplesPerChunk) THEN 1 ELSE 0)]

(* The i-th position the two loops come to.                                *)
Visited(i) ==
  <<((i - 1) % SamplesPerChunk) + 1, BitsPerSample - ((i - 1) \div SamplesPerChunk)>>

LoopPositions(width) ==
  LET Counts(p) == BitsPerSample - p[2] + 1 <= PerSample(width)[p[1]]
      pushed[i \in 0..ChunkBitLen] ==
        IF i = 0 THEN <<>>
        ELSE IF Counts(Visited(i)) THEN Append(pushed[i - 1], Visited(i))
        ELSE pushed[i - 1]
  IN  pushed[ChunkBitLen]

----------------------------------------------------------------------------
Init == /\ stage = "raw"
        /\ samples \in Chunk
        /\ l_d \in 0..ChunkBitLen
        /\ base = ZeroBits(ChunkBitLen)
        /\ deviation = <<>>
        /\ restored = PadChunk(<<>>)

(* What an encoder does with a chunk before it looks up the base.          *)
Encode == /\ stage = "raw"
          /\ LET transformed == TransformChunk(samples, l_d)
             IN  /\ base' = PackSamples(transformed.base_samples)
                 /\ deviation' = transformed.deviation_bits
          /\ stage' = "transformed"
          /\ UNCHANGED <<samples, l_d, restored>>

(* What a decoder does with a base and a deviation.                        *)
Decode == /\ stage = "transformed"
          /\ restored' = InverseTransformChunk(UnpackSamples(base), deviation, l_d)
          /\ stage' = "restored"
          /\ UNCHANGED <<samples, l_d, base, deviation>>

Next == Encode \/ Decode

Spec == Init /\ [][Next]_vars

----------------------------------------------------------------------------
(* Decoding a packed base and its deviation gives back the chunk           *)
(* (README: "Lossless base/deviation transformation").                     *)
RoundTrip == stage = "restored" => restored = samples

(* The closed form of the positions is what the nested loops of            *)
(* deviation_positions push, in their order and exactly l_d of them; the   *)
(* decoder checks deviation_bits.len() against l_d, not against them.      *)
PositionsFollowLoops == DeviationPositions(l_d) = LoopPositions(l_d)

(* Reading one bit without decoding the chunk, as IndexedReader does: from *)
(* the deviation at its offset when the position is a deviation position,  *)
(* from the packed base otherwise.  It is the bit of the original sample.  *)
BitAccessAgrees ==
  stage = "transformed" =>
    \A s \in 1..SamplesPerChunk, b \in 1..BitsPerSample :
       samples[s][b] = IF IsDeviationPosition(l_d, s, b)
                       THEN deviation[DeviationBitOffset(l_d, s, b)]
                       ELSE base[BitAt(s, b, BitsPerSample)]

(* Why a wider deviation makes for fewer bases (update_parameters widens   *)
(* l_d when too many bases are new): chunks that share a base at one width *)
(* share it at every larger width.                                         *)
WideningOnlyMerges ==
  stage = "transformed" =>
    \A other \in Chunk :
       PackSamples(BaseSamples(other, l_d)) = base =>
         \A wider \in l_d..ChunkBitLen :
            BaseSamples(other, wider) = BaseSamples(samples, wider)

----------------------------------------------------------------------------
=============================================================================
