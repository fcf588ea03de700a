------------------------------ MODULE MCCodec -------------------------------
(***************************************************************************)
(* Batch compression and random access on every short sequence of samples. *)
(***************************************************************************)
EXTENDS Codec

CONSTANT MaxInput       \* bound: how long the input gets

VARIABLE samples

Init == samples = <<>>

Next ==
  /\ Len(samples) < MaxInput
  /\ \E sample \in Sample : samples' = Append(samples, sample)

Spec == Init /\ [][Next]_samples

Compressed == CompressSamples(samples)

(* Decompressing what was compressed gives the samples back, without the   *)
(* zeros the last chunk was filled up with (compress_samples,              *)
(* decompress_samples).                                                    *)
BatchIsLossless ==
  Compressed # <<>> => DecompressSamples(Compressed[1]) = <<samples>>

(* Each sample, each bit and each range read from the container on its own *)
(* is the one that was compressed, in whichever split it lies and however  *)
(* wide that split's deviations are; one past the end is refused           *)
(* (get_by_sample_index, get_by_bit_index, get_range_by_sample_index).     *)
RandomAccessAgrees ==
  Compressed # <<>> =>
    LET container == Compressed[1]
        count == Len(samples)
    IN  /\ \A i \in 0..count :
             GetBySampleIndex(container, i) =
               IF i = count THEN <<>> ELSE <<samples[i + 1]>>
        /\ \A i \in 0..(count * BitsPerSample) :
             GetByBitIndex(container, i) =
               IF i = count * BitsPerSample THEN <<>>
               ELSE <<samples[(i \div BitsPerSample) + 1][(i % BitsPerSample) + 1]>>
        /\ \A i \in 0..count : \A len \in 1..(count + 1) :
             GetRange(container, i, len) =
               IF i + len > count THEN <<>> ELSE <<SubSeq(samples, i + 1, i + len)>>

=============================================================================
