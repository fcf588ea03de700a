------------------------------- MODULE Params -------------------------------
(***************************************************************************)
(* TitchyConfig (params.rs) and the adaptive parameters computed from it   *)
(* (codec.rs): the base-ID width l_id and the deviation width l_d, both    *)
(* one-byte fields.                                                        *)
(*                                                                         *)
(* new_base_threshold is a fraction in the code (an f64).  It is given     *)
(* here in parts per million: the model compares exact fractions and       *)
(* leaves out the rounding of one f64 division.                            *)
(***************************************************************************)
EXTENDS Bits

CONSTANTS
  BitsPerSample,             \* TitchyConfig::bits_per_sample
  SamplesPerChunk,           \* TitchyConfig::samples_per_chunk
  ChunksPerSplit,            \* TitchyConfig::chunks_per_split
  NewBaseThresholdPpm,       \* TitchyConfig::new_base_threshold * 10^6
  MaxActiveDictionaryBytes,  \* TitchyConfig::max_active_dictionary_bytes ...
  Unlimited,                 \* ... and its None
  IdBits                     \* 32: base IDs are u32, and decoders refuse
                             \* an l_id above 32

ChunkBitLen == BitsPerSample * SamplesPerChunk

ChunkByteLen == CeilDiv(ChunkBitLen, 8)

(* TitchyConfig::validate, with the ranges of the u8 and u16 fields.       *)
(* Every constructor of an encoder, a decoder or a collector calls it.     *)
(* IdBits is a parameter only to let small instances run out of IDs.       *)
ASSUME ConfigAssumption ==
  /\ BitsPerSample \in 1..64
  /\ SamplesPerChunk \in 1..255
  /\ ChunksPerSplit \in Nat \ {0} /\ ChunksPerSplit <= 65535
  /\ (BitsPerSample * SamplesPerChunk) \div 2 <= 255
  /\ NewBaseThresholdPpm \in Nat /\ NewBaseThresholdPpm <= 1000000
  /\ MaxActiveDictionaryBytes \in Nat \cup {Unlimited}
  /\ Unlimited \notin Nat
  /\ IdBits \in 1..32

(* The same, of a configuration that a file describes.  Its threshold is   *)
(* one that was validated when the file was written.                       *)
ValidConfig(bits_per_sample, samples_per_chunk, chunks_per_split) ==
  /\ bits_per_sample \in 1..64
  /\ samples_per_chunk > 0 /\ chunks_per_split > 0
  /\ (bits_per_sample * samples_per_chunk) \div 2 <= 255

(* Dictionary::new: the bases the active dictionary may hold, counting a   *)
(* packed base and four bytes of ID for each.                              *)
MaxActiveBases ==
  IF MaxActiveDictionaryBytes = Unlimited
  THEN Unlimited
  ELSE MaxActiveDictionaryBytes \div (ChunkByteLen + 4)

----------------------------------------------------------------------------
(* The adaptive parameters.                                                *)

InitialLId == CeilLog2(ChunksPerSplit)

InitialLD == ChunkBitLen \div 2

(* Faulty variant: no room kept for the coming split.                      *)
CapacityNeededNow(global_base_count, l_id) ==
  l_id < 64 /\ global_base_count >= Pow2[l_id]

CapacityNeeded(global_base_count, l_id) ==
  l_id < 64 /\ global_base_count + ChunksPerSplit >= Pow2[l_id]

(* Faulty variants: the width never grows; it grows at every boundary.     *)
UpdateLIdNever(global_base_count, l_id) == l_id

UpdateLIdAlways(global_base_count, l_id) == l_id + 1

UpdateLId(global_base_count, l_id) ==
  IF CapacityNeeded(global_base_count, l_id) /\ l_id < 255 THEN l_id + 1 ELSE l_id

(* f > new_base_threshold, for f = new_bases / chunks_per_split.           *)
AboveThreshold(new_bases) ==
  new_bases * 1000000 > NewBaseThresholdPpm * ChunksPerSplit

LDMaximum == IF ChunkBitLen <= 255 THEN ChunkBitLen ELSE 255

UpdateLD(global_base_count, old_base_count, l_d) ==
  LET new_bases == IF global_base_count > old_base_count
                   THEN global_base_count - old_base_count ELSE 0
  IN  IF new_bases = 0
      THEN IF l_d > 0 THEN l_d - 1 ELSE 0
      ELSE IF AboveThreshold(new_bases)
           THEN IF l_d < LDMaximum THEN l_d + 1 ELSE LDMaximum
           ELSE l_d

=============================================================================
