----------------------------- MODULE MCRawBytes -----------------------------
(***************************************************************************)
(* compress-raw turns a file of bytes into a container file; decompress-   *)
(* raw, in another process, turns it back and is told nothing about it     *)
(* (bin/titchy.rs).                                                        *)
(***************************************************************************)
EXTENDS RawBytes

CONSTANT MaxBytes     \* bound: how long the input gets

(* A bound on the input: no bit set, the lowest, or the highest.           *)
InputByte == {WriteValue(0, 8), WriteValue(1, 8), WriteValue(128, 8)}

VARIABLES
  endian,       \* the option --endian
  raw,          \* the input file
  packed_file,  \* the container file, <<>> before there is one
  restored      \* <<>> until decompress-raw has written it, then <<bytes>>

rawVars == <<endian, raw, packed_file, restored>>

RawInit ==
  /\ endian \in {"little", "big"}
  /\ raw = <<>> /\ packed_file = <<>> /\ restored = <<>>

ReadBytes ==
  /\ packed_file = <<>>
  /\ Len(raw) < MaxBytes
  /\ \E byte \in InputByte : raw' = Append(raw, byte)
  /\ UNCHANGED <<endian, packed_file, restored>>

CompressRaw ==
  /\ packed_file = <<>>
  /\ CompressRawBytes(raw, endian) # <<>>
  /\ packed_file' = ToBytes(CompressRawBytes(raw, endian)[1], endian)
  /\ UNCHANGED <<endian, raw, restored>>

DecompressRaw ==
  /\ packed_file # <<>> /\ restored = <<>>
  /\ FromBytes(packed_file) # <<>>
  /\ restored' = DecompressRawBytes(FromBytes(packed_file)[1], HeaderConfig(packed_file).endian)
  /\ UNCHANGED <<endian, raw, packed_file>>

RawNext == ReadBytes \/ CompressRaw \/ DecompressRaw

RawSpec == RawInit /\ [][RawNext]_rawVars

----------------------------------------------------------------------------
(* What comes back is what went in, byte for byte, whichever byte order    *)
(* was asked for: the reader has it from the file alone (the endian tag).  *)
RawRoundTrips == restored # <<>> => restored = <<raw>>

(* The samples in between are the numbers that the bytes stand for in that *)
(* order, so that a sample read from the container by itself is one too.   *)
SamplesAreTheirBytes ==
  packed_file # <<>> =>
    \A i \in 1..(Len(raw) \div SampleBytes) :
      LET Byte(k) == ReadValue(raw[(i - 1) * SampleBytes + k])
          Weight(k) == IF endian = "little" THEN k - 1 ELSE SampleBytes - k
          value[k \in 0..SampleBytes] ==
            IF k = 0 THEN 0 ELSE value[k - 1] + Byte(k) * Pow2[8 * Weight(k)]
      IN  ReadValue(IndexedSample(OpenReader(packed_file)[1], i - 1)[1]) = value[SampleBytes]

=============================================================================
