------------------------------ MODULE RawBytes ------------------------------
(***************************************************************************)
(* compress_raw_bytes and decompress_raw_bytes (codec.rs): samples of      *)
(* whole bytes, taken from and given back as bytes, in the byte order of   *)
(* the configuration.                                                      *)
(*                                                                         *)
(* A raw byte is a string of eight bits.  Err is <<>>, Ok is <<value>>.    *)
(***************************************************************************)
EXTENDS IndexedReader

SampleBytes == BitsPerSample \div 8

(* Faulty variant: both directions leave the bytes as they are.            *)
InOrderAsIs(bytes, endian) == bytes

(* The bytes of a sample, most significant first, from those in the given  *)
(* order, and the way back.                                                *)
InOrder(bytes, endian) == IF endian = "big" THEN bytes ELSE Reverse(bytes)

SampleOfBytes(bytes, endian) == Join(InOrder(bytes, endian), 8)

BytesOfSample(sample, endian) == InOrder(Cut(sample, 0, SampleBytes, 8), endian)

CompressRawBytes(raw, endian) ==
  IF BitsPerSample % 8 # 0 THEN <<>>
  ELSE IF Len(raw) % SampleBytes # 0 THEN <<>>
  ELSE CompressSamples(
         [i \in 1..(Len(raw) \div SampleBytes) |->
            SampleOfBytes(SubSeq(raw, (i - 1) * SampleBytes + 1, i * SampleBytes), endian)])

DecompressRawBytes(container, endian) ==
  LET samples == DecompressSamples(container)
  IN  IF BitsPerSample % 8 # 0 \/ samples = <<>> THEN <<>>
      ELSE <<Join([i \in 1..Len(samples[1]) |-> BytesOfSample(samples[1][i], endian)],
                  SampleBytes)>>

=============================================================================
