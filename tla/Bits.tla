-------------------------------- MODULE Bits --------------------------------
(***************************************************************************)
(* Bit strings and fixed-width unsigned values: what bitio.rs (BitWriter,  *)
(* BitReader) and packed_bits.rs (PackedBits) do with them.  A bit string  *)
(* is a sequence of 0s and 1s, most significant bit first, numbered from 1 *)
(* (the code numbers from 0).                                              *)
(***************************************************************************)
EXTENDS Integers, Sequences

Bit == {0, 1}

BitString(n) == [1..n -> Bit]

ZeroBits(n) == [i \in 1..n |-> 0]

(* 1 << n, for any n: a recursive function, so that TLC evaluates it and   *)
(* the provers can reason about it.                                        *)
Pow2[n \in Nat] == IF n = 0 THEN 1 ELSE 2 * Pow2[n - 1]

(* usize::BITS - value.leading_zeros(): the bits a positive value takes.   *)
BitLength(value) == CHOOSE n \in 1..value : value < Pow2[n] /\ Pow2[n - 1] <= value

CeilLog2(value) == IF value <= 1 THEN 0 ELSE BitLength(value - 1)

CeilDiv(a, b) == (a + b - 1) \div b

(* BitWriter::push_value: the low `width` bits of value, high bit first.   *)
(* Bits above the width are lost.                                          *)
WriteValue(value, width) ==
  [i \in 1..width |-> (value \div Pow2[width - i]) % 2]

(* BitReader::read_value: value = (value << 1) | bit, bit after bit.       *)
ReadValue(bits) ==
  LET value[i \in 0..Len(bits)] ==
        IF i = 0 THEN 0 ELSE 2 * value[i - 1] + bits[i]
  IN  value[Len(bits)]

(* Fields of one width, side by side with no alignment between them: which *)
(* field the a-th bit belongs to, its place there, and the way back.       *)
FieldOf(a, width) == (a - 1) \div width + 1

PlaceOfBit(a, width) == ((a - 1) % width) + 1

BitAt(field, place, width) == (field - 1) * width + place

(* Writing the fields one after the other, and reading `count` of them     *)
(* after `start` bits.                                                     *)
Join(fields, width) ==
  [a \in 1..(Len(fields) * width) |-> fields[FieldOf(a, width)][PlaceOfBit(a, width)]]

Cut(bits, start, count, width) ==
  [f \in 1..count |-> [i \in 1..width |-> bits[start + BitAt(f, i, width)]]]

(* Faulty variant: a whole byte of padding when none is needed.            *)
PadToByteAlways(bits) == bits \o ZeroBits(8 - (Len(bits) % 8))

(* PackedBits::from_bits pads the last byte with zeros.                    *)
PadToByte(bits) == bits \o ZeroBits((8 - (Len(bits) % 8)) % 8)

=============================================================================
