------------------------------- MODULE Files --------------------------------
(***************************************************************************)
(* The bytes of a file, as the container and the stream archive use them.  *)
(*                                                                         *)
(* A byte is either one of the bytes of an integer field, which says the   *)
(* integer, the byte's number and the field's width, or eight bits of      *)
(* packed data.  So offsets and lengths are those of the code, while byte  *)
(* order is left out, and a read that is not aligned with what was written *)
(* finds no integer: it counts as an error.  Offsets are counted from 0.   *)
(***************************************************************************)
EXTENDS Bits

Uint(value, width) ==
  [k \in 1..width |-> [uint |-> value, byte |-> k, of |-> width]]

Packed(bits) == [k \in 1..(Len(bits) \div 8) |-> [bits |-> SubSeq(bits, 8 * k - 7, 8 * k)]]

HasUint(file, offset, width) ==
  /\ offset + width <= Len(file)
  /\ \A k \in 1..width :
        LET byte == file[offset + k]
        IN  "uint" \in DOMAIN byte /\ byte.byte = k /\ byte.of = width

UintAt(file, offset) == file[offset + 1].uint

HasPacked(file, offset, len) ==
  /\ offset + len <= Len(file)
  /\ \A k \in 1..len : "bits" \in DOMAIN file[offset + k]

PackedAt(file, offset, len) == Join([k \in 1..len |-> file[offset + k].bits], 8)

=============================================================================
