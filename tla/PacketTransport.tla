-------------------------- MODULE PacketTransport ---------------------------
(***************************************************************************)
(* What lies between an encoder and a receiver of its packets.             *)
(*                                                                         *)
(* The transport is not part of the library: it must deliver the packets   *)
(* in order with their chunk counts.  Here it may also deliver a packet    *)
(* cut short, any number of times, before it delivers it whole.            *)
(***************************************************************************)
EXTENDS StreamEncoder

VARIABLE delivered      \* how many of the emitted packets were accepted

InFlight == delivered < Len(emitted)

NextPacket == emitted[delivered + 1]

(* A packet is its header byte, then its parameters, then its payload.     *)
PacketLen(packet) == 1 + Len(packet.parameters) + Len(packet.payload) \div 8

CutShort(packet, length) ==
  LET fields == IF length - 1 < Len(packet.parameters)
                THEN length - 1 ELSE Len(packet.parameters)
  IN  [packet EXCEPT !.parameters = SubSeq(@, 1, fields),
                     !.payload = SubSeq(@, 1, 8 * (length - 1 - fields))]

(* StreamPacket::from_bytes refuses an empty packet, so one byte is left.  *)
ShortCopies(packet) ==
  {CutShort(packet, length) : length \in 1..(PacketLen(packet) - 1)}

(* The caller's input ends: an encoder is finished, unless it fails first  *)
(* (the loop of stream_encode_command ends with its samples).              *)
CallerFinishes == <>(~ Running)

=============================================================================
