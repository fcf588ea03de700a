--------------------------- MODULE StreamPipeline ---------------------------
(***************************************************************************)
(* An encoder, a transport and a decoder (README, "Streaming"; the loops   *)
(* of the stream-encode and stream-decode commands).                       *)
(*                                                                         *)
(* The decoder refuses the copies cut short, and the caller asks again.    *)
(***************************************************************************)
EXTENDS PacketTransport, StreamDecoder

vars == <<encoderVars, decoderVars, delivered>>

Init == EncoderInit /\ DecoderInit /\ delivered = 0

Encode == EncoderNext /\ UNCHANGED <<decoderVars, delivered>>

Deliver ==
  /\ InFlight
  /\ Receive(NextPacket)
  /\ delivered' = IF accepted' THEN delivered + 1 ELSE delivered
  /\ UNCHANGED encoderVars

DeliverShort ==
  /\ InFlight
  /\ \E packet \in ShortCopies(NextPacket) : Receive(packet)
  /\ delivered' = IF accepted' THEN delivered + 1 ELSE delivered
  /\ UNCHANGED encoderVars

Next == Encode \/ Deliver \/ DeliverShort

Spec == Init /\ [][Next]_vars

(* A packet in flight is in the end delivered whole, however often it was  *)
(* cut short before.                                                       *)
Fairness == CallerFinishes /\ WF_vars(Deliver)

FairSpec == Spec /\ Fairness

----------------------------------------------------------------------------
(* The promise.                                                            *)

Channel == INSTANCE LosslessChannel
             WITH SampleValue <- Sample, Zero <- ZeroSample, Block <- SamplesPerChunk,
                  sent <- pushed, received <- decoded, closed <- ~ Running

(* Whatever is pushed comes out unchanged and in order, however chunks,    *)
(* packets and splits fall, whatever the dictionary evicts, however often  *)
(* packets arrive cut short (README: "lossless compressor").               *)
Lossless == Channel!ChannelSpec

(* A base that is active in the encoder and that the decoder has been told *)
(* about is the one the decoder finds under its ID: what keeps the two in  *)
(* step although only one of them evicts.                                  *)
DictionariesAgree ==
  \A i \in 1..Len(encoder.dictionary.active) :
     LET entry == encoder.dictionary.active[i]
     IN  entry.id < Len(decoder.dictionary) =>
           decoder.dictionary[entry.id + 1] = entry.base

(* A copy cut short is never taken for a packet.                           *)
ShortCopiesAreRefused ==
  [][DeliverShort => accepted' = FALSE]_vars

(* No packet that an encoder returned is refused when it arrives whole,    *)
(* also after copies of it cut short.                                      *)
WholePacketsAreAccepted ==
  InFlight => DecodePacket(decoder, NextPacket).ok

(* Everything arrives: once finish has returned, all samples are decoded.  *)
EverythingArrives ==
  <>(encoder.status # "ok" \/ (phase = "finished" /\ decoded = Channel!Padded(pushed)))

=============================================================================
