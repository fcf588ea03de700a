------------------------- MODULE CollectorPipeline --------------------------
(***************************************************************************)
(* An encoder, a transport and a collector: the same samples reach a       *)
(* container by way of packets (streaming.rs) or at once (codec.rs).       *)
(***************************************************************************)
EXTENDS PacketTransport, StreamCollector

vars == <<encoderVars, collectorVars, delivered>>

Init == EncoderInit /\ CollectorInit /\ delivered = 0

Encode == EncoderNext /\ UNCHANGED <<collectorVars, delivered>>

Deliver ==
  /\ InFlight
  /\ Ingest(NextPacket)
  /\ delivered' = IF ingested' THEN delivered + 1 ELSE delivered
  /\ UNCHANGED encoderVars

DeliverShort ==
  /\ InFlight
  /\ \E packet \in ShortCopies(NextPacket) : Ingest(packet)
  /\ delivered' = IF ingested' THEN delivered + 1 ELSE delivered
  /\ UNCHANGED encoderVars

Next == Encode \/ Deliver \/ DeliverShort

Spec == Init /\ [][Next]_vars

----------------------------------------------------------------------------
(* Properties.                                                             *)

Finished == phase = "finished"

AllDelivered == delivered = Len(emitted)

(* The collector, which decodes nothing, ends with exactly the container   *)
(* that compress_samples makes of the same samples: the same bases under   *)
(* the same IDs, the same splits, widths and pairs, whatever the size of   *)
(* the packets was and however often one arrived cut short.                *)
CollectsTheBatch ==
  Finished /\ AllDelivered => FinishCollector(collector, Len(pushed)) =
    CompressSamples(pushed)

(* No packet that an encoder returned is refused when it arrives whole,    *)
(* also after a copy of it that had parameters and too little else.        *)
WholePacketsAreCollected ==
  InFlight => IngestPacket(collector, NextPacket).ok

=============================================================================
