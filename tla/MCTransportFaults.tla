------------------------- MODULE MCTransportFaults --------------------------
(***************************************************************************)
(* Transport faults on small instances, bounded by MaxSamples and          *)
(* MaxArrivals.                                                            *)
(***************************************************************************)
EXTENDS TransportFaults

=============================================================================
