---------------------------- MODULE MCCollector -----------------------------
(***************************************************************************)
(* The collector on small instances, bounded by MaxSamples.                *)
(***************************************************************************)
EXTENDS CollectorPipeline

=============================================================================
