-------------------------- MODULE MCStreamPipeline --------------------------
(***************************************************************************)
(* The pipeline on small instances, bounded by MaxSamples.                 *)
(***************************************************************************)
EXTENDS StreamPipeline

=============================================================================
