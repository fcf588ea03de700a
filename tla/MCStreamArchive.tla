-------------------------- MODULE MCStreamArchive ---------------------------
(***************************************************************************)
(* The stream archive on small instances, bounded by MaxSamples.           *)
(***************************************************************************)
EXTENDS StreamArchive

=============================================================================
