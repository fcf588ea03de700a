-------------------------- MODULE MCStreamEncoder ---------------------------
(***************************************************************************)
(* StreamEncoder on small instances.  The histories are bounded by         *)
(* MaxSamples; everything else is finite because of it.                    *)
(***************************************************************************)
EXTENDS StreamEncoder

=============================================================================
