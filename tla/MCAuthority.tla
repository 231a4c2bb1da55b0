---------------------------- MODULE MCAuthority ----------------------------
(* Authority for TLC.  No symmetry: the run checks a liveness property.    *)
EXTENDS Authority
=============================================================================
