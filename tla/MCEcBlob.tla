------------------------------ MODULE MCEcBlob ------------------------------
(* The instance of EcBlob for TLC: see MCEcBlob_safe.cfg. *)
EXTENDS EcBlob
=============================================================================
