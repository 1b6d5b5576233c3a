----------------------------- MODULE MCEcProxy -----------------------------
(* Instances of EcProxy for TLC. *)
EXTENDS EcProxy, TLC

ConnSymmetry == Permutations(Conns)
=============================================================================
