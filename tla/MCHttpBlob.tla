---------------------------- MODULE MCHttpBlob ----------------------------
(* Instances of HttpBlob for TLC. *)
EXTENDS HttpBlob, TLC

OpSymmetry == Permutations(Ops)
=============================================================================
