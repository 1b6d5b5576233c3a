---------------------------- MODULE MCSdsClient ----------------------------
(* Instances of SdsClient for TLC. *)
EXTENDS SdsClient, TLC

OperationSymmetry == Permutations(Uploads) \cup Permutations(Downloads)
=============================================================================
