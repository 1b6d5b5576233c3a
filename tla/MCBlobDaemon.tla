---------------------------- MODULE MCBlobDaemon ----------------------------
(* Instances of BlobDaemon for TLC. *)
EXTENDS BlobDaemon, TLC

ConnSymmetry == Permutations(Conns)
=============================================================================
