--------------------------- MODULE MCKineticBlob ---------------------------
(* Instances of KineticBlob for TLC. *)
EXTENDS KineticBlob, TLC

OpSymmetry == Permutations(Uploads) \cup Permutations(Downloads) \cup Permutations(Removals)
=============================================================================
