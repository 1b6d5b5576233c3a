-------------------------- MODULE MCKineticClient --------------------------
(* Instances of KineticClient for TLC. *)
EXTENDS KineticClient, TLC

CallSymmetry == Permutations(Calls)
=============================================================================
