----------------------------- MODULE MCStorage -----------------------------
(* Small instances of Storage for TLC. *)
EXTENDS StorageRefinement, TLC

CallSymmetry == Permutations(Calls)
=============================================================================
