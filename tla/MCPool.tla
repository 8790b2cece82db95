------------------------------- MODULE MCPool -------------------------------
(* Bounds for model checking Pool. *)
EXTENDS Pool, TLC

\* malloc may give any block.
BlockSymmetry == Permutations(Blocks)
=============================================================================
