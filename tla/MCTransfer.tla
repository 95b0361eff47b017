----------------------------- MODULE MCTransfer -----------------------------
(* Transfer.tla on small instances. *)
EXTENDS Transfer

Symmetry == Permutations(Writer)
=============================================================================
