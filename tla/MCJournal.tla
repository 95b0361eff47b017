----------------------------- MODULE MCJournal -----------------------------
(* Journal.tla on small instances. *)
EXTENDS Journal, TLC

Symmetry == Permutations(Goroutine)
=============================================================================
