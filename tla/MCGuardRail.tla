---------------------------- MODULE MCGuardRail ----------------------------
(* GuardRail.tla on small instances. *)
EXTENDS GuardRail, TLC

Symmetry == Permutations(Cmd) \cup Permutations(Desc)
=============================================================================
