-------------------------- MODULE MCCommandPolicy --------------------------
(* CommandPolicy.tla on small instances. *)
EXTENDS CommandPolicy
=============================================================================
