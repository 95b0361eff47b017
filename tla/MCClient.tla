------------------------------ MODULE MCClient ------------------------------
(* ClientLoop.tla on small instances. *)
EXTENDS ClientLoop
=============================================================================
