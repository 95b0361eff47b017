------------------------------ MODULE MCRelay ------------------------------
(* Relay.tla on small instances. *)
EXTENDS Relay
=============================================================================
