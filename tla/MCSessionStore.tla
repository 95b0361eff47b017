--------------------------- MODULE MCSessionStore ---------------------------
(* SessionStore.tla on a small instance. *)
EXTENDS SessionStore, TLC

Symmetry == Permutations(Conn) \cup Permutations(Code)
=============================================================================
