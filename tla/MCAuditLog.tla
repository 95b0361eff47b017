----------------------------- MODULE MCAuditLog -----------------------------
(* AuditLog.tla on small instances. *)
EXTENDS AuditLog

Symmetry == Permutations(Body)
=============================================================================
