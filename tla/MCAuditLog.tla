----------------------------- MODULE MCAuditLog -----------------------------
(***************************************************************************)
(* AuditLog for TLC: records and threads are model values. No symmetry: a  *)
(* liveness property is checked.                                           *)
(***************************************************************************)
EXTENDS AuditLog
=============================================================================
