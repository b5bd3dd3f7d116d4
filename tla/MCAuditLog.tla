----------------------------- MODULE MCAuditLog -----------------------------
(***************************************************************************)
(* Instances of AuditLog for TLC: the configurations choose the number of  *)
(* loggers and which outcomes of a write occur.                            *)
(***************************************************************************)
EXTENDS AuditLog
=============================================================================
