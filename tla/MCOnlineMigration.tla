-------------------------- MODULE MCOnlineMigration --------------------------
(***************************************************************************)
(* Instances of OnlineMigration for TLC.                                   *)
(***************************************************************************)
EXTENDS OnlineMigration
=============================================================================
