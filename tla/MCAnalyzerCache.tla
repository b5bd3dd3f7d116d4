--------------------------- MODULE MCAnalyzerCache ---------------------------
(***************************************************************************)
(* Instances of AnalyzerCache for TLC: two threads that race on two to     *)
(* four keys.                                                              *)
(***************************************************************************)
EXTENDS AnalyzerCache
=============================================================================
