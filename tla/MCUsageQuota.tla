---------------------------- MODULE MCUsageQuota ----------------------------
(***************************************************************************)
(* Instances of UsageQuota for TLC: a tier with a daily limit of plans     *)
(* (Community) and one with a monthly limit of API calls (Pro).            *)
(***************************************************************************)
EXTENDS UsageQuota

MCLimits == {[plans |-> 1, calls |-> 0], [plans |-> 0, calls |-> 2]}
=============================================================================
