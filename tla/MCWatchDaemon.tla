---------------------------- MODULE MCWatchDaemon ----------------------------
(***************************************************************************)
(* Two queries, two channels, and three measures: from the first to each   *)
(* of the others is a regression, between these two the time doubles but   *)
(* the severity is too low.                                                *)
(***************************************************************************)
EXTENDS WatchDaemon

CONSTANTS q1, q2

MCQuery == {q1, q2}

AMeasure(mean) == [mean |-> mean]

MCMeasure == {AMeasure(1), AMeasure(2), AMeasure(4)}
MCSevere == {<<AMeasure(1), AMeasure(2)>>, <<AMeasure(1), AMeasure(4)>>}
MCChannels == <<"slack", "pagerduty">>
=============================================================================
