------------------------------ MODULE MCCIGate ------------------------------
(***************************************************************************)
(* Two processes on the baselines of two queries.  Two plans get recorded; *)
(* the gate also sees the first of them with another index, and dearer.    *)
(***************************************************************************)
EXTENDS CIGate, TLC

APlan(shape, detail, cost) == [shape |-> shape, detail |-> detail, cost |-> cost]

Base == APlan("scan", "old", 2)
Reindexed == APlan("scan", "new", 2)
Dearer == APlan("scan", "old", 3)
Joined == APlan("join", "old", 4)

MCPlan == {Base, Joined}
MCHighDanger == {<<Base, Joined>>}

\* What the gate may find in the plan file of a query.
Seen == {[plan |-> Base, worst |-> "none"], [plan |-> Base, worst |-> "failed"],
         [plan |-> Dearer, worst |-> "none"], [plan |-> Reindexed, worst |-> "warning"]}

MCBatches == UNION {[queries -> Seen] : queries \in SUBSET Query}

MCSymmetry == Permutations(Process) \cup Permutations(Query)
=============================================================================
