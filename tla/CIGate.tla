------------------------------- MODULE CIGate -------------------------------
(***************************************************************************)
(* The readers of the baselines: `querysense ci gate' and `ci analyze',    *)
(* which load the file, analyze a batch of plans (AnalysisService) and end *)
(* with an exit code, and the check of an upgrade.  They change nothing,   *)
(* so they are operators of the state of BaselineStore.                    *)
(*                                                                         *)
(* A plan is a record: `shape', the node types by path, is what the diff   *)
(* compares; `detail', the relations, indexes and join types, only enters  *)
(* the hash; `cost' is its total cost.  A batch maps query ids to plans    *)
(* with the worst finding of their analysis, or "failed" when the plan     *)
(* could not be parsed or its analysis raised.                             *)
(***************************************************************************)
EXTENDS BaselineStore

CONSTANTS
  Batches,    \* the batches handed to the gate
  HighDanger  \* pairs of plans whose change scores 50 or more

ASSUME GateAssumption ==
  /\ \A plan \in Plan : plan.cost \in Nat
  /\ \A batch \in Batches : \A q \in DOMAIN batch :
       q \in Query /\ batch[q].plan.cost \in Nat

FailOn == {"critical", "warning", "info", "none"}

-----------------------------------------------------------------------------
\* compare: the baseline of a query in the file as it is loaded now.
Baseline(q) == Load[q].plan

HasStructuralChanges(q, plan) == Baseline(q).shape # plan.shape

HasCostRegression(q, plan) == plan.cost > Baseline(q).cost /\ Baseline(q).cost > 0

\* Mistake: a change of structure excused when the plan is no dearer.
RegressionByCost(q, plan) ==
  Baseline(q) # NoPlan /\ HasCostRegression(q, plan)

IsRegression(q, plan) ==
  /\ Baseline(q) # NoPlan
  /\ HasStructuralChanges(q, plan) \/ HasCostRegression(q, plan)

\* The structure hashes differ: status CHANGED.
Changed(q, plan) ==
  /\ Baseline(q) # NoPlan
  /\ <<Baseline(q).shape, Baseline(q).detail>> # <<plan.shape, plan.detail>>

\* The plans that get a report: one that fails is logged and left out.
Examined(batch) == {q \in DOMAIN batch : batch[q].worst # "failed"}

\* The severities that fail the gate at a threshold.
Failing(failOn) ==
  CASE failOn = "critical" -> {"critical"}
    [] failOn = "warning"  -> {"critical", "warning"}
    [] failOn = "info"     -> {"critical", "warning", "info"}
    [] OTHER               -> {}

\* _check_failure on the counts over all reports.
CheckFailure(batch, failOn) ==
  \E q \in Examined(batch) :
    IsRegression(q, batch[q].plan) \/ batch[q].worst \in Failing(failOn)

\* The exit code: no plan files pass, a batch of which nothing could be
\* examined fails.
GatePasses(batch, failOn) ==
  \/ DOMAIN batch = {}
  \/ Examined(batch) # {} /\ ~CheckFailure(batch, failOn)

\* Mistake: the score of a locked plan taken from its transitions.
SevereByScore(q, plan) == Changed(q, plan) /\ <<Baseline(q), plan>> \in HighDanger

\* The verdict of a changed plan is HIGH or CRITICAL.
Severe(q, plan) ==
  Changed(q, plan) /\ (Load[q].locked \/ <<Baseline(q), plan>> \in HighDanger)

SafeToUpgrade(batch) == \A q \in Examined(batch) : ~Severe(q, batch[q].plan)

-----------------------------------------------------------------------------
\* While the file is readable, a gate that passes has found no plan of other
\* node types, and none dearer, than the one that was last saved for its
\* query, whoever saved it.
GateGuardsWhatWasSaved ==
  file # Torn =>
    \A batch \in Batches, failOn \in FailOn : GatePasses(batch, failOn) =>
      \A q \in Examined(batch) : acked[q].plan # NoPlan =>
        /\ batch[q].plan.shape = acked[q].plan.shape
        /\ acked[q].plan.cost > 0 => batch[q].plan.cost <= acked[q].plan.cost

\* "treated as critical": an upgrade is never called safe when a plan locked by
\* a save has changed in any way.
UpgradeGuardsLocks ==
  file # Torn =>
    \A batch \in Batches : SafeToUpgrade(batch) =>
      \A q \in Examined(batch) : acked[q].locked /\ acked[q].plan # NoPlan =>
        /\ batch[q].plan.shape = acked[q].plan.shape
        /\ batch[q].plan.detail = acked[q].plan.detail

\* "locked baselines cause CI to hard-fail if the plan changes at all,
\* regardless of severity thresholds".
LockedChangeFails ==
  \A batch \in Batches, failOn \in FailOn : GatePasses(batch, failOn) =>
    \A q \in Examined(batch) : Load[q].locked => ~Changed(q, batch[q].plan)
=============================================================================
