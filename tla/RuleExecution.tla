---------------------------- MODULE RuleExecution ----------------------------
(***************************************************************************)
(* What one execution of a rule set promises, independent of the executor  *)
(* (Analyzer or DAGExecutor) that does it:                                 *)
(*  - every rule is decided once, PASS, FAIL or SKIP, and never again;     *)
(*  - the AGGREGATE phase starts after the last PER_NODE rule is decided;  *)
(*  - a rule runs (PASS or FAIL) only when what it requires is available;  *)
(*  - what is available only grows, and only by what decided rules declare *)
(*    or by the findings of the finished phase;                            *)
(*  - an execution ends with every rule decided, or with a raised error.   *)
(***************************************************************************)
EXTENDS FiniteSets

CONSTANT Rule

VARIABLES
  requires,   \* rule -> capabilities it requires
  provides,   \* rule -> capabilities it provides
  phase,      \* rule -> "PER_NODE" or "AGGREGATE"
  outcome,    \* rule -> "pending", "PASS", "FAIL" or "SKIP"
  available,  \* the capabilities the next decision is made with
  stage       \* "idle", "PER_NODE", "AGGREGATE", "done" or "raised"

xvars == <<requires, provides, phase, outcome, available, stage>>
declared == <<requires, provides, phase>>

DecidedRules(decision) == {r \in Rule : decision[r] # "pending"}

Grantable(decision) ==
  {"prior_findings"} \cup UNION {provides[r] : r \in DecidedRules(decision)}

Grows(decision) ==
  /\ available \subseteq available'
  /\ available' \ available \subseteq Grantable(decision)

XInit ==
  /\ outcome = [r \in Rule |-> "pending"]
  /\ stage = "idle"

\* The executor has its facts: the first phase begins.
Begin ==
  /\ stage = "idle"
  /\ stage' = "PER_NODE"
  /\ UNCHANGED <<declared, outcome>>

Decide(r) ==
  /\ stage = phase[r]
  /\ outcome[r] = "pending"
  /\ \/ /\ requires[r] \subseteq available
        /\ \E o \in {"PASS", "FAIL"} : outcome' = [outcome EXCEPT ![r] = o]
     \/ /\ ~(requires[r] \subseteq available)
        /\ outcome' = [outcome EXCEPT ![r] = "SKIP"]
  /\ Grows(outcome')
  /\ UNCHANGED <<declared, stage>>

PhaseDecided(p) == \A r \in Rule : phase[r] = p => outcome[r] # "pending"

EndPhase ==
  /\ stage = "PER_NODE"
  /\ PhaseDecided("PER_NODE")
  /\ stage' = "AGGREGATE"
  /\ Grows(outcome)
  /\ UNCHANGED <<declared, outcome>>

Finish ==
  /\ stage = "AGGREGATE"
  /\ PhaseDecided("AGGREGATE")
  /\ stage' = "done"
  /\ UNCHANGED <<declared, outcome, available>>

\* fail_fast: the first rule error ends the execution without a result.
Raise ==
  /\ stage \in {"PER_NODE", "AGGREGATE"}
  /\ \E r \in Rule : /\ phase[r] = stage
                     /\ outcome[r] = "pending"
                     /\ requires[r] \subseteq available
  /\ stage' = "raised"
  /\ UNCHANGED <<declared, outcome, available>>

XNext == Begin \/ (\E r \in Rule : Decide(r)) \/ EndPhase \/ Finish \/ Raise

XSpec == XInit /\ [][XNext]_xvars
=============================================================================
