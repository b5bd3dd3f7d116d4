------------------------------ MODULE Analyzer ------------------------------
(***************************************************************************)
(* One Analyzer (analyzer/analyzer.py): the constructor orders its rules   *)
(* with build_rule_dag (RuleOrder), then analyze() takes one request       *)
(* through parsing, context, the two rule phases and the result.           *)
(* The lookup in the result cache that precedes the context is the subject *)
(* of AnalyzerCache; here it misses.                                       *)
(***************************************************************************)
EXTENDS RuleOrder, FiniteSetsExt

CONSTANTS
  Capability,    \* the values of the enum Capability; declarations are any strings
  PhaseChoices,  \* the phases a rule may declare, {"PER_NODE", "AGGREGATE"}
  Requests       \* what callers ask: [sql, probe, ir, failFast]

ASSUME RequestAssumption ==
  /\ PhaseChoices \subseteq {"PER_NODE", "AGGREGATE"}
  /\ \A q \in Requests : q.probe \in BOOLEAN /\ q.ir \in BOOLEAN /\ q.failFast \in BOOLEAN

VARIABLES
  phase,       \* rule -> the phase it declares
  request,     \* the request being analyzed
  pc,          \* the step of the constructor or of analyze()
  rules,       \* self.rules
  confidence,  \* sql_confidence
  queryInfo,   \* whether the parser returned a query_info
  evidence,    \* evidence_level of the result
  facts,       \* the capabilities of the FactStore
  snapshot,    \* the capabilities handed to the running phase (a frozenset)
  todo,        \* places in `rules' of the running phase's rules not yet reached
  runs,        \* rule_runs: a sequence of [rule, status]
  counts       \* ExecutionMetadata: rules_run, rules_failed, rules_skipped

callVars == <<phase, request, confidence, queryInfo, evidence>>
execVars == <<facts, snapshot, todo, runs, counts>>
vars == <<requires, provides, sortPc, indegree, queue, order, phase, request,
          pc, rules, confidence, queryInfo, evidence, facts, snapshot, todo,
          runs, counts>>

Statuses == {"PASS", "FAIL", "SKIP"}

-----------------------------------------------------------------------------
\* What the SQL text of a request yields.  "blank" is a text of white space;
\* "raises" is a text on which the parser throws.

Confidence(sql) ==
  CASE sql = "high"   -> "HIGH"
    [] sql = "medium" -> "MEDIUM"
    [] sql = "low"    -> "LOW"
    [] OTHER          -> "NONE"

HasQueryInfo(sql) == sql \in {"blank", "high", "medium", "low"}

EvidenceLevel(probe, info, conf) ==
  CASE probe /\ info          -> "PLAN+SQL+DB"
    [] info /\ conf # "LOW"   -> "PLAN+SQL"
    [] OTHER                  -> "PLAN"

\* The capabilities of the FactStore after _build_context: those added
\* explicitly and those _update_capabilities_for_fact derives from each fact.
ContextCapabilities(req, info, conf) ==
  {"explain_plan"}
    \cup (IF req.probe THEN {"db_connected"} ELSE {})
    \cup (IF req.ir THEN {"ir_plan", "engine_postgresql"} ELSE {})
    \cup (IF info THEN {"sql_tables"} ELSE {})
    \cup (IF conf \in {"HIGH", "MEDIUM"} THEN {"sql_ast"} ELSE {})
    \cup (IF conf = "HIGH" THEN {"sql_ast_high"} ELSE {})

\* The places of a phase's rules in self.rules: the phase keeps their order.
InPhase(p) == {i \in DOMAIN rules : phase[rules[i]] = p}

CountOf(status) == Cardinality({i \in DOMAIN runs : runs[i].status = status})

-----------------------------------------------------------------------------
Init ==
  /\ OrderInit
  /\ phase \in [Rule -> PhaseChoices]
  /\ request \in Requests
  /\ pc = "construct"
  /\ rules = RuleList
  /\ confidence = "NONE"
  /\ queryInfo = FALSE
  /\ evidence = "PLAN"
  /\ facts = {}
  /\ snapshot = {}
  /\ todo = {}
  /\ runs = <<>>
  /\ counts = [run |-> 0, failed |-> 0, skipped |-> 0]

\* The constructor's call of build_rule_dag.
SortRules ==
  /\ pc = "construct"
  /\ OrderNext
  /\ UNCHANGED <<pc, rules, callVars, execVars>>

\* The constructor is done, with the given list of rules.
Constructed(result, list) ==
  /\ pc = "construct"
  /\ sortPc = result
  /\ rules' = list
  /\ pc' = "parse"
  /\ UNCHANGED <<declVars, sortVars, callVars, execVars>>

\* Mistakes: the sorted list is thrown away; the error is not caught.
AdoptNothing == Constructed("sorted", rules)
KeepNothing == FALSE

\* The sorted list replaces self.rules.
AdoptOrder == Constructed("sorted", order)

\* CycleDetectedError is caught and logged: the list stays as it was given.
KeepListOrder == Constructed("cycle", rules)

\* _parse_sql and _determine_evidence_level.
ParseSql ==
  /\ pc = "parse"
  /\ confidence' = Confidence(request.sql)
  /\ queryInfo' = HasQueryInfo(request.sql)
  /\ evidence' = EvidenceLevel(request.probe, queryInfo', confidence')
  /\ pc' = "context"
  /\ UNCHANGED <<declVars, sortVars, rules, phase, request, execVars>>

\* _build_context, and the first lines of _execute_rule_phases.
BuildContext ==
  /\ pc = "context"
  /\ facts' = ContextCapabilities(request, queryInfo, confidence)
  /\ snapshot' = facts'
  /\ todo' = InPhase("PER_NODE")
  /\ pc' = "PER_NODE"
  /\ UNCHANGED <<declVars, sortVars, rules, callVars, runs, counts>>

Running == pc \in {"PER_NODE", "AGGREGATE"} /\ todo # {}

NextRule == rules[Min(todo)]

CanRun == requires[NextRule] \subseteq snapshot

\* The next rule leaves todo, its run is appended to the rule runs.
Decide(newRuns) ==
  /\ runs' = runs \o newRuns
  /\ todo' = todo \ {Min(todo)}
  /\ UNCHANGED <<declVars, sortVars, pc, rules, callVars, counts>>

RunWith(status) == <<[rule |-> NextRule, status |-> status]>>

Skip(newRuns) ==
  /\ Running
  /\ ~CanRun
  /\ Decide(newRuns)
  /\ UNCHANGED <<facts, snapshot>>

\* Mistakes: no run for a skipped rule, a status the readers do not know, a
\* rule run without its requirements, a pass that feeds the running phase.
SkipSilently == Skip(<<>>)
SkipMisspelt == Skip(RunWith("MISSING"))
RunUnchecked ==
  /\ Running
  /\ \/ Decide(RunWith("PASS"))
     \/ ~request.failFast /\ Decide(RunWith("FAIL"))
  /\ UNCHANGED <<facts, snapshot>>
RunAndGrant ==
  /\ Running /\ CanRun
  /\ Decide(RunWith("PASS"))
  /\ facts' = facts \cup provides[NextRule]
  /\ snapshot' = facts'

\* A requirement is missing in the phase's snapshot.
SkipRule == Skip(RunWith("SKIP"))

\* The rule returns findings, or raises and is recorded as failed.
RunRule ==
  /\ Running
  /\ CanRun
  /\ \/ Decide(RunWith("PASS"))
     \/ ~request.failFast /\ Decide(RunWith("FAIL"))
  /\ UNCHANGED <<facts, snapshot>>

\* fail_fast turns the first rule error into a RuleError of the whole call.
RaiseRuleError ==
  /\ Running
  /\ CanRun
  /\ request.failFast
  /\ pc' = "raised"
  /\ UNCHANGED <<declVars, sortVars, rules, callVars, execVars>>

\* What the first phase gives: PRIOR_FINDINGS and, whatever the rule's status,
\* those strings of a rule's `provides' that the enum knows.  Any other string
\* is dropped without a word, though it did order the rules.
FirstPhaseGrants ==
  {"prior_findings"}
    \cup UNION {provides[r] \cap Capability : r \in {s \in Rule : phase[s] = "PER_NODE"}}

\* The second phase begins with what has entered the FactStore between the two.
StartAggregates ==
  /\ pc = "PER_NODE"
  /\ todo = {}
  /\ facts' = facts \cup FirstPhaseGrants
  /\ snapshot' = facts'
  /\ todo' = InPhase("AGGREGATE")
  /\ pc' = "AGGREGATE"
  /\ UNCHANGED <<declVars, sortVars, rules, callVars, runs, counts>>

\* ExecutionMetadata counts a failed rule among the rules that ran.
BuildResult ==
  /\ pc = "AGGREGATE"
  /\ todo = {}
  /\ counts' = [run     |-> CountOf("PASS") + CountOf("FAIL"),
                failed  |-> CountOf("FAIL"),
                skipped |-> CountOf("SKIP")]
  /\ pc' = "done"
  /\ UNCHANGED <<declVars, sortVars, rules, callVars, facts, snapshot, todo, runs>>

Next ==
  \/ SortRules \/ AdoptOrder \/ KeepListOrder
  \/ ParseSql \/ BuildContext
  \/ SkipRule \/ RunRule \/ RaiseRuleError
  \/ StartAggregates \/ BuildResult

Spec == Init /\ [][Next]_vars

FairSpec == Spec /\ WF_vars(Next)
-----------------------------------------------------------------------------
\* Types of the analyzer's variables.
TypeOK ==
  /\ OrderTypeOK
  /\ phase \in [Rule -> PhaseChoices]
  /\ request \in Requests
  /\ pc \in {"construct", "parse", "context", "PER_NODE", "AGGREGATE", "done",
            "raised"}
  /\ rules \in Seq(Rule)
  /\ confidence \in {"HIGH", "MEDIUM", "LOW", "NONE"}
  /\ queryInfo \in BOOLEAN
  /\ evidence \in {"PLAN", "PLAN+SQL", "PLAN+SQL+DB"}
  /\ todo \subseteq DOMAIN rules
  /\ runs \in Seq([rule : Rule, status : Statuses])
  /\ counts \in [run : Nat, failed : Nat, skipped : Nat]

RunOf(r) == {i \in DOMAIN runs : runs[i].rule = r}

\* "Every rule has a RuleRun, even if it didn't execute": a finished analysis
\* reports each rule once and only once, with a cycle among the rules or
\* without, and whatever failed or was skipped on the way.
EveryRuleHasOneRun ==
  pc = "done" => \A r \in Rule : \E i \in RunOf(r) : RunOf(r) = {i}

\* Within a phase, and when the sort succeeded, a rule is decided after every
\* rule of the phase that provides what it requires.
ProvidersDecidedFirst ==
  sortPc = "sorted" =>
    \A i \in DOMAIN runs : \A p \in Providers(runs[i].rule) :
      phase[p] = phase[runs[i].rule] => \E j \in 1..(i - 1) : runs[j].rule = p

\* A rule runs exactly when the context and, for the second phase, the known
\* capabilities that the first phase declares cover its requirements: never on
\* what a rule of its own phase provides, and never on a capability that rules
\* made up for themselves, even after its provider has run.
RanOnEarlierCapabilities ==
  \A i \in DOMAIN runs :
    LET r == runs[i].rule
        earlier == IF phase[r] = "PER_NODE" THEN {} ELSE FirstPhaseGrants
    IN runs[i].status # "SKIP" <=>
         requires[r] \subseteq ContextCapabilities(request, queryInfo, confidence) \cup earlier

\* The analyzer's execution is one that RuleExecution allows.
Outcome ==
  [r \in Rule |-> IF RunOf(r) = {} THEN "pending"
                  ELSE runs[CHOOSE i \in RunOf(r) : TRUE].status]

Stage == IF pc \in {"construct", "parse", "context"} THEN "idle" ELSE pc

Promise == INSTANCE RuleExecution
             WITH outcome <- Outcome, available <- snapshot, stage <- Stage

\* Every behaviour of the analyzer is one of the abstract execution.
ImplementsPromise == Promise!XSpec

\* An analysis that starts ends, with a result or with a raised error.
AnalysisEnds == <>(pc \in {"done", "raised"})

=============================================================================
