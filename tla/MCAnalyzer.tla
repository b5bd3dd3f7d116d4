----------------------------- MODULE MCAnalyzer -----------------------------
(* Three rules.  A rule requires nothing, the SQL tables, the findings of    *)
(* the first phase, a capability of the enum that rules provide, or that and *)
(* one the enum does not have, as the shipped rule COST_HOTSPOT declares it. *)
EXTENDS Analyzer

CONSTANTS r1, r2, r3

MCRule == {r1, r2, r3}
MCRuleList == <<r1, r2, r3>>
MCCapability ==
  {"explain_plan", "db_connected", "ir_plan", "engine_postgresql", "sql_tables",
   "sql_ast", "sql_ast_high", "prior_findings", "join_findings"}
MCRequireChoices ==
  {{}, {"sql_tables"}, {"prior_findings"}, {"join_findings"},
   {"join_findings", "cost_hotspots"}}
MCProvideChoices == {{}, {"join_findings"}, {"join_findings", "cost_hotspots"}}
MCPhaseChoices == {"PER_NODE", "AGGREGATE"}
MCRequests ==
  {q \in [sql : {"high", "medium", "low", "raises"},
          probe : BOOLEAN, ir : {TRUE}, failFast : BOOLEAN] :
     /\ q.probe <=> q.sql = "low"
     /\ q.failFast <=> q.sql = "medium"}
=============================================================================
