--------------------------- MODULE AnalyzerProofs ---------------------------
(***************************************************************************)
(* Proofs about the Analyzer, for every finite set of rules, every list,   *)
(* every assignment of phases and declarations and every request.          *)
(*                                                                         *)
(* The constructor is a behaviour of RuleOrder, so OrderInv holds of it.   *)
(* The invariant on top of it says which rules have a run at each point:   *)
(* the places of the running phase that left todo, all of them before the  *)
(* places that are still in it, and every rule of a finished phase.        *)
(***************************************************************************)
EXTENDS Analyzer, RuleOrderProofs, WellFoundedInduction

Deciding == pc \in {"PER_NODE", "AGGREGATE"}

\* Sequence s holds every rule once.
Listing(s) ==
  /\ s \in Seq(Rule)
  /\ \A r \in Rule : \E i \in DOMAIN s : s[i] = r
  /\ \A i, j \in DOMAIN s : s[i] = s[j] => i = j

\* self.rules is the list as given, or the order of a sort that succeeded.
ListInv ==
  /\ pc = "construct" => rules = RuleList
  /\ pc # "construct" => \/ sortPc = "sorted" /\ rules = order
                         \/ sortPc = "cycle" /\ rules = RuleList

RunsOnce ==
  \A i, j \in DOMAIN runs : runs[i].rule = runs[j].rule => i = j

\* The place of a rule in self.rules tells whether the rule has its run.
DecidedPlaces ==
  /\ pc = "PER_NODE" =>
       \A i \in DOMAIN rules : RunOf(rules[i]) # {} <=> i \in InPhase("PER_NODE") \ todo
  /\ pc = "AGGREGATE" => \A i \in DOMAIN rules : RunOf(rules[i]) # {} <=> i \notin todo
  /\ pc = "done" => \A r \in Rule : RunOf(r) # {}

\* The running phase is decided from left to right.
TodoIsSuffix ==
  Deciding => /\ todo \subseteq InPhase(pc)
              /\ \A i \in InPhase(pc) \ todo, j \in todo : i < j

\* The snapshot is what the context and the finished phase gave.
SnapshotInv ==
  Deciding =>
    /\ facts = snapshot
    /\ snapshot = ContextCapabilities(request, queryInfo, confidence)
                    \cup (IF pc = "PER_NODE" THEN {} ELSE FirstPhaseGrants)

AnalyzerInv ==
  /\ TypeOK
  /\ OrderInv
  /\ ListInv
  /\ RunsOnce
  /\ pc \in {"construct", "parse", "context"} => runs = <<>> /\ todo = {}
  /\ DecidedPlaces
  /\ TodoIsSuffix
  /\ SnapshotInv
  /\ ProvidersDecidedFirst
  /\ RanOnEarlierCapabilities

-----------------------------------------------------------------------------
\* A set of numbers that is not empty has a least one, which Min chooses.
LEMMA MinIsLeast ==
  ASSUME NEW T \in SUBSET Nat, T # {}
  PROVE  Min(T) \in T /\ \A y \in T : Min(T) <= y
<1> DEFINE Less == {ss \in Nat \X Nat : ss[1] < ss[2]}
<1>1. IsWellFoundedOn(Less, Nat)  BY NatLessThanWellFounded DEF OpToRel
<1>2. \A y, x \in Nat : <<y, x>> \in Less <=> y < x
  OBVIOUS
<1> HIDE DEF Less
<1>3. PICK x \in T : \A y \in T : ~(<<y, x>> \in Less)
  BY <1>1, WFMin, T \subseteq Nat
<1>4. ASSUME NEW y \in T PROVE x <= y
  <2>1. x \in Nat /\ y \in Nat
    OBVIOUS
  <2>2. ~(y < x)  BY <1>2, <1>3, <2>1
  <2>3. QED  BY <2>1, <2>2
<1>5. QED  BY <1>4 DEF Min

\* The list as given repeats no rule: it has as many places as there are rules.
LEMMA RuleListIsListing == Listing(RuleList)
<1> DEFINE n == Cardinality(Rule)
<1>1. n \in Nat /\ IsFiniteSet(Rule)  BY FS_CardinalityType, RuleAssumption
<1>2. /\ RuleList \in [1..n -> Rule]
      /\ \A r \in Rule : \E i \in 1..n : RuleList[i] = r
  BY RuleAssumption
<1>3. RuleList \in Surjection(1..n, Rule)  BY <1>2 DEF Surjection
<1>4. IsFiniteSet(1..n) /\ Cardinality(1..n) = n
  BY <1>1, FS_Interval
<1>5. RuleList \in Injection(1..n, Rule)
  BY <1>1, <1>3, <1>4, FS_SurjSameCardinalityImpliesInj
<1>6. RuleList \in Seq(Rule) /\ DOMAIN RuleList = 1..n  BY <1>1, <1>2
<1> HIDE DEF n
<1>7. \A i, j \in 1..n : RuleList[i] = RuleList[j] => i = j
  BY <1>5 DEF Injection, IsInjective
<1>8. QED  BY <1>2, <1>6, <1>7 DEF Listing

\* So does self.rules, whatever became of the sort.
LEMMA RulesIsListing == OrderInv /\ ListInv => Listing(rules)
<1> SUFFICES ASSUME OrderInv, ListInv PROVE Listing(rules)
  OBVIOUS
<1>1. CASE rules = RuleList  BY <1>1, RuleListIsListing
<1>2. CASE sortPc = "sorted" /\ rules = order
  <2>1. Placed = Rule /\ EachRuleOnce /\ order \in Seq(Rule)
    BY <1>2 DEF OrderInv, OrderTypeOK
  <2>2. QED  BY <1>2, <2>1 DEF Listing, Placed, EachRuleOnce
<1>3. QED  BY <1>1, <1>2 DEF ListInv

\* The capabilities, numbers and levels of an analysis keep their types.
LEMMA CountOfIsNat ==
  ASSUME runs \in Seq([rule : Rule, status : Statuses])
  PROVE  \A status : CountOf(status) \in Nat
<1> TAKE status
<1> DEFINE S == {i \in DOMAIN runs : runs[i].status = status}
<1>1. DOMAIN runs = 1..Len(runs) /\ Len(runs) \in Nat
  OBVIOUS
<1>2. IsFiniteSet(DOMAIN runs)  BY <1>1, FS_Interval
<1>3. IsFiniteSet(S)  BY <1>2, FS_Subset
<1>4. QED  BY <1>3, FS_CardinalityType DEF CountOf

-----------------------------------------------------------------------------
\* Before the first rule is decided nothing can be wrong with the runs.
LEMMA NoRunsYet ==
  ASSUME runs' = <<>>
  PROVE  /\ RunsOnce' /\ ProvidersDecidedFirst' /\ RanOnEarlierCapabilities'
         /\ \A r : RunOf(r)' = {}
<1>1. DOMAIN runs' = {}
  OBVIOUS
<1>2. RunsOnce'  BY <1>1 DEF RunsOnce
<1>3. ProvidersDecidedFirst'  BY <1>1 DEF ProvidersDecidedFirst
<1>4. RanOnEarlierCapabilities'  BY <1>1 DEF RanOnEarlierCapabilities
<1>5. \A r : RunOf(r)' = {}  BY <1>1 DEF RunOf
<1>6. QED  BY <1>2, <1>3, <1>4, <1>5

\* What is read of the rules does not change while the sort stands still.
LEMMA SameOrder == OrderInv /\ UNCHANGED <<declVars, sortVars>> => OrderInv'
<1> SUFFICES ASSUME OrderInv, UNCHANGED <<declVars, sortVars>> PROVE OrderInv'
  OBVIOUS
<1>1. UNCHANGED orderVars  BY DEF declVars, sortVars, orderVars
<1>2. QED  BY <1>1, StutterOrderInv

\* What is recorded stays right while the runs, the rules and their
\* declarations, the request and what was parsed of it do not change.
LEMMA SameRuns ==
  ASSUME UNCHANGED <<requires, provides, sortPc, phase, request, queryInfo,
                     confidence, runs>>
  PROVE  /\ RunsOnce => RunsOnce'
         /\ ProvidersDecidedFirst => ProvidersDecidedFirst'
         /\ RanOnEarlierCapabilities => RanOnEarlierCapabilities'
         /\ \A r : RunOf(r)' = RunOf(r)
<1>1. \A r : Providers(r)' = Providers(r)  BY DEF Providers, Edge
<1>2. RunsOnce => RunsOnce'  BY DEF RunsOnce
<1>3. ProvidersDecidedFirst => ProvidersDecidedFirst'
  BY <1>1 DEF ProvidersDecidedFirst
<1>4. RanOnEarlierCapabilities => RanOnEarlierCapabilities'
  BY DEF RanOnEarlierCapabilities, ContextCapabilities, FirstPhaseGrants
<1>5. \A r : RunOf(r)' = RunOf(r)  BY DEF RunOf
<1>6. QED  BY <1>2, <1>3, <1>4, <1>5

LEMMA InitInv == Init => AnalyzerInv
<1> SUFFICES ASSUME Init PROVE AnalyzerInv
  OBVIOUS
<1>1. OrderInv  BY InitOrderInv DEF Init
<1>2. /\ pc = "construct" /\ rules = RuleList /\ runs = <<>> /\ todo = {}
      /\ counts = [run |-> 0, failed |-> 0, skipped |-> 0]
  BY DEF Init
<1>3. TypeOK
  <2>1. rules \in Seq(Rule)  BY <1>2, RuleListIsListing DEF Listing
  <2>2. OrderTypeOK  BY <1>1 DEF OrderInv
  <2>3. /\ runs \in Seq([rule : Rule, status : Statuses])
        /\ counts \in [run : Nat, failed : Nat, skipped : Nat]
        /\ todo \subseteq DOMAIN rules
    BY <1>2
  <2>4. /\ phase \in [Rule -> PhaseChoices]
        /\ request \in Requests
        /\ confidence = "NONE" /\ queryInfo = FALSE /\ evidence = "PLAN"
    BY DEF Init
  <2>5. QED  BY <1>2, <2>1, <2>2, <2>3, <2>4 DEF TypeOK
<1>4. ListInv /\ DecidedPlaces /\ TodoIsSuffix /\ SnapshotInv
  BY <1>2 DEF ListInv, DecidedPlaces, TodoIsSuffix, SnapshotInv, Deciding
<1>5. RunsOnce /\ ProvidersDecidedFirst /\ RanOnEarlierCapabilities
  BY <1>2 DEF RunsOnce, ProvidersDecidedFirst, RanOnEarlierCapabilities
<1>6. QED  BY <1>1, <1>2, <1>3, <1>4, <1>5 DEF AnalyzerInv

\* The constructor and the parsing of the SQL text: no rule has a run yet.
LEMMA BeforeRulesInv ==
  AnalyzerInv /\ (SortRules \/ AdoptOrder \/ KeepListOrder \/ ParseSql) => AnalyzerInv'
<1> SUFFICES ASSUME AnalyzerInv, SortRules \/ AdoptOrder \/ KeepListOrder \/ ParseSql
             PROVE  AnalyzerInv'
  OBVIOUS
<1>1. /\ runs = <<>> /\ todo = {} /\ runs' = <<>> /\ todo' = {}
      /\ pc' \in {"construct", "parse", "context"}
      /\ phase' = phase /\ request' = request /\ counts' = counts
  BY DEF AnalyzerInv, SortRules, AdoptOrder, KeepListOrder, Constructed, ParseSql,
         callVars, execVars
<1>2. OrderInv'
  <2>1. CASE SortRules
    <3>1. OrderNext  BY <2>1 DEF SortRules
    <3>2. QED  BY <3>1, StepOrderInv DEF AnalyzerInv
  <2>2. CASE AdoptOrder \/ KeepListOrder \/ ParseSql
    <3>1. UNCHANGED <<declVars, sortVars>>
      BY <2>2 DEF AdoptOrder, KeepListOrder, Constructed, ParseSql
    <3>2. QED  BY <3>1, SameOrder DEF AnalyzerInv
  <2>3. QED  BY <2>1, <2>2
<1>3. ListInv'
  BY DEF AnalyzerInv, ListInv, SortRules, AdoptOrder, KeepListOrder, Constructed,
         ParseSql, sortVars
<1>4. TypeOK'
  <2>1. rules' \in Seq(Rule)
    BY DEF AnalyzerInv, OrderInv, OrderTypeOK, TypeOK, SortRules, AdoptOrder,
           KeepListOrder, Constructed, ParseSql
  <2>2. /\ confidence' \in {"HIGH", "MEDIUM", "LOW", "NONE"}
        /\ queryInfo' \in BOOLEAN
        /\ evidence' \in {"PLAN", "PLAN+SQL", "PLAN+SQL+DB"}
    <3>1. CASE ParseSql
      <4>1. request.probe \in BOOLEAN
        BY RequestAssumption DEF AnalyzerInv, TypeOK
      <4>2. confidence' \in {"HIGH", "MEDIUM", "LOW", "NONE"}
        BY <3>1 DEF ParseSql, Confidence
      <4>3. queryInfo' \in BOOLEAN  BY <3>1 DEF ParseSql, HasQueryInfo
      <4>4. evidence' \in {"PLAN", "PLAN+SQL", "PLAN+SQL+DB"}
        BY <3>1, <4>1, <4>3 DEF ParseSql, EvidenceLevel
      <4>5. QED  BY <4>2, <4>3, <4>4
    <3>2. CASE SortRules \/ AdoptOrder \/ KeepListOrder
      BY <3>2 DEF AnalyzerInv, TypeOK, SortRules, AdoptOrder, KeepListOrder,
                  Constructed, callVars
    <3>3. QED  BY <3>1, <3>2
  <2>3. OrderTypeOK'  BY <1>2 DEF OrderInv
  <2>4. QED  BY <1>1, <2>1, <2>2, <2>3 DEF AnalyzerInv, TypeOK
<1>5. DecidedPlaces' /\ TodoIsSuffix' /\ SnapshotInv'
  BY <1>1 DEF DecidedPlaces, TodoIsSuffix, SnapshotInv, Deciding
<1>6. QED  BY <1>1, <1>2, <1>3, <1>4, <1>5, NoRunsYet DEF AnalyzerInv

\* The first phase starts with all its places in todo.
LEMMA BuildContextInv == AnalyzerInv /\ BuildContext => AnalyzerInv'
<1> SUFFICES ASSUME AnalyzerInv, BuildContext PROVE AnalyzerInv'
  OBVIOUS
<1>1. /\ pc = "context" /\ pc' = "PER_NODE"
      /\ runs = <<>> /\ runs' = <<>> /\ todo' = InPhase("PER_NODE")
      /\ facts' = ContextCapabilities(request, queryInfo, confidence)
      /\ snapshot' = facts'
      /\ UNCHANGED <<declVars, sortVars, rules, callVars, counts>>
  BY DEF AnalyzerInv, BuildContext
<1>2. OrderInv'  BY <1>1, SameOrder DEF AnalyzerInv
<1>3. ListInv'  BY <1>1 DEF AnalyzerInv, ListInv, sortVars
<1>4. InPhase("PER_NODE")' = InPhase("PER_NODE")  BY <1>1 DEF InPhase, callVars
<1>5. TypeOK'
  <2>1. OrderTypeOK'  BY <1>2 DEF OrderInv
  <2>2. todo' \subseteq DOMAIN rules'  BY <1>1 DEF InPhase
  <2>3. QED  BY <1>1, <2>1, <2>2 DEF AnalyzerInv, TypeOK, callVars
<1>6. DecidedPlaces'  BY <1>1, <1>4, NoRunsYet DEF DecidedPlaces
<1>7. TodoIsSuffix'
  <2>1. InPhase(pc)' = todo'  BY <1>1, <1>4 DEF InPhase
  <2>2. QED  BY <2>1 DEF TodoIsSuffix
<1>8. SnapshotInv'  BY <1>1 DEF SnapshotInv, ContextCapabilities, callVars
<1>9. QED
  BY <1>1, <1>2, <1>3, <1>5, <1>6, <1>7, <1>8, NoRunsYet DEF AnalyzerInv

\* The rule a running phase reaches next has no run, and whatever stands before
\* it in the phase has one.
LEMMA NextRuleFacts ==
  ASSUME AnalyzerInv, Running
  PROVE  /\ Min(todo) \in todo
         /\ todo \subseteq DOMAIN rules
         /\ NextRule \in Rule
         /\ phase[NextRule] = pc
         /\ RunOf(NextRule) = {}
         /\ \A i \in InPhase(pc) : i < Min(todo) => RunOf(rules[i]) # {}
<1>1. /\ todo \subseteq InPhase(pc)
      /\ rules \in Seq(Rule)
      /\ todo \subseteq DOMAIN rules
      /\ pc \in {"PER_NODE", "AGGREGATE"} /\ todo # {}
  BY DEF AnalyzerInv, TypeOK, TodoIsSuffix, Deciding, Running
<1>2. DOMAIN rules \subseteq Nat  BY <1>1
<1>3. Min(todo) \in todo /\ \A y \in todo : Min(todo) <= y
  <2>1. todo \in SUBSET Nat /\ todo # {}  BY <1>1, <1>2
  <2>2. QED  BY <2>1, MinIsLeast
<1>4. NextRule \in Rule /\ phase[NextRule] = pc
  BY <1>1, <1>3 DEF NextRule, InPhase
<1>5. \A i \in InPhase(pc) : RunOf(rules[i]) # {} <=> i \notin todo
  <2>1. CASE pc = "PER_NODE"  BY <2>1 DEF AnalyzerInv, DecidedPlaces, InPhase
  <2>2. CASE pc = "AGGREGATE"  BY <2>2 DEF AnalyzerInv, DecidedPlaces, InPhase
  <2>3. QED  BY <1>1, <2>1, <2>2
<1>6. RunOf(NextRule) = {}  BY <1>1, <1>3, <1>5 DEF NextRule
<1>7. ASSUME NEW i \in InPhase(pc), i < Min(todo) PROVE RunOf(rules[i]) # {}
  <2>1. i \in Nat /\ Min(todo) \in Nat  BY <1>1, <1>2, <1>3 DEF InPhase
  <2>2. i \notin todo  BY <1>3, <1>7, <2>1
  <2>3. QED  BY <1>5, <2>2
<1>8. QED  BY <1>1, <1>3, <1>4, <1>6, <1>7

\* A decision adds one run, of that rule.
LEMMA DecideRuns ==
  ASSUME AnalyzerInv, Running, NEW st \in Statuses, Decide(RunWith(st))
  PROVE  /\ runs \in Seq([rule : Rule, status : Statuses])
         /\ runs' \in Seq([rule : Rule, status : Statuses])
         /\ Len(runs) \in Nat
         /\ DOMAIN runs = 1..Len(runs)
         /\ DOMAIN runs' = 1..(Len(runs) + 1)
         /\ \A i \in DOMAIN runs : runs'[i] = runs[i]
         /\ runs'[Len(runs) + 1] = [rule |-> NextRule, status |-> st]
         /\ \A q : RunOf(q)' = IF q = NextRule THEN {Len(runs) + 1} ELSE RunOf(q)
<1> DEFINE x == [rule |-> NextRule, status |-> st]
           n == Len(runs)
<1>1. x \in [rule : Rule, status : Statuses]  BY NextRuleFacts
<1>2. runs \in Seq([rule : Rule, status : Statuses])  BY DEF AnalyzerInv, TypeOK
<1>3. runs' = runs \o <<x>>  BY DEF Decide, RunWith
<1>4. x.rule = NextRule
  OBVIOUS
<1> HIDE DEF x
<1>5. /\ runs' \in Seq([rule : Rule, status : Statuses])
      /\ n \in Nat /\ DOMAIN runs = 1..n /\ DOMAIN runs' = 1..(n + 1)
      /\ \A i \in DOMAIN runs : runs'[i] = runs[i]
      /\ runs'[n + 1] = x
  BY <1>1, <1>2, <1>3
<1> HIDE DEF n
<1>6. \A i \in 1..(n + 1) : i \in 1..n \/ i = n + 1  BY <1>5
<1>7. \A i \in 1..n : i # n + 1 /\ i \in 1..(n + 1)  BY <1>5
<1>8. n + 1 \in 1..(n + 1)  BY <1>5
<1> DEFINE r == NextRule
<1>9. RunOf(r) = {}  BY NextRuleFacts
<1>10. \A i \in DOMAIN runs : runs[i].rule # r  BY <1>9 DEF RunOf
<1> HIDE DEF r
<1>11. \A q : RunOf(q)' = {i \in 1..(n + 1) : runs'[i].rule = q}  BY <1>5 DEF RunOf
<1>12. {i \in 1..(n + 1) : runs'[i].rule = r} = {n + 1}
  BY <1>4, <1>5, <1>6, <1>7, <1>8, <1>10 DEF r
<1>13. ASSUME NEW q, q # r
       PROVE  {i \in 1..(n + 1) : runs'[i].rule = q} = RunOf(q)
  <2>1. runs'[n + 1].rule # q  BY <1>4, <1>5, <1>13 DEF r
  <2>2. QED  BY <1>5, <1>6, <1>7, <2>1 DEF RunOf
<1>14. \A q : RunOf(q)' = IF q = r THEN {n + 1} ELSE RunOf(q)
  BY <1>11, <1>12, <1>13
<1>15. QED  BY <1>2, <1>5, <1>14 DEF n, r, x

\* Running or skipping the next rule.
LEMMA DecideInv ==
  ASSUME AnalyzerInv, Running, NEW st \in Statuses, st # "SKIP" <=> CanRun,
         Decide(RunWith(st)), UNCHANGED <<facts, snapshot>>
  PROVE  AnalyzerInv'
<1>1. PICK k, r, n : k = Min(todo) /\ r = NextRule /\ n = Len(runs)
  OBVIOUS
<1>2. /\ k \in todo /\ todo \subseteq DOMAIN rules /\ rules[k] = r
      /\ r \in Rule /\ phase[r] = pc /\ RunOf(r) = {}
      /\ \A i \in InPhase(pc) : i < k => RunOf(rules[i]) # {}
  BY <1>1, NextRuleFacts DEF NextRule
<1>3. /\ n \in Nat /\ DOMAIN runs = 1..n /\ DOMAIN runs' = 1..(n + 1)
      /\ \A i \in 1..n : runs'[i] = runs[i]
      /\ runs'[n + 1].rule = r /\ runs'[n + 1].status = st
      /\ \A q : RunOf(q)' = IF q = r THEN {n + 1} ELSE RunOf(q)
      /\ runs' \in Seq([rule : Rule, status : Statuses])
  <2>1. /\ n \in Nat /\ DOMAIN runs = 1..n /\ DOMAIN runs' = 1..(n + 1)
        /\ \A i \in 1..n : runs'[i] = runs[i]
        /\ runs'[n + 1] = [rule |-> r, status |-> st]
        /\ runs' \in Seq([rule : Rule, status : Statuses])
    BY <1>1, DecideRuns
  <2>2. \A q : RunOf(q)' = IF q = r THEN {n + 1} ELSE RunOf(q)
    BY <1>1, DecideRuns
  <2>3. QED  BY <2>1, <2>2
<1>4. /\ todo' = todo \ {k}
      /\ UNCHANGED <<declVars, sortVars, pc, rules, callVars, counts>>
      /\ pc \in {"PER_NODE", "AGGREGATE"}
  BY <1>1 DEF Decide, Running
<1>5. \A i \in 1..(n + 1) : i \in 1..n \/ i = n + 1  BY <1>3
<1>6. Listing(rules)  BY RulesIsListing DEF AnalyzerInv
<1>7. \A p : InPhase(p)' = InPhase(p)  BY <1>4 DEF InPhase, callVars
<1>8. \A q : Providers(q)' = Providers(q)  BY <1>4 DEF Providers, Edge, declVars
<1>9. OrderInv'  BY <1>4, SameOrder DEF AnalyzerInv
<1>10. ListInv'  BY <1>4 DEF AnalyzerInv, ListInv, sortVars
<1>11. TypeOK'
  <2>1. OrderTypeOK'  BY <1>9 DEF OrderInv
  <2>2. todo' \subseteq DOMAIN rules'  BY <1>2, <1>4
  <2>3. QED  BY <1>3, <1>4, <2>1, <2>2 DEF AnalyzerInv, TypeOK, callVars
<1>12. RunsOnce'
  <2>1. \A i \in 1..n : runs[i].rule # r  BY <1>2, <1>3 DEF RunOf
  <2>2. \A i, j \in 1..n : runs[i].rule = runs[j].rule => i = j
    BY <1>3 DEF AnalyzerInv, RunsOnce
  <2>3. QED  BY <1>3, <1>5, <2>1, <2>2 DEF RunsOnce
<1>13. DecidedPlaces'
  <2>1. \A i \in DOMAIN rules : rules[i] = r <=> i = k  BY <1>2, <1>6 DEF Listing
  <2>2. \A i \in DOMAIN rules : RunOf(rules[i])' = IF i = k THEN {n + 1} ELSE RunOf(rules[i])
    BY <1>3, <1>4, <2>1
  <2>3. CASE pc = "PER_NODE"
    <3>1. k \in InPhase("PER_NODE")  BY <1>2, <2>3 DEF InPhase
    <3>2. \A i \in DOMAIN rules : RunOf(rules[i]) # {} <=> i \in InPhase("PER_NODE") \ todo
      BY <2>3 DEF AnalyzerInv, DecidedPlaces
    <3>3. \A i \in DOMAIN rules :
            RunOf(rules[i])' # {} <=> i \in InPhase("PER_NODE") \ (todo \ {k})
      BY <2>2, <3>1, <3>2
    <3>4. QED  BY <1>4, <1>7, <2>3, <3>3 DEF DecidedPlaces
  <2>4. CASE pc = "AGGREGATE"
    <3>1. \A i \in DOMAIN rules : RunOf(rules[i]) # {} <=> i \notin todo
      BY <2>4 DEF AnalyzerInv, DecidedPlaces
    <3>2. \A i \in DOMAIN rules : RunOf(rules[i])' # {} <=> i \notin todo \ {k}
      BY <2>2, <3>1
    <3>3. QED  BY <1>4, <2>4, <3>2 DEF DecidedPlaces
  <2>5. QED  BY <1>4, <2>3, <2>4
<1>14. TodoIsSuffix'
  <2>1. /\ todo \subseteq InPhase(pc)
        /\ \A i \in InPhase(pc) \ todo, j \in todo : i < j
    BY <1>4 DEF AnalyzerInv, TodoIsSuffix, Deciding
  <2>2. \A j \in todo : k <= j
    <3>1. todo \in SUBSET Nat /\ todo # {}
      <4>1. DOMAIN rules \subseteq Nat  BY <1>6 DEF Listing
      <4>2. QED  BY <1>2, <4>1
    <3>2. QED  BY <1>1, <3>1, MinIsLeast
  <2>3. \A j \in todo : j # k => k < j
    <3>1. todo \subseteq Nat
      <4>1. DOMAIN rules \subseteq Nat  BY <1>6 DEF Listing
      <4>2. QED  BY <1>2, <4>1
    <3>2. QED  BY <1>2, <2>2, <3>1
  <2>4. \A i \in InPhase(pc) \ (todo \ {k}), j \in todo \ {k} : i < j
    BY <1>2, <2>1, <2>3
  <2>5. InPhase(pc)' = InPhase(pc)  BY <1>4 DEF InPhase, callVars
  <2>6. QED  BY <1>4, <2>1, <2>4, <2>5 DEF TodoIsSuffix
<1>15. SnapshotInv'
  BY <1>4 DEF AnalyzerInv, SnapshotInv, Deciding, ContextCapabilities, FirstPhaseGrants,
              callVars, declVars
<1>16. ProvidersDecidedFirst'
  <2> SUFFICES ASSUME sortPc = "sorted", NEW i \in 1..(n + 1),
                      NEW p \in Providers(runs'[i].rule),
                      phase[p] = phase[runs'[i].rule]
               PROVE  \E j \in 1..(i - 1) : runs'[j].rule = p
    BY <1>3, <1>4, <1>8 DEF ProvidersDecidedFirst, callVars, sortVars
  <2>1. CASE i \in 1..n
    <3>1. \E j \in 1..(i - 1) : runs[j].rule = p
      BY <1>3, <2>1 DEF AnalyzerInv, ProvidersDecidedFirst
    <3>2. \A j \in 1..(i - 1) : j \in 1..n  BY <1>3, <2>1
    <3>3. QED  BY <1>3, <3>1, <3>2
  <2>2. CASE i = n + 1
    <3>1. p \in Providers(r) /\ phase[p] = pc  BY <1>2, <1>3, <2>2
    <3>2. rules = order  BY <1>4 DEF AnalyzerInv, ListInv
    <3>3. PICK m \in 1..(k - 1) : rules[m] = p
      BY <1>2, <3>1, <3>2 DEF AnalyzerInv, OrderInv, DependenciesFirst
    <3>4. m \in InPhase(pc) /\ m < k
      <4>1. DOMAIN rules = 1..Len(rules) /\ Len(rules) \in Nat  BY <1>6 DEF Listing
      <4>2. k \in 1..Len(rules)  BY <1>2, <4>1
      <4>3. m \in DOMAIN rules /\ m < k  BY <4>1, <4>2
      <4>4. QED  BY <3>1, <3>3, <4>3 DEF InPhase
    <3>5. PICK j \in DOMAIN runs : runs[j].rule = p  BY <1>2, <3>3, <3>4 DEF RunOf
    <3>6. j \in 1..(i - 1) /\ runs'[j].rule = p  BY <1>3, <2>2, <3>5
    <3>7. QED  BY <3>6
  <2>3. QED  BY <1>5, <2>1, <2>2
<1>17. RanOnEarlierCapabilities'
  <2> DEFINE capsOf(q) == ContextCapabilities(request, queryInfo, confidence)
                            \cup (IF phase[q] = "PER_NODE" THEN {} ELSE FirstPhaseGrants)
  <2>1. snapshot = capsOf(r)
    BY <1>2, <1>4 DEF AnalyzerInv, SnapshotInv, Deciding
  <2>2. st # "SKIP" <=> requires[r] \subseteq capsOf(r)  BY <1>1, <2>1 DEF CanRun
  <2>3. \A i \in 1..n :
          runs[i].status # "SKIP" <=> requires[runs[i].rule] \subseteq capsOf(runs[i].rule)
    BY <1>3 DEF AnalyzerInv, RanOnEarlierCapabilities, FirstPhaseGrants
  <2>4. \A i \in 1..(n + 1) :
          runs'[i].status # "SKIP" <=> requires[runs'[i].rule] \subseteq capsOf(runs'[i].rule)
    BY <1>3, <1>5, <2>2, <2>3
  <2>5. UNCHANGED <<provides, phase, request, queryInfo, confidence, requires>>
    BY <1>4 DEF callVars, declVars
  <2>6. \A q : (IF phase[q] = "PER_NODE" THEN {} ELSE FirstPhaseGrants)'
                = IF phase[q] = "PER_NODE" THEN {} ELSE FirstPhaseGrants
    BY <2>5 DEF FirstPhaseGrants
  <2>7. ContextCapabilities(request, queryInfo, confidence)'
          = ContextCapabilities(request, queryInfo, confidence)
    BY <2>5 DEF ContextCapabilities
  <2>8. QED
    BY <1>3, <2>4, <2>5, <2>6, <2>7 DEF RanOnEarlierCapabilities, FirstPhaseGrants
<1>18. QED
  BY <1>4, <1>9, <1>10, <1>11, <1>12, <1>13, <1>14, <1>15, <1>16, <1>17 DEF AnalyzerInv

\* Between the phases: the places without a run are those of the second phase.
LEMMA StartAggregatesInv == AnalyzerInv /\ StartAggregates => AnalyzerInv'
<1> SUFFICES ASSUME AnalyzerInv, StartAggregates PROVE AnalyzerInv'
  OBVIOUS
<1>1. /\ pc = "PER_NODE" /\ pc' = "AGGREGATE"
      /\ todo = {} /\ todo' = InPhase("AGGREGATE")
      /\ facts' = facts \cup FirstPhaseGrants
      /\ snapshot' = facts'
      /\ UNCHANGED <<declVars, sortVars, rules, callVars, runs, counts>>
  BY DEF StartAggregates
<1>2. UNCHANGED <<requires, provides, sortPc, phase, request, queryInfo, confidence, runs>>
  BY <1>1 DEF declVars, sortVars, callVars
<1>3. OrderInv'  BY <1>1, SameOrder DEF AnalyzerInv
<1>4. ListInv'  BY <1>1 DEF AnalyzerInv, ListInv, sortVars
<1>5. \A p : InPhase(p)' = InPhase(p)  BY <1>1 DEF InPhase, callVars
<1>6. TypeOK'
  <2>1. OrderTypeOK'  BY <1>3 DEF OrderInv
  <2>2. todo' \subseteq DOMAIN rules'  BY <1>1 DEF InPhase
  <2>3. QED  BY <1>1, <2>1, <2>2 DEF AnalyzerInv, TypeOK, callVars
<1>7. DecidedPlaces'
  <2>1. \A i \in DOMAIN rules : RunOf(rules[i]) # {} <=> i \in InPhase("PER_NODE")
    BY <1>1 DEF AnalyzerInv, DecidedPlaces
  <2>2. \A i \in DOMAIN rules : i \in InPhase("PER_NODE") <=> i \notin InPhase("AGGREGATE")
    <3>1. /\ phase \in [Rule -> PhaseChoices]
          /\ \A i \in DOMAIN rules : rules[i] \in Rule
      BY DEF AnalyzerInv, TypeOK
    <3>2. \A i \in DOMAIN rules : phase[rules[i]] \in {"PER_NODE", "AGGREGATE"}
      BY <3>1, RequestAssumption
    <3>3. QED  BY <3>2 DEF InPhase
  <2>3. \A r : RunOf(r)' = RunOf(r)  BY <1>2, SameRuns
  <2>4. \A i \in DOMAIN rules : RunOf(rules[i]) # {} <=> i \notin todo'
    BY <1>1, <2>1, <2>2
  <2>5. QED  BY <1>1, <2>3, <2>4 DEF DecidedPlaces
<1>8. TodoIsSuffix'
  <2>1. InPhase(pc)' = todo'  BY <1>1 DEF InPhase, callVars
  <2>2. QED  BY <2>1 DEF TodoIsSuffix
<1>9. SnapshotInv'
  <2>1. facts = ContextCapabilities(request, queryInfo, confidence)
    BY <1>1 DEF AnalyzerInv, SnapshotInv, Deciding
  <2>2. facts' = ContextCapabilities(request, queryInfo, confidence) \cup FirstPhaseGrants
    BY <1>1, <2>1
  <2>3. ContextCapabilities(request, queryInfo, confidence)'
          = ContextCapabilities(request, queryInfo, confidence)
    BY <1>2 DEF ContextCapabilities
  <2>4. FirstPhaseGrants' = FirstPhaseGrants  BY <1>2 DEF FirstPhaseGrants
  <2>5. QED  BY <1>1, <2>2, <2>3, <2>4 DEF SnapshotInv
<1>10. RunsOnce' /\ ProvidersDecidedFirst' /\ RanOnEarlierCapabilities'
  BY <1>2, SameRuns DEF AnalyzerInv
<1>11. QED
  BY <1>1, <1>3, <1>4, <1>6, <1>7, <1>8, <1>9, <1>10 DEF AnalyzerInv

\* The end of a call, with a result or with a raised error.
LEMMA EndOfCallInv == AnalyzerInv /\ (BuildResult \/ RaiseRuleError) => AnalyzerInv'
<1> SUFFICES ASSUME AnalyzerInv, BuildResult \/ RaiseRuleError PROVE AnalyzerInv'
  OBVIOUS
<1>1. /\ pc' \in {"done", "raised"}
      /\ pc \in {"PER_NODE", "AGGREGATE"}
      /\ UNCHANGED <<declVars, sortVars, rules, callVars, facts, snapshot, todo, runs>>
  BY DEF BuildResult, RaiseRuleError, Running, execVars
<1>2. UNCHANGED <<requires, provides, sortPc, phase, request, queryInfo, confidence, runs>>
  BY <1>1 DEF declVars, sortVars, callVars
<1>3. OrderInv'  BY <1>1, SameOrder DEF AnalyzerInv
<1>4. ListInv'  BY <1>1 DEF AnalyzerInv, ListInv, sortVars
<1>5. TypeOK'
  <2>1. OrderTypeOK'  BY <1>3 DEF OrderInv
  <2>2. counts' \in [run : Nat, failed : Nat, skipped : Nat]
    <3>1. CASE BuildResult
      <4>1. \A status : CountOf(status) \in Nat
        BY CountOfIsNat DEF AnalyzerInv, TypeOK
      <4>2. CountOf("PASS") \in Nat /\ CountOf("FAIL") \in Nat /\ CountOf("SKIP") \in Nat
        BY <4>1
      <4>3. QED  BY <3>1, <4>2 DEF BuildResult
    <3>2. CASE RaiseRuleError
      BY <3>2 DEF AnalyzerInv, TypeOK, RaiseRuleError, execVars
    <3>3. QED  BY <3>1, <3>2
  <2>3. QED  BY <1>1, <2>1, <2>2 DEF AnalyzerInv, TypeOK, callVars
<1>6. DecidedPlaces'
  <2>1. CASE BuildResult
    <3>1. pc = "AGGREGATE" /\ todo = {} /\ pc' = "done"  BY <2>1 DEF BuildResult
    <3>2. \A i \in DOMAIN rules : RunOf(rules[i]) # {}
      BY <3>1 DEF AnalyzerInv, DecidedPlaces
    <3>3. Listing(rules)  BY RulesIsListing DEF AnalyzerInv
    <3>4. \A r \in Rule : RunOf(r) # {}  BY <3>2, <3>3 DEF Listing
    <3>5. \A r : RunOf(r)' = RunOf(r)  BY <1>2, SameRuns
    <3>6. QED  BY <3>1, <3>4, <3>5 DEF DecidedPlaces
  <2>2. CASE RaiseRuleError  BY <2>2 DEF RaiseRuleError, DecidedPlaces
  <2>3. QED  BY <2>1, <2>2
<1>7. TodoIsSuffix' /\ SnapshotInv'  BY <1>1 DEF TodoIsSuffix, SnapshotInv, Deciding
<1>8. RunsOnce' /\ ProvidersDecidedFirst' /\ RanOnEarlierCapabilities'
  BY <1>2, SameRuns DEF AnalyzerInv
<1>9. QED  BY <1>1, <1>3, <1>4, <1>5, <1>6, <1>7, <1>8 DEF AnalyzerInv

LEMMA StutterInv == AnalyzerInv /\ UNCHANGED vars => AnalyzerInv'
<1> SUFFICES ASSUME AnalyzerInv, UNCHANGED vars PROVE AnalyzerInv'
  OBVIOUS
<1>1. /\ UNCHANGED <<requires, provides, sortPc, indegree, queue, order>>
      /\ UNCHANGED <<phase, request, pc, rules, confidence, queryInfo, evidence>>
      /\ UNCHANGED <<facts, snapshot, todo, runs, counts>>
  BY DEF vars
<1>2. OrderInv'  BY <1>1, SameOrder DEF AnalyzerInv, declVars, sortVars
<1>3. RunsOnce' /\ ProvidersDecidedFirst' /\ RanOnEarlierCapabilities'
  BY <1>1, SameRuns DEF AnalyzerInv
<1>4. TypeOK'
  <2>1. OrderTypeOK'  BY <1>2 DEF OrderInv
  <2>2. QED  BY <1>1, <2>1 DEF AnalyzerInv, TypeOK
<1>5. ListInv'  BY <1>1 DEF AnalyzerInv, ListInv
<1>6. DecidedPlaces'
  <2>1. \A r : RunOf(r)' = RunOf(r)  BY <1>1, SameRuns
  <2>2. InPhase("PER_NODE")' = InPhase("PER_NODE")  BY <1>1 DEF InPhase
  <2>3. QED  BY <1>1, <2>1, <2>2 DEF AnalyzerInv, DecidedPlaces
<1>7. TodoIsSuffix'  BY <1>1 DEF AnalyzerInv, TodoIsSuffix, Deciding, InPhase
<1>8. SnapshotInv'
  BY <1>1 DEF AnalyzerInv, SnapshotInv, Deciding, ContextCapabilities, FirstPhaseGrants
<1>9. QED  BY <1>1, <1>2, <1>3, <1>4, <1>5, <1>6, <1>7, <1>8 DEF AnalyzerInv

\* A skip and a run, in the form the lemmas on decisions take them.
LEMMA DecisionStatus ==
  ASSUME SkipRule \/ RunRule
  PROVE  /\ Running
         /\ UNCHANGED <<facts, snapshot>>
         /\ \E st \in Statuses : (st # "SKIP" <=> CanRun) /\ Decide(RunWith(st))
BY DEF SkipRule, Skip, RunRule, Statuses

LEMMA StepInv == AnalyzerInv /\ [Next]_vars => AnalyzerInv'
<1> SUFFICES ASSUME AnalyzerInv, [Next]_vars PROVE AnalyzerInv'
  OBVIOUS
<1>1. CASE SortRules \/ AdoptOrder \/ KeepListOrder \/ ParseSql
  BY <1>1, BeforeRulesInv
<1>2. CASE BuildContext  BY <1>2, BuildContextInv
<1>3. CASE SkipRule \/ RunRule  BY <1>3, DecisionStatus, DecideInv
<1>4. CASE RaiseRuleError \/ BuildResult  BY <1>4, EndOfCallInv
<1>5. CASE StartAggregates  BY <1>5, StartAggregatesInv
<1>6. CASE UNCHANGED vars  BY <1>6, StutterInv
<1>7. QED  BY <1>1, <1>2, <1>3, <1>4, <1>5, <1>6 DEF Next

LEMMA AnalyzerInvariant == Spec => []AnalyzerInv
BY InitInv, StepInv, PTL DEF Spec

-----------------------------------------------------------------------------
\* The steps of the constructor's call are steps of build_rule_dag, and no
\* other step of an analysis touches the sort or the declarations.
THEOREM SortIsRuleOrder == Spec => OrderSpec
<1>1. Init => OrderInit  BY DEF Init
<1>2. [Next]_vars => [OrderNext]_orderVars
  <2> SUFFICES ASSUME [Next]_vars, ~ UNCHANGED orderVars PROVE OrderNext
    OBVIOUS
  <2>1. CASE SortRules  BY <2>1 DEF SortRules
  <2>2. CASE \/ AdoptOrder \/ KeepListOrder \/ ParseSql \/ BuildContext
             \/ SkipRule \/ RunRule \/ RaiseRuleError \/ StartAggregates \/ BuildResult
    <3>1. UNCHANGED <<declVars, sortVars>>
      BY <2>2 DEF AdoptOrder, KeepListOrder, Constructed, ParseSql, BuildContext, SkipRule,
                  Skip, RunRule, Decide, RaiseRuleError, StartAggregates, BuildResult
    <3>2. QED  BY <3>1 DEF declVars, sortVars, orderVars
  <2>3. CASE UNCHANGED vars  BY <2>3 DEF vars, orderVars
  <2>4. QED  BY <2>1, <2>2, <2>3 DEF Next
<1>3. QED  BY <1>1, <1>2, PTL DEF Spec, OrderSpec

\* The analyzer's variables keep their types, with a cycle or without.
THEOREM AnalyzerTypes == Spec => []TypeOK
<1>1. AnalyzerInv => TypeOK  BY DEF AnalyzerInv
<1>2. QED  BY <1>1, AnalyzerInvariant, PTL

\* The result of an analysis has one run of each rule.
THEOREM RunsAreComplete == Spec => []EveryRuleHasOneRun
<1>1. AnalyzerInv => EveryRuleHasOneRun
  <2> SUFFICES ASSUME AnalyzerInv, pc = "done", NEW r \in Rule
               PROVE  \E i \in RunOf(r) : RunOf(r) = {i}
    BY DEF EveryRuleHasOneRun
  <2>1. PICK i \in RunOf(r) : TRUE  BY DEF AnalyzerInv, DecidedPlaces
  <2>2. \A j \in RunOf(r) : j = i  BY <2>1 DEF AnalyzerInv, RunsOnce, RunOf
  <2>3. QED  BY <2>1, <2>2
<1>2. QED  BY <1>1, AnalyzerInvariant, PTL

\* After a sort that succeeded, the providers of a rule's phase precede it.
THEOREM ProvidersFirst == Spec => []ProvidersDecidedFirst
<1>1. AnalyzerInv => ProvidersDecidedFirst  BY DEF AnalyzerInv
<1>2. QED  BY <1>1, AnalyzerInvariant, PTL

\* A rule runs exactly when the context and the finished phase cover it.
THEOREM EarlierCapabilities == Spec => []RanOnEarlierCapabilities
<1>1. AnalyzerInv => RanOnEarlierCapabilities  BY DEF AnalyzerInv
<1>2. QED  BY <1>1, AnalyzerInvariant, PTL

-----------------------------------------------------------------------------
\* A decision changes the outcome of the rule it is about, and of no other.
LEMMA DecideOutcome ==
  ASSUME AnalyzerInv, Running, NEW st \in Statuses, Decide(RunWith(st))
  PROVE  /\ Outcome[NextRule] = "pending"
         /\ Outcome' = [Outcome EXCEPT ![NextRule] = st]
<1>1. PICK r, n : r = NextRule /\ n = Len(runs)
  OBVIOUS
<1>2. r \in Rule /\ RunOf(r) = {}  BY <1>1, NextRuleFacts
<1>3. /\ \A i \in DOMAIN runs : runs'[i] = runs[i]
      /\ runs'[n + 1] = [rule |-> r, status |-> st]
      /\ \A q : RunOf(q)' = IF q = r THEN {n + 1} ELSE RunOf(q)
  BY <1>1, DecideRuns
<1>4. Outcome[r] = "pending"  BY <1>2 DEF Outcome
<1> DEFINE outcomeOf(q) == IF RunOf(q) = {} THEN "pending"
                           ELSE runs[CHOOSE i \in RunOf(q) : TRUE].status
<1>5. outcomeOf(r)' = st
  <2>1. RunOf(r)' = {n + 1}  BY <1>3
  <2>2. (CHOOSE i \in {n + 1} : TRUE) = n + 1
    OBVIOUS
  <2>3. QED  BY <1>3, <2>1, <2>2
<1>6. ASSUME NEW q \in Rule, q # r PROVE outcomeOf(q)' = outcomeOf(q)
  <2>1. RunOf(q)' = RunOf(q)  BY <1>3, <1>6
  <2>2. CASE RunOf(q) = {}  BY <2>1, <2>2
  <2>3. CASE RunOf(q) # {}
    <3>1. (CHOOSE i \in RunOf(q) : TRUE) \in DOMAIN runs  BY <2>3 DEF RunOf
    <3>2. QED  BY <1>3, <2>1, <2>3, <3>1
  <2>4. QED  BY <2>2, <2>3
<1>7. Outcome = [q \in Rule |-> outcomeOf(q)]  BY DEF Outcome
<1>8. Outcome' = [q \in Rule |-> outcomeOf(q)']  BY DEF Outcome
<1> HIDE DEF outcomeOf
<1>9. Outcome' = [Outcome EXCEPT ![r] = st]  BY <1>2, <1>5, <1>6, <1>7, <1>8
<1>10. QED  BY <1>1, <1>4, <1>9

\* A rule has an outcome when it has a run.
LEMMA OutcomeDecided ==
  ASSUME AnalyzerInv
  PROVE  \A r \in Rule : RunOf(r) # {} => Outcome[r] # "pending"
<1> SUFFICES ASSUME NEW r \in Rule, RunOf(r) # {} PROVE Outcome[r] # "pending"
  OBVIOUS
<1> DEFINE i == CHOOSE j \in RunOf(r) : TRUE
<1>1. i \in DOMAIN runs  BY DEF RunOf
<1>2. Outcome[r] = runs[i].status  BY DEF Outcome
<1> HIDE DEF i
<1>3. runs[i].status \in Statuses
  <2>1. runs \in Seq([rule : Rule, status : Statuses])  BY DEF AnalyzerInv, TypeOK
  <2>2. \A T : \A s \in Seq(T) : \A j \in DOMAIN s : s[j] \in T
    OBVIOUS
  <2>3. runs[i] \in [rule : Rule, status : Statuses]  BY <1>1, <2>1, <2>2
  <2>4. QED  BY <2>3
<1>4. QED  BY <1>2, <1>3 DEF Statuses

LEMMA SameOutcome == UNCHANGED runs => Outcome' = Outcome
BY DEF Outcome, RunOf

LEMMA PromiseInit == Init => Promise!XInit
<1> SUFFICES ASSUME Init PROVE Promise!XInit
  OBVIOUS
<1>1. pc = "construct" /\ \A r : RunOf(r) = {}  BY DEF Init, RunOf
<1>2. QED  BY <1>1 DEF Promise!XInit, Outcome, Stage

\* A decision of the analyzer is the abstract decision of that rule.
LEMMA PromiseDecide ==
  AnalyzerInv /\ (SkipRule \/ RunRule) => \E r \in Rule : Promise!Decide(r)
<1> SUFFICES ASSUME AnalyzerInv, SkipRule \/ RunRule PROVE \E r \in Rule : Promise!Decide(r)
  OBVIOUS
<1>1. /\ Running /\ UNCHANGED <<facts, snapshot>>
      /\ \E st \in Statuses : (st # "SKIP" <=> CanRun) /\ Decide(RunWith(st))
  BY DecisionStatus
<1>2. PICK st \in Statuses : (st # "SKIP" <=> CanRun) /\ Decide(RunWith(st))
  BY <1>1
<1>3. PICK r : r = NextRule
  OBVIOUS
<1>4. r \in Rule /\ phase[r] = pc  BY <1>1, <1>3, NextRuleFacts
<1>5. Outcome[r] = "pending" /\ Outcome' = [Outcome EXCEPT ![r] = st]
  BY <1>1, <1>2, <1>3, DecideOutcome
<1>6. /\ UNCHANGED <<requires, provides, phase, pc, snapshot>>
      /\ pc \in {"PER_NODE", "AGGREGATE"}
  BY <1>1, <1>2 DEF Decide, declVars, callVars, Running
<1>7. Stage = phase[r] /\ Stage' = Stage  BY <1>4, <1>6 DEF Stage
<1>8. st # "SKIP" <=> requires[r] \subseteq snapshot  BY <1>2, <1>3 DEF CanRun
<1>9. \/ /\ requires[r] \subseteq snapshot
         /\ \E o \in {"PASS", "FAIL"} : Outcome' = [Outcome EXCEPT ![r] = o]
      \/ /\ ~(requires[r] \subseteq snapshot)
         /\ Outcome' = [Outcome EXCEPT ![r] = "SKIP"]
  BY <1>5, <1>8 DEF Statuses
<1>10. Promise!Grows(Outcome')  BY <1>6 DEF Promise!Grows
<1>11. Promise!Decide(r)
  BY <1>5, <1>6, <1>7, <1>9, <1>10 DEF Promise!Decide, Promise!declared
<1>12. QED  BY <1>4, <1>11

\* The rules of the first phase are decided when todo is empty, and what they
\* declare is what the second phase gains.
LEMMA PromiseEndPhase == AnalyzerInv /\ StartAggregates => Promise!EndPhase
<1> SUFFICES ASSUME AnalyzerInv, StartAggregates PROVE Promise!EndPhase
  OBVIOUS
<1>1. /\ pc = "PER_NODE" /\ pc' = "AGGREGATE" /\ todo = {}
      /\ facts' = facts \cup FirstPhaseGrants
      /\ snapshot' = facts' /\ facts = snapshot
      /\ UNCHANGED <<requires, provides, phase, rules, runs>>
  BY DEF AnalyzerInv, SnapshotInv, Deciding, StartAggregates, declVars, callVars
<1>2. \A r \in Rule : phase[r] = "PER_NODE" => Outcome[r] # "pending"
  <2> SUFFICES ASSUME NEW r \in Rule, phase[r] = "PER_NODE" PROVE Outcome[r] # "pending"
    OBVIOUS
  <2>1. Listing(rules)  BY RulesIsListing DEF AnalyzerInv
  <2>2. PICK i \in DOMAIN rules : rules[i] = r  BY <2>1 DEF Listing
  <2>3. RunOf(r) # {}  BY <1>1, <2>2 DEF AnalyzerInv, DecidedPlaces, InPhase
  <2>4. QED  BY <2>3, OutcomeDecided
<1>3. Promise!PhaseDecided("PER_NODE")  BY <1>2 DEF Promise!PhaseDecided
<1>4. Outcome' = Outcome  BY <1>1, SameOutcome
<1>5. Promise!Grows(Outcome)
  <2>1. {s \in Rule : phase[s] = "PER_NODE"} \subseteq Promise!DecidedRules(Outcome)
    BY <1>2 DEF Promise!DecidedRules
  <2>2. FirstPhaseGrants \subseteq Promise!Grantable(Outcome)
    BY <2>1 DEF Promise!Grantable, FirstPhaseGrants
  <2>3. snapshot \subseteq snapshot'  BY <1>1
  <2>4. snapshot' \ snapshot \subseteq Promise!Grantable(Outcome)  BY <1>1, <2>2
  <2>5. QED  BY <2>3, <2>4 DEF Promise!Grows
<1>6. Stage = "PER_NODE" /\ Stage' = "AGGREGATE"  BY <1>1 DEF Stage
<1>7. QED
  BY <1>1, <1>3, <1>4, <1>5, <1>6 DEF Promise!EndPhase, Promise!declared

LEMMA PromiseFinish == AnalyzerInv /\ BuildResult => Promise!Finish
<1> SUFFICES ASSUME AnalyzerInv, BuildResult PROVE Promise!Finish
  OBVIOUS
<1>1. /\ pc = "AGGREGATE" /\ pc' = "done" /\ todo = {}
      /\ UNCHANGED <<requires, provides, phase, snapshot, runs>>
  BY DEF BuildResult, declVars, callVars
<1>2. \A r \in Rule : Outcome[r] # "pending"
  <2> SUFFICES ASSUME NEW r \in Rule PROVE Outcome[r] # "pending"
    OBVIOUS
  <2>1. Listing(rules)  BY RulesIsListing DEF AnalyzerInv
  <2>2. PICK i \in DOMAIN rules : rules[i] = r  BY <2>1 DEF Listing
  <2>3. RunOf(r) # {}  BY <1>1, <2>2 DEF AnalyzerInv, DecidedPlaces
  <2>4. QED  BY <2>3, OutcomeDecided
<1>3. Outcome' = Outcome  BY <1>1, SameOutcome
<1>4. Stage = "AGGREGATE" /\ Stage' = "done"  BY <1>1 DEF Stage
<1>5. QED
  BY <1>1, <1>2, <1>3, <1>4 DEF Promise!Finish, Promise!PhaseDecided, Promise!declared

\* fail_fast: the rule that raises is one the abstract execution could run.
LEMMA PromiseRaise == AnalyzerInv /\ RaiseRuleError => Promise!Raise
<1> SUFFICES ASSUME AnalyzerInv, RaiseRuleError PROVE Promise!Raise
  OBVIOUS
<1>1. /\ Running /\ CanRun /\ pc' = "raised" /\ pc \in {"PER_NODE", "AGGREGATE"}
      /\ UNCHANGED <<requires, provides, phase, snapshot, runs>>
  BY DEF RaiseRuleError, Running, declVars, callVars, execVars
<1>2. NextRule \in Rule /\ phase[NextRule] = pc /\ RunOf(NextRule) = {}
  BY <1>1, NextRuleFacts
<1>3. Outcome[NextRule] = "pending"  BY <1>2 DEF Outcome
<1>4. requires[NextRule] \subseteq snapshot  BY <1>1 DEF CanRun
<1>5. Stage = pc /\ Stage' = "raised"  BY <1>1 DEF Stage
<1>6. Outcome' = Outcome  BY <1>1, SameOutcome
<1>7. QED
  BY <1>1, <1>2, <1>3, <1>4, <1>5, <1>6 DEF Promise!Raise, Promise!declared

\* Until the first phase begins the abstract execution stands still; then it
\* begins, with the facts of the context.
LEMMA PromiseBegin ==
  /\ SortRules \/ AdoptOrder \/ KeepListOrder \/ ParseSql \/ UNCHANGED vars
       => UNCHANGED Promise!xvars
  /\ BuildContext => Promise!Begin
<1>1. ASSUME SortRules \/ AdoptOrder \/ KeepListOrder \/ ParseSql
      PROVE  UNCHANGED Promise!xvars
  <2>1. /\ UNCHANGED <<phase, snapshot, runs>>
        /\ {pc, pc'} \subseteq {"construct", "parse", "context"}
    BY <1>1 DEF SortRules, AdoptOrder, KeepListOrder, Constructed, ParseSql, callVars, execVars
  <2>2. UNCHANGED <<requires, provides>>
    BY <1>1 DEF SortRules, OrderNext, BuildGraph, Start, PlaceRule, Place, FinishSort, Finish,
                AdoptOrder, KeepListOrder, Constructed, ParseSql, declVars
  <2>3. Stage' = Stage  BY <2>1 DEF Stage
  <2>4. Outcome' = Outcome  BY <2>1, SameOutcome
  <2>5. QED  BY <2>1, <2>2, <2>3, <2>4 DEF Promise!xvars
<1>2. ASSUME UNCHANGED vars PROVE UNCHANGED Promise!xvars
  <2>1. UNCHANGED <<requires, provides, phase, pc, snapshot, runs>>  BY <1>2 DEF vars
  <2>2. QED  BY <2>1, SameOutcome DEF Promise!xvars, Stage
<1>3. ASSUME BuildContext PROVE Promise!Begin
  <2>1. /\ pc = "context" /\ pc' = "PER_NODE"
        /\ UNCHANGED <<requires, provides, phase, runs>>
    BY <1>3 DEF BuildContext, declVars, callVars
  <2>2. QED  BY <2>1, SameOutcome DEF Promise!Begin, Promise!declared, Stage
<1>4. QED  BY <1>1, <1>2, <1>3

\* The Analyzer is an executor that RuleExecution allows: every rule decided
\* once and in its phase, on capabilities that only grow, and nothing between.
THEOREM AnalyzerKeepsPromise == Spec => ImplementsPromise
<1>1. AnalyzerInv /\ [Next]_vars => [Promise!XNext]_(Promise!xvars)
  <2> SUFFICES ASSUME AnalyzerInv, [Next]_vars
               PROVE  Promise!XNext \/ UNCHANGED Promise!xvars
    OBVIOUS
  <2>1. CASE SortRules \/ AdoptOrder \/ KeepListOrder \/ ParseSql \/ UNCHANGED vars
    BY <2>1, PromiseBegin
  <2>2. CASE BuildContext  BY <2>2, PromiseBegin DEF Promise!XNext
  <2>3. CASE SkipRule \/ RunRule  BY <2>3, PromiseDecide DEF Promise!XNext
  <2>4. CASE RaiseRuleError  BY <2>4, PromiseRaise DEF Promise!XNext
  <2>5. CASE StartAggregates  BY <2>5, PromiseEndPhase DEF Promise!XNext
  <2>6. CASE BuildResult  BY <2>6, PromiseFinish DEF Promise!XNext
  <2>7. QED  BY <2>1, <2>2, <2>3, <2>4, <2>5, <2>6 DEF Next
<1>2. QED
  BY <1>1, PromiseInit, AnalyzerInvariant, PTL DEF Spec, ImplementsPromise, Promise!XSpec

-----------------------------------------------------------------------------
\* ExecutionMetadata accounts for every rule of the Analyzer: it ran or was
\* skipped, and a failed rule is one that ran.
MetadataAddsUp ==
  pc = "done" => /\ counts.run + counts.skipped = Cardinality(Rule)
                 /\ counts.failed <= counts.run

CountsInv ==
  pc = "done" => counts = [run     |-> CountOf("PASS") + CountOf("FAIL"),
                           failed  |-> CountOf("FAIL"),
                           skipped |-> CountOf("SKIP")]

\* Every run has one of the three statuses, so their numbers add up.
LEMMA StatusesPartition ==
  ASSUME runs \in Seq([rule : Rule, status : Statuses])
  PROVE  CountOf("PASS") + CountOf("FAIL") + CountOf("SKIP") = Len(runs)
<1> DEFINE S(status) == {i \in DOMAIN runs : runs[i].status = status}
<1>1. DOMAIN runs = 1..Len(runs) /\ Len(runs) \in Nat
  OBVIOUS
<1>2. IsFiniteSet(DOMAIN runs) /\ Cardinality(DOMAIN runs) = Len(runs)
  BY <1>1, FS_Interval
<1>3. \A i \in DOMAIN runs : runs[i].status \in Statuses
  <2>1. \A T : \A s \in Seq(T) : \A j \in DOMAIN s : s[j] \in T
    OBVIOUS
  <2>2. \A i \in DOMAIN runs : runs[i] \in [rule : Rule, status : Statuses]  BY <2>1
  <2>3. QED  BY <2>2
<1>4. \A status : IsFiniteSet(S(status)) /\ Cardinality(S(status)) \in Nat
  BY <1>2, FS_Subset, FS_CardinalityType
<1>5. S("PASS") \cap S("FAIL") = {} /\ (S("PASS") \cup S("FAIL")) \cap S("SKIP") = {}
  OBVIOUS
<1>6. DOMAIN runs = (S("PASS") \cup S("FAIL")) \cup S("SKIP")  BY <1>3 DEF Statuses
<1>7. \A status : CountOf(status) = Cardinality(S(status))  BY DEF CountOf
<1> HIDE DEF S
<1>8. /\ IsFiniteSet(S("PASS") \cup S("FAIL"))
      /\ Cardinality(S("PASS") \cup S("FAIL"))
           = Cardinality(S("PASS")) + Cardinality(S("FAIL")) - Cardinality({})
  BY <1>4, <1>5, FS_Union
<1>9. Cardinality((S("PASS") \cup S("FAIL")) \cup S("SKIP"))
        = Cardinality(S("PASS") \cup S("FAIL")) + Cardinality(S("SKIP")) - Cardinality({})
  BY <1>4, <1>5, <1>8, FS_Union
<1>10. QED  BY <1>2, <1>4, <1>6, <1>7, <1>8, <1>9, FS_EmptySet

\* One run of each rule: there are as many runs as rules.
LEMMA AsManyRunsAsRules ==
  ASSUME AnalyzerInv, pc = "done"
  PROVE  Len(runs) = Cardinality(Rule)
<1> DEFINE f == [i \in 1..Len(runs) |-> runs[i].rule]
<1>1. runs \in Seq([rule : Rule, status : Statuses])  BY DEF AnalyzerInv, TypeOK
<1>2. DOMAIN runs = 1..Len(runs) /\ Len(runs) \in Nat  BY <1>1
<1>3. \A i \in DOMAIN runs : runs[i].rule \in Rule
  <2>1. \A T : \A s \in Seq(T) : \A j \in DOMAIN s : s[j] \in T
    OBVIOUS
  <2>2. \A i \in DOMAIN runs : runs[i] \in [rule : Rule, status : Statuses]
    BY <1>1, <2>1
  <2>3. QED  BY <2>2
<1>4. \A r \in Rule : \E i \in 1..Len(runs) : runs[i].rule = r
  BY <1>2 DEF AnalyzerInv, DecidedPlaces, RunOf
<1>5. \A i, j \in 1..Len(runs) : runs[i].rule = runs[j].rule => i = j
  BY <1>2 DEF AnalyzerInv, RunsOnce
<1>6. f \in Bijection(1..Len(runs), Rule)
  BY <1>2, <1>3, <1>4, <1>5 DEF Bijection, Injection, Surjection, IsInjective
<1>7. ExistsBijection(1..Len(runs), Rule)  BY <1>6 DEF ExistsBijection
<1>8. QED  BY <1>2, <1>7, FS_CountingElements, RuleAssumption

LEMMA CountsStep == CountsInv /\ [Next]_vars => CountsInv'
<1> SUFFICES ASSUME CountsInv, [Next]_vars, pc' = "done"
             PROVE  counts' = [run     |-> CountOf("PASS")' + CountOf("FAIL")',
                               failed  |-> CountOf("FAIL")',
                               skipped |-> CountOf("SKIP")']
  BY DEF CountsInv
<1>1. CASE BuildResult
  <2>1. \A status : CountOf(status)' = CountOf(status)
    BY <1>1 DEF BuildResult, CountOf
  <2>2. QED  BY <1>1, <2>1 DEF BuildResult
<1>2. CASE UNCHANGED vars  BY <1>2 DEF vars, CountsInv, CountOf
<1>3. ~(\/ SortRules \/ AdoptOrder \/ KeepListOrder \/ ParseSql \/ BuildContext
        \/ SkipRule \/ RunRule \/ RaiseRuleError \/ StartAggregates)
  BY DEF SortRules, AdoptOrder, KeepListOrder, Constructed, ParseSql, BuildContext,
         SkipRule, Skip, RunRule, Decide, Running, RaiseRuleError, StartAggregates
<1>4. QED  BY <1>1, <1>2, <1>3 DEF Next

\* The numbers of ExecutionMetadata add up to the number of rules.
THEOREM AccountingIsComplete == Spec => []MetadataAddsUp
<1>1. Init => CountsInv  BY DEF Init, CountsInv
<1>2. AnalyzerInv /\ CountsInv => MetadataAddsUp
  <2> SUFFICES ASSUME AnalyzerInv, CountsInv, pc = "done"
               PROVE  /\ counts.run + counts.skipped = Cardinality(Rule)
                      /\ counts.failed <= counts.run
    BY DEF MetadataAddsUp
  <2>1. runs \in Seq([rule : Rule, status : Statuses])  BY DEF AnalyzerInv, TypeOK
  <2>2. /\ CountOf("PASS") \in Nat /\ CountOf("FAIL") \in Nat /\ CountOf("SKIP") \in Nat
    BY <2>1, CountOfIsNat
  <2>3. CountOf("PASS") + CountOf("FAIL") + CountOf("SKIP") = Cardinality(Rule)
    BY <2>1, StatusesPartition, AsManyRunsAsRules
  <2>4. /\ counts.run = CountOf("PASS") + CountOf("FAIL")
        /\ counts.failed = CountOf("FAIL")
        /\ counts.skipped = CountOf("SKIP")
    BY DEF CountsInv
  <2>5. QED  BY <2>2, <2>3, <2>4
<1>3. QED  BY <1>1, <1>2, CountsStep, AnalyzerInvariant, PTL DEF Spec

-----------------------------------------------------------------------------
\* What is left of an analysis: turns of the sort and its adoption, then the
\* parsing, the context, the rules of the phases, and the ends of the phases.
SortStepsLeft ==
  CASE sortPc = "build" -> Cardinality(Rule) + 2
    [] sortPc = "kahn"  -> Cardinality(Rule) - Len(order) + 1
    [] OTHER            -> 0

StepsLeft ==
  CASE pc = "construct" -> 2 * Cardinality(Rule) + 5 + SortStepsLeft
    [] pc = "parse"     -> 2 * Cardinality(Rule) + 4
    [] pc = "context"   -> 2 * Cardinality(Rule) + 3
    [] pc = "PER_NODE"  -> Cardinality(todo) + Cardinality(Rule) + 2
    [] pc = "AGGREGATE" -> Cardinality(todo) + 1
    [] OTHER            -> 0

\* Every step brings the analysis closer to its end.
ComesCloser == StepsLeft \in Nat /\ StepsLeft' \in Nat /\ StepsLeft' < StepsLeft

LEMMA UpTo == \A k \in Nat : IsFiniteSet(1..k) /\ Cardinality(1..k) = k
BY FS_Interval

\* An order without repetition has no more places than there are rules.
LEMMA OrderIsNoLonger ==
  ASSUME OrderInv
  PROVE  Len(order) \in Nat /\ Len(order) <= Cardinality(Rule)
<1>1. order \in Seq(Rule) /\ EachRuleOnce  BY DEF OrderInv, OrderTypeOK
<1>2. DOMAIN order = 1..Len(order) /\ Len(order) \in Nat  BY <1>1
<1>3. order \in Injection(1..Len(order), Rule)
  BY <1>1, <1>2 DEF EachRuleOnce, Injection, IsInjective
<1>4. Cardinality(1..Len(order)) <= Cardinality(Rule)
  BY <1>3, FS_Injection, RuleAssumption
<1>5. Cardinality(1..Len(order)) = Len(order)  BY <1>2, UpTo
<1>6. QED  BY <1>2, <1>4, <1>5

\* A phase has no more places than there are rules.
LEMMA PlacesAreFew ==
  ASSUME Listing(rules), NEW S \in SUBSET DOMAIN rules
  PROVE  /\ IsFiniteSet(S)
         /\ Cardinality(S) \in Nat
         /\ Cardinality(S) <= Cardinality(Rule)
<1>1. DOMAIN rules = 1..Len(rules) /\ Len(rules) \in Nat  BY DEF Listing
<1>2. rules \in Injection(DOMAIN rules, Rule)
  BY <1>1 DEF Listing, Injection, IsInjective
<1>3. IsFiniteSet(DOMAIN rules) /\ Cardinality(DOMAIN rules) <= Cardinality(Rule)
  BY <1>2, FS_Injection, RuleAssumption
<1>4. IsFiniteSet(S) /\ Cardinality(S) <= Cardinality(DOMAIN rules)
  BY <1>3, FS_Subset
<1>5. Cardinality(S) \in Nat /\ Cardinality(DOMAIN rules) \in Nat /\ Cardinality(Rule) \in Nat
  BY <1>3, <1>4, FS_CardinalityType, RuleAssumption
<1>6. QED  BY <1>3, <1>4, <1>5

\* A step of the sort leaves it less to do.
LEMMA SortComesCloser ==
  ASSUME OrderInv, OrderNext
  PROVE  SortStepsLeft \in Nat /\ SortStepsLeft' \in Nat /\ SortStepsLeft' < SortStepsLeft
<1> DEFINE n == Cardinality(Rule)
<1>1. n \in Nat  BY FS_CardinalityType, RuleAssumption
<1>2. Len(order) \in Nat /\ Len(order) <= n  BY OrderIsNoLonger
<1>3. OrderInv'  BY StepOrderInv
<1>4. Len(order') \in Nat /\ Len(order') <= n
  <2>1. order' \in Seq(Rule) /\ EachRuleOnce'  BY <1>3 DEF OrderInv, OrderTypeOK
  <2>2. DOMAIN order' = 1..Len(order') /\ Len(order') \in Nat  BY <2>1
  <2>3. order' \in Injection(1..Len(order'), Rule)
    BY <2>1, <2>2 DEF EachRuleOnce, Injection, IsInjective
  <2>4. Cardinality(1..Len(order')) <= Cardinality(Rule)
    BY <2>3, FS_Injection, RuleAssumption
  <2>5. Cardinality(1..Len(order')) = Len(order')  BY <2>2, UpTo
  <2>6. QED  BY <2>2, <2>4, <2>5
<1>5. CASE BuildGraph
  <2>1. sortPc = "build" /\ sortPc' = "kahn" /\ Len(order') = Len(order) /\ order = <<>>
    BY <1>5 DEF BuildGraph, Start, OrderInv
  <2>2. SortStepsLeft = n + 2 /\ SortStepsLeft' = n - Len(order') + 1
    BY <2>1 DEF SortStepsLeft
  <2>3. Len(order') = 0  BY <2>1
  <2>4. QED  BY <1>1, <2>2, <2>3
<1>6. CASE PlaceRule
  <2>1. /\ sortPc = "kahn" /\ sortPc' = "kahn"
        /\ order' = Append(order, Head(queue))
    BY <1>6 DEF PlaceRule, Place
  <2>2. Len(order') = Len(order) + 1
    BY <2>1 DEF OrderInv, OrderTypeOK
  <2>3. SortStepsLeft = n - Len(order) + 1 /\ SortStepsLeft' = n - Len(order') + 1
    BY <2>1 DEF SortStepsLeft
  <2>4. QED  BY <1>1, <1>2, <1>4, <2>2, <2>3
<1>7. CASE FinishSort
  <2>1. sortPc = "kahn" /\ sortPc' \in {"sorted", "cycle"}
    BY <1>7 DEF FinishSort, Finish
  <2>2. SortStepsLeft = n - Len(order) + 1 /\ SortStepsLeft' = 0
    BY <2>1 DEF SortStepsLeft
  <2>3. QED  BY <1>1, <1>2, <2>2
<1>8. QED  BY <1>5, <1>6, <1>7 DEF OrderNext

LEMMA StepComesCloser == AnalyzerInv /\ Next => ComesCloser
<1> SUFFICES ASSUME AnalyzerInv, Next PROVE ComesCloser
  OBVIOUS
<1> DEFINE n == Cardinality(Rule)
<1>1. n \in Nat  BY FS_CardinalityType, RuleAssumption
<1>2. Listing(rules) /\ todo \subseteq DOMAIN rules
  BY RulesIsListing DEF AnalyzerInv, TypeOK
<1>3. IsFiniteSet(todo) /\ Cardinality(todo) \in Nat /\ Cardinality(todo) <= n
  BY <1>2, PlacesAreFew
<1>4. \A p : Cardinality(InPhase(p)) \in Nat /\ Cardinality(InPhase(p)) <= n
  <2> TAKE p
  <2>1. InPhase(p) \in SUBSET DOMAIN rules  BY DEF InPhase
  <2>2. QED  BY <1>2, <2>1, PlacesAreFew
<1> HIDE DEF n
<1>5. CASE SortRules
  <2>1. pc = "construct" /\ pc' = "construct" /\ OrderNext  BY <1>5 DEF SortRules
  <2>2. SortStepsLeft \in Nat /\ SortStepsLeft' \in Nat /\ SortStepsLeft' < SortStepsLeft
    BY <2>1, SortComesCloser DEF AnalyzerInv
  <2>3. StepsLeft = 2 * n + 5 + SortStepsLeft /\ StepsLeft' = 2 * n + 5 + SortStepsLeft'
    BY <2>1 DEF StepsLeft, n
  <2>4. \A k, a, b \in Nat : b < a => 2 * k + 5 + b < 2 * k + 5 + a
    OBVIOUS
  <2>5. \A k, a \in Nat : 2 * k + 5 + a \in Nat
    OBVIOUS
  <2>6. StepsLeft' < StepsLeft  BY <1>1, <2>2, <2>3, <2>4
  <2>7. StepsLeft \in Nat /\ StepsLeft' \in Nat  BY <1>1, <2>2, <2>3, <2>5
  <2>8. QED  BY <2>6, <2>7 DEF ComesCloser
<1>6. CASE AdoptOrder \/ KeepListOrder
  <2>1. pc = "construct" /\ pc' = "parse" /\ sortPc \in {"sorted", "cycle"}
    BY <1>6 DEF AdoptOrder, KeepListOrder, Constructed
  <2>2. StepsLeft = 2 * n + 5 + 0 /\ StepsLeft' = 2 * n + 4
    BY <2>1 DEF StepsLeft, SortStepsLeft, n
  <2>3. QED  BY <1>1, <2>2 DEF ComesCloser
<1>7. CASE ParseSql
  <2>1. StepsLeft = 2 * n + 4 /\ StepsLeft' = 2 * n + 3
    BY <1>7 DEF ParseSql, StepsLeft, n
  <2>2. QED  BY <1>1, <2>1 DEF ComesCloser
<1>8. CASE BuildContext
  <2>1. pc = "context" /\ pc' = "PER_NODE" /\ todo' = InPhase("PER_NODE")
    BY <1>8 DEF BuildContext
  <2>2. StepsLeft = 2 * n + 3 /\ StepsLeft' = Cardinality(InPhase("PER_NODE")) + n + 2
    BY <2>1 DEF StepsLeft, n
  <2>3. QED  BY <1>1, <1>4, <2>2 DEF ComesCloser
<1>9. CASE SkipRule \/ RunRule
  <2>1. Running /\ pc' = pc /\ todo' = todo \ {Min(todo)}
    BY <1>9 DEF SkipRule, Skip, RunRule, Decide
  <2>2. Min(todo) \in todo  BY <2>1, NextRuleFacts
  <2>3. Cardinality(todo') = Cardinality(todo) - 1
    BY <1>3, <2>1, <2>2, FS_RemoveElement
  <2>4. IsFiniteSet(todo')  BY <1>3, <2>1, FS_RemoveElement
  <2>5. Cardinality(todo') \in Nat  BY <2>4, FS_CardinalityType
  <2>6. CASE pc = "PER_NODE"
    <3>1. /\ StepsLeft = Cardinality(todo) + n + 2
          /\ StepsLeft' = Cardinality(todo') + n + 2
      BY <2>1, <2>6 DEF StepsLeft, n
    <3>2. QED  BY <1>1, <1>3, <2>3, <2>5, <3>1 DEF ComesCloser
  <2>7. CASE pc = "AGGREGATE"
    <3>1. StepsLeft = Cardinality(todo) + 1 /\ StepsLeft' = Cardinality(todo') + 1
      BY <2>1, <2>7 DEF StepsLeft
    <3>2. QED  BY <1>3, <2>3, <2>5, <3>1 DEF ComesCloser
  <2>8. QED  BY <2>1, <2>6, <2>7 DEF Running
<1>10. CASE RaiseRuleError
  <2>1. pc \in {"PER_NODE", "AGGREGATE"} /\ pc' = "raised"
    BY <1>10 DEF RaiseRuleError, Running
  <2>2. /\ StepsLeft' = 0
        /\ StepsLeft \in {Cardinality(todo) + n + 2, Cardinality(todo) + 1}
    BY <2>1 DEF StepsLeft, n
  <2>3. QED  BY <1>1, <1>3, <2>2 DEF ComesCloser
<1>11. CASE StartAggregates
  <2>1. pc = "PER_NODE" /\ pc' = "AGGREGATE" /\ todo' = InPhase("AGGREGATE")
    BY <1>11 DEF StartAggregates
  <2>2. /\ StepsLeft = Cardinality(todo) + n + 2
        /\ StepsLeft' = Cardinality(InPhase("AGGREGATE")) + 1
    BY <2>1 DEF StepsLeft, n
  <2>3. QED  BY <1>1, <1>3, <1>4, <2>2 DEF ComesCloser
<1>12. CASE BuildResult
  <2>1. StepsLeft = Cardinality(todo) + 1 /\ StepsLeft' = 0
    BY <1>12 DEF BuildResult, StepsLeft
  <2>2. QED  BY <1>3, <2>1 DEF ComesCloser
<1>13. QED  BY <1>5, <1>6, <1>7, <1>8, <1>9, <1>10, <1>11, <1>12 DEF Next

\* No analysis goes on for ever: each step brings it closer to its end, which is
\* 3n + 7 steps away at most when n rules are given.
THEOREM AnalysisIsBounded ==
  Spec => (StepsLeft = 3 * Cardinality(Rule) + 7) /\ [][ComesCloser]_vars
<1>1. Init => StepsLeft = 3 * Cardinality(Rule) + 7
  <2> SUFFICES ASSUME Init PROVE StepsLeft = 3 * Cardinality(Rule) + 7
    OBVIOUS
  <2>1. Cardinality(Rule) \in Nat  BY FS_CardinalityType, RuleAssumption
  <2>2. pc = "construct" /\ sortPc = "build"  BY DEF Init, OrderInit
  <2>3. QED  BY <2>1, <2>2 DEF StepsLeft, SortStepsLeft
<1>2. AnalyzerInv /\ [Next]_vars => [ComesCloser]_vars  BY StepComesCloser
<1>3. QED  BY <1>1, <1>2, AnalyzerInvariant, PTL DEF Spec
=============================================================================
