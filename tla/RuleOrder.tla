------------------------------ MODULE RuleOrder ------------------------------
(***************************************************************************)
(* build_rule_dag (analyzer/dag.py): Kahn's algorithm over the graph that  *)
(* the rules' `requires' and `provides' declarations induce.  An edge goes *)
(* from a provider of a capability to each other rule that requires it.    *)
(*                                                                         *)
(* A rule is named by its rule_id.  The list handed to the function holds  *)
(* every rule once (the registry refuses a second rule with the same id).  *)
(* The declarations are fixed for the life of the process; they are        *)
(* variables, chosen in OrderInit and never changed, so that one run of    *)
(* the model checker covers every graph over the constants.                *)
(***************************************************************************)
EXTENDS Integers, FiniteSets, Sequences

CONSTANTS
  Rule,            \* rule ids
  RuleList,        \* the order in which the rules are handed over
  RequireChoices,  \* the sets of capabilities a rule may require
  ProvideChoices   \* the sets of capabilities a rule may provide

ASSUME RuleAssumption ==
  /\ IsFiniteSet(Rule)
  /\ RuleList \in [1..Cardinality(Rule) -> Rule]
  /\ \A r \in Rule : \E i \in 1..Cardinality(Rule) : RuleList[i] = r

VARIABLES
  requires,  \* rule -> capabilities it requires
  provides,  \* rule -> capabilities it provides
  sortPc,    \* where build_rule_dag is: "build", "kahn", "sorted" or "cycle"
  indegree,  \* in_degree: rule -> number of providers not yet in the order
  queue,     \* rules all of whose providers are in the order
  order      \* sorted_ids

declVars  == <<requires, provides>>
sortVars  == <<sortPc, indegree, queue, order>>
orderVars == <<requires, provides, sortPc, indegree, queue, order>>

-----------------------------------------------------------------------------
\* The graph.

Edge(p, r) == p # r /\ provides[p] \cap requires[r] # {}

Providers(r) == {p \in Rule : Edge(p, r)}

Dependents(p) == {r \in Rule : Edge(p, r)}

Placed == {order[i] : i \in DOMAIN order}

\* The rules of set S as a sequence, in each order an iteration over a set of
\* strings can produce: it depends on the process's hash seed.
Arrangements(S) ==
  {s \in [1..Cardinality(S) -> S] :
     /\ \A r \in S : \E i \in DOMAIN s : s[i] = r
     /\ \A i, j \in DOMAIN s : s[i] = s[j] => i = j}

\* Sequence q keeps the order of the list.
InListOrder(q) ==
  \A i, j \in DOMAIN q : i < j =>
    \E m, n \in DOMAIN RuleList : m < n /\ RuleList[m] = q[i] /\ RuleList[n] = q[j]

\* The rules without a provider, which the loop starts from.
Sources == {r \in Rule : Providers(r) = {}}

-----------------------------------------------------------------------------
OrderInit ==
  /\ requires \in [Rule -> RequireChoices]
  /\ provides \in [Rule -> ProvideChoices]
  /\ sortPc = "build"
  /\ indegree = [r \in Rule |-> 0]
  /\ queue = <<>>
  /\ order = <<>>

\* Every rule has its in-degree and the rules of `sources' are queued, in the
\* order of the list.
Start(sources, degree) ==
  /\ sortPc = "build"
  /\ indegree' = degree
  /\ \E q \in Arrangements(sources) : InListOrder(q) /\ queue' = q
  /\ sortPc' = "kahn"
  /\ UNCHANGED <<requires, provides, order>>

\* The head of the queue is placed, each dependent loses one provider and the
\* rules of `ready' join the queue.
Place(ready) ==
  /\ sortPc = "kahn"
  /\ queue # <<>>
  /\ order' = Append(order, Head(queue))
  /\ indegree' = [d \in Rule |->
                    IF d \in Dependents(Head(queue)) THEN indegree[d] - 1
                                                     ELSE indegree[d]]
  /\ \E released \in Arrangements(ready) : queue' = Tail(queue) \o released
  /\ UNCHANGED <<requires, provides, sortPc>>

Finish(result) ==
  /\ sortPc = "kahn"
  /\ queue = <<>>
  /\ sortPc' = result
  /\ UNCHANGED <<requires, provides, indegree, queue, order>>

\* Mistakes this code invites, for the mutation runs: counting an edge once per
\* capability (the membership test on edges dropped), and releasing a dependent
\* too early or twice.
BuildPerCapability ==
  Start(Sources, [r \in Rule |->
    Cardinality({pc \in Rule \X requires[r] : pc[1] # r /\ pc[2] \in provides[pc[1]]})])
PlaceAllDependents == Place(Dependents(Head(queue)))
PlaceBelowThree == Place({d \in Dependents(Head(queue)) : indegree[d] <= 2})

\* The edges and in-degrees, and the initial queue.
BuildGraph == Start(Sources, [r \in Rule |-> Cardinality(Providers(r))])

\* One turn of the loop: a dependent joins the queue with its last provider.
PlaceRule == Place({d \in Dependents(Head(queue)) : indegree[d] = 1})

\* An order shorter than the list means a cycle: CycleDetectedError.
FinishSort == Finish(IF Len(order) = Len(RuleList) THEN "sorted" ELSE "cycle")

OrderNext == BuildGraph \/ PlaceRule \/ FinishSort

OrderSpec == OrderInit /\ [][OrderNext]_orderVars

-----------------------------------------------------------------------------
\* Types of the sort's variables.
OrderTypeOK ==
  /\ requires \in [Rule -> RequireChoices]
  /\ provides \in [Rule -> ProvideChoices]
  /\ sortPc \in {"build", "kahn", "sorted", "cycle"}
  /\ indegree \in [Rule -> Nat]
  /\ queue \in Seq(Rule)
  /\ order \in Seq(Rule)

\* "Returning rules in topological order (dependencies before dependents)":
\* a rule is placed only after every rule that provides what it requires.
DependenciesFirst ==
  \A i \in DOMAIN order : \A p \in Providers(order[i]) :
    \E j \in 1..(i - 1) : order[j] = p

\* No rule is ever placed or queued twice, so the returned list runs no rule
\* twice whatever the hash order of the sets.
EachRuleOnce ==
  /\ \A i, j \in DOMAIN order : order[i] = order[j] => i = j
  /\ \A i, j \in DOMAIN queue : queue[i] = queue[j] => i = j
  /\ \A i \in DOMAIN order, j \in DOMAIN queue : order[i] # queue[j]

\* CycleDetectedError is raised only for a graph with a cycle: there are rules
\* that all wait for a provider among themselves.
CycleIsReal ==
  sortPc = "cycle" =>
    \E S \in SUBSET Rule : S # {} /\ \A r \in S : Providers(r) \cap S # {}
=============================================================================
