--------------------------- MODULE RuleOrderProofs ---------------------------
(***************************************************************************)
(* Proofs about build_rule_dag, for every finite set of rules, every list, *)
(* every declaration and every iteration order of the sets.                *)
(*                                                                         *)
(* The invariant behind the results is that an in-degree counts the        *)
(* providers of a rule that are not placed yet, and that the queue holds   *)
(* exactly the unplaced rules whose count is zero.                         *)
(***************************************************************************)
EXTENDS RuleOrder, FiniteSetTheorems, TLAPS

\* A sort that succeeds has placed every rule.
SortedIsComplete == sortPc = "sorted" => Placed = Rule

\* A graph with a cycle is never accepted: a set of rules each waiting for
\* another of the set never reaches the order.
CyclicNeverPlaced ==
  \A S \in SUBSET Rule :
    (\A r \in S : Providers(r) \cap S # {}) => Placed \cap S = {}

DegreesCount ==
  \A r \in Rule : indegree[r] = Cardinality(Providers(r) \ Placed)

Queued == {queue[i] : i \in DOMAIN queue}

QueueIsFrontier == Queued = {r \in Rule \ Placed : indegree[r] = 0}

OrderInv ==
  /\ OrderTypeOK
  /\ EachRuleOnce
  /\ DependenciesFirst
  /\ CyclicNeverPlaced
  /\ sortPc = "build" => order = <<>> /\ queue = <<>>
  /\ sortPc # "build" => DegreesCount /\ QueueIsFrontier
  /\ sortPc = "cycle" => queue = <<>> /\ Placed # Rule
  /\ sortPc = "sorted" => Placed = Rule

-----------------------------------------------------------------------------
\* The providers of a rule are finitely many, so an in-degree is a number and
\* is zero only when nothing is left to place.
LEMMA ProvidersFinite ==
  ASSUME NEW r, NEW S
  PROVE  /\ IsFiniteSet(Providers(r) \ S)
         /\ Cardinality(Providers(r) \ S) \in Nat
         /\ Cardinality(Providers(r) \ S) = 0 <=> Providers(r) \subseteq S
<1>1. Providers(r) \ S \in SUBSET Rule  BY DEF Providers
<1>2. IsFiniteSet(Providers(r) \ S)  BY <1>1, FS_Subset, RuleAssumption
<1>3. QED  BY <1>2, FS_CardinalityType, FS_EmptySet

\* An arrangement of a set of rules is a sequence without repetition whose
\* elements are the rules of the set.
LEMMA ArrangementIsSeq ==
  ASSUME NEW S \in SUBSET Rule, NEW s \in Arrangements(S)
  PROVE  /\ s \in Seq(Rule)
         /\ {s[i] : i \in DOMAIN s} = S
         /\ \A i, j \in DOMAIN s : s[i] = s[j] => i = j
<1>1. Cardinality(S) \in Nat  BY FS_Subset, FS_CardinalityType, RuleAssumption
<1>2. s \in [1..Cardinality(S) -> S]  BY DEF Arrangements
<1>3. s \in Seq(Rule)  BY <1>1, <1>2
<1>4. QED  BY <1>2, <1>3 DEF Arrangements

ElementsOf(q) == {q[i] : i \in DOMAIN q}

\* A concatenation has the elements of both parts, and repeats none when
\* neither part does and they share none.
LEMMA ConcatElements ==
  \A t, s \in Seq(Rule) :
    /\ ElementsOf(t \o s) = ElementsOf(t) \cup ElementsOf(s)
    /\ (/\ \A i, j \in DOMAIN t : t[i] = t[j] => i = j
        /\ \A i, j \in DOMAIN s : s[i] = s[j] => i = j
        /\ \A i \in DOMAIN t, j \in DOMAIN s : t[i] # s[j])
       => \A i, j \in DOMAIN (t \o s) : (t \o s)[i] = (t \o s)[j] => i = j
<1> TAKE t, s \in Seq(Rule)
<1> DEFINE u == t \o s
<1> DEFINE m == Len(t)
           n == Len(s)
<1>1. /\ DOMAIN u = 1..(m + n)
      /\ DOMAIN t = 1..m /\ DOMAIN s = 1..n
      /\ m \in Nat /\ n \in Nat
  OBVIOUS
<1>2. /\ \A i \in 1..m : u[i] = t[i]
      /\ \A i \in (m + 1)..(m + n) : u[i] = s[i - m]
  OBVIOUS
<1> HIDE DEF m, n, u
<1>3. \A i \in 1..(m + n) : i \in 1..m \/ (i \in (m + 1)..(m + n) /\ i - m \in 1..n)
  BY <1>1
<1>4. \A j \in 1..n : j + m \in (m + 1)..(m + n) /\ j + m \in 1..(m + n) /\ (j + m) - m = j
  BY <1>1
<1>5. \A j \in 1..n : u[j + m] = s[j]
  <2> SUFFICES ASSUME NEW j \in 1..n PROVE u[j + m] = s[j]
    OBVIOUS
  <2>1. u[j + m] = s[(j + m) - m]  BY <1>2, <1>4
  <2>2. QED  BY <2>1, <1>4
<1>6. ElementsOf(u) = ElementsOf(t) \cup ElementsOf(s)
  <2>1. \A i \in DOMAIN u : (\E j \in DOMAIN t : u[i] = t[j]) \/ (\E j \in DOMAIN s : u[i] = s[j])
    BY <1>1, <1>2, <1>3
  <2>2. \A j \in DOMAIN t : \E i \in DOMAIN u : u[i] = t[j]
    BY <1>1, <1>2
  <2>3. \A j \in DOMAIN s : \E i \in DOMAIN u : u[i] = s[j]
    <3> SUFFICES ASSUME NEW j \in DOMAIN s PROVE \E i \in DOMAIN u : u[i] = s[j]
      OBVIOUS
    <3>1. j + m \in DOMAIN u /\ u[j + m] = s[j]  BY <1>1, <1>4, <1>5
    <3>2. QED  BY <3>1
  <2>4. ElementsOf(u) \subseteq ElementsOf(t) \cup ElementsOf(s)  BY <2>1 DEF ElementsOf
  <2>5. ElementsOf(t) \subseteq ElementsOf(u)  BY <2>2 DEF ElementsOf
  <2>6. ElementsOf(s) \subseteq ElementsOf(u)  BY <2>3 DEF ElementsOf
  <2>7. QED  BY <2>4, <2>5, <2>6
<1>7. ASSUME \A i, j \in DOMAIN t : t[i] = t[j] => i = j,
             \A i, j \in DOMAIN s : s[i] = s[j] => i = j,
             \A i \in DOMAIN t, j \in DOMAIN s : t[i] # s[j],
             NEW i \in DOMAIN u, NEW j \in DOMAIN u, u[i] = u[j]
      PROVE  i = j
  <2>1. CASE i \in 1..m /\ j \in 1..m  BY <2>1, <1>1, <1>2, <1>7
  <2>2. CASE i \in 1..m /\ j \notin 1..m
    <3>1. j - m \in DOMAIN s /\ u[j] = s[j - m]  BY <2>2, <1>1, <1>2, <1>3
    <3>2. QED  BY <3>1, <2>2, <1>1, <1>2, <1>7
  <2>3. CASE i \notin 1..m /\ j \in 1..m
    <3>1. i - m \in DOMAIN s /\ u[i] = s[i - m]  BY <2>3, <1>1, <1>2, <1>3
    <3>2. QED  BY <3>1, <2>3, <1>1, <1>2, <1>7
  <2>4. CASE i \notin 1..m /\ j \notin 1..m
    <3>1. /\ j - m \in DOMAIN s /\ u[j] = s[j - m]
          /\ i - m \in DOMAIN s /\ u[i] = s[i - m]
      BY <2>4, <1>1, <1>2, <1>3
    <3>2. i - m = j - m  BY <3>1, <1>7
    <3>3. i \in Int /\ j \in Int  BY <1>1
    <3>4. QED  BY <3>2, <3>3, <1>1
  <2>5. QED  BY <2>1, <2>2, <2>3, <2>4
<1>8. QED  BY <1>6, <1>7 DEF u

\* Appending a rule adds that rule to the placed ones.
LEMMA PlacedAppend ==
  ASSUME NEW r \in Rule, order \in Seq(Rule), order' = Append(order, r)
  PROVE  Placed' = Placed \cup {r}
<1>1. /\ DOMAIN order' = 1..(Len(order) + 1)
      /\ order'[Len(order) + 1] = r
      /\ \A i \in DOMAIN order : order'[i] = order[i]
      /\ DOMAIN order = 1..Len(order)
      /\ Len(order) \in Nat
  OBVIOUS
<1>2. QED  BY <1>1 DEF Placed

\* The list holds every rule, so its length is their number.
LEMMA OrderCoversIffLong ==
  ASSUME OrderTypeOK, EachRuleOnce
  PROVE  Placed = Rule <=> Len(order) = Len(RuleList)
<1> DEFINE n == Cardinality(Rule)
<1>1. n \in Nat  BY FS_CardinalityType, RuleAssumption
<1>2. Len(RuleList) = n
  <2>1. RuleList \in [1..n -> Rule]  BY RuleAssumption
  <2>2. QED  BY <1>1, <2>1
<1>3. /\ order \in [1..Len(order) -> Placed]
      /\ Len(order) \in Nat
      /\ DOMAIN order = 1..Len(order)
  BY DEF OrderTypeOK, Placed
<1>4. order \in Bijection(1..Len(order), Placed)
  BY <1>3 DEF EachRuleOnce, Placed, Bijection, Injection, Surjection, IsInjective
<1>5. ExistsBijection(1..Len(order), Placed)  BY <1>4 DEF ExistsBijection
<1>6. Cardinality(Placed) = Len(order)  BY <1>3, <1>5, FS_CountingElements
<1>7. Placed \in SUBSET Rule  BY DEF OrderTypeOK, Placed
<1>8. Cardinality(Placed) = Cardinality(Rule) => Placed = Rule
  BY <1>7, FS_Subset, RuleAssumption
<1>9. QED  BY <1>2, <1>6, <1>8
-----------------------------------------------------------------------------
LEMMA InitOrderInv == OrderInit => OrderInv
<1> SUFFICES ASSUME OrderInit PROVE OrderInv
  OBVIOUS
<1>1. OrderTypeOK  BY DEF OrderInit, OrderTypeOK
<1>2. order = <<>> /\ queue = <<>> /\ sortPc = "build"  BY DEF OrderInit
<1>3. EachRuleOnce /\ DependenciesFirst /\ CyclicNeverPlaced
  BY <1>2 DEF EachRuleOnce, DependenciesFirst, CyclicNeverPlaced, Placed
<1>4. QED  BY <1>1, <1>2, <1>3 DEF OrderInv

\* What only reads the graph and the sequences does not change while they do not.
LEMMA SameGraphSameFacts ==
  ASSUME UNCHANGED <<requires, provides, indegree, queue, order>>
  PROVE  /\ EachRuleOnce => EachRuleOnce'
         /\ DependenciesFirst => DependenciesFirst'
         /\ CyclicNeverPlaced => CyclicNeverPlaced'
         /\ DegreesCount => DegreesCount'
         /\ QueueIsFrontier => QueueIsFrontier'
         /\ Placed' = Placed
<1>1. \A r : Providers(r)' = Providers(r)  BY DEF Providers, Edge
<1>2. Placed' = Placed /\ Queued' = Queued  BY DEF Placed, Queued
<1>3. EachRuleOnce => EachRuleOnce'  BY DEF EachRuleOnce
<1>4. DependenciesFirst => DependenciesFirst'  BY <1>1 DEF DependenciesFirst
<1>5. CyclicNeverPlaced => CyclicNeverPlaced'  BY <1>1, <1>2 DEF CyclicNeverPlaced
<1>6. DegreesCount => DegreesCount'  BY <1>1, <1>2 DEF DegreesCount
<1>7. QueueIsFrontier => QueueIsFrontier'  BY <1>2 DEF QueueIsFrontier
<1>8. QED  BY <1>2, <1>3, <1>4, <1>5, <1>6, <1>7

\* The initial queue is the frontier of the empty order.
LEMMA BuildGraphInv == OrderInv /\ BuildGraph => OrderInv'
<1> SUFFICES ASSUME OrderInv, BuildGraph PROVE OrderInv'
  OBVIOUS
<1> USE DEF BuildGraph, Start
<1>1. PICK q \in Arrangements(Sources) : queue' = q
  OBVIOUS
<1>2. /\ q \in Seq(Rule)
      /\ {q[i] : i \in DOMAIN q} = Sources
      /\ \A i, j \in DOMAIN q : q[i] = q[j] => i = j
  <2>1. Sources \in SUBSET Rule  BY DEF Sources
  <2>2. QED  BY <2>1, ArrangementIsSeq
<1>3. order' = <<>> /\ order = <<>> /\ sortPc' = "kahn"  BY DEF OrderInv
<1>4. \A r \in Rule : Providers(r)' = Providers(r)  BY DEF Providers, Edge
<1>5. Placed' = {}  BY <1>3 DEF Placed
<1>6. OrderTypeOK'
  <2>1. \A r \in Rule : Cardinality(Providers(r)) \in Nat
    <3>1. \A r \in Rule : Providers(r) = Providers(r) \ {}
      OBVIOUS
    <3>2. QED  BY <3>1, ProvidersFinite
  <2>2. QED  BY <1>1, <1>2, <1>3, <2>1 DEF OrderInv, OrderTypeOK
<1>7. EachRuleOnce'  BY <1>1, <1>2, <1>3 DEF EachRuleOnce
<1>8. DependenciesFirst' /\ CyclicNeverPlaced'
  BY <1>3, <1>5 DEF DependenciesFirst, CyclicNeverPlaced
<1>9. DegreesCount'
  <2>1. \A r \in Rule : Providers(r) = (Providers(r) \ Placed)'  BY <1>4, <1>5
  <2>2. QED  BY <2>1 DEF DegreesCount
<1>10. QueueIsFrontier'
  <2>1. \A r \in Rule : indegree'[r] = 0 <=> Providers(r) = {}
    <3>1. \A r \in Rule : Providers(r) = Providers(r) \ {}
      OBVIOUS
    <3>2. QED  BY <3>1, ProvidersFinite
  <2>2. Queued' = Sources  BY <1>1, <1>2 DEF Queued
  <2>3. QED  BY <2>1, <2>2, <1>5 DEF QueueIsFrontier, Sources
<1>11. QED  BY <1>3, <1>6, <1>7, <1>8, <1>9, <1>10 DEF OrderInv

\* Placing the head of the queue keeps the counts and the frontier.
LEMMA PlaceRuleInv == OrderInv /\ PlaceRule => OrderInv'
<1> SUFFICES ASSUME OrderInv, PlaceRule PROVE OrderInv'
  OBVIOUS
<1> DEFINE h == Head(queue)
           ready == {d \in Dependents(h) : indegree[d] = 1}
<1>1. /\ sortPc = "kahn" /\ sortPc' = "kahn"
      /\ queue # <<>>
      /\ order' = Append(order, h)
      /\ indegree' = [d \in Rule |-> IF d \in Dependents(h) THEN indegree[d] - 1
                                                         ELSE indegree[d]]
      /\ UNCHANGED <<requires, provides>>
  BY DEF PlaceRule, Place
<1>2. PICK s \in Arrangements(ready) : queue' = Tail(queue) \o s
  BY DEF PlaceRule, Place
<1>3. OrderTypeOK /\ EachRuleOnce /\ DependenciesFirst /\ CyclicNeverPlaced
  BY DEF OrderInv
<1>4. DegreesCount /\ QueueIsFrontier  BY <1>1 DEF OrderInv
<1>5. /\ s \in Seq(Rule)
      /\ {s[i] : i \in DOMAIN s} = ready
      /\ \A i, j \in DOMAIN s : s[i] = s[j] => i = j
  <2>1. ready \in SUBSET Rule  BY DEF Dependents
  <2>2. QED  BY <2>1, ArrangementIsSeq
<1>6. h \in Rule /\ h \notin Placed /\ indegree[h] = 0
  <2>1. 1 \in DOMAIN queue /\ h = queue[1]  BY <1>1, <1>3 DEF OrderTypeOK
  <2>2. QED  BY <2>1, <1>4 DEF QueueIsFrontier, Queued
<1>7. Providers(h) \subseteq Placed
  BY <1>4, <1>6, ProvidersFinite DEF DegreesCount
<1>8. Placed' = Placed \cup {h}  BY <1>1, <1>3, <1>6, PlacedAppend DEF OrderTypeOK
<1>9. \A r \in Rule : Providers(r)' = Providers(r)  BY <1>1 DEF Providers, Edge
<1>10. \A d \in Rule : d \in Dependents(h) <=> h \in Providers(d)
  BY <1>6 DEF Dependents, Providers
<1>11. DegreesCount'
  <2> SUFFICES ASSUME NEW d \in Rule
               PROVE  indegree'[d] = Cardinality(Providers(d) \ Placed')
    BY <1>9 DEF DegreesCount
  <2>1. Providers(d) \ Placed' = (Providers(d) \ Placed) \ {h}  BY <1>8
  <2>2. IsFiniteSet(Providers(d) \ Placed)  BY ProvidersFinite
  <2>3. Cardinality((Providers(d) \ Placed) \ {h})
          = IF h \in Providers(d) \ Placed THEN Cardinality(Providers(d) \ Placed) - 1
                                          ELSE Cardinality(Providers(d) \ Placed)
    BY <2>2, FS_RemoveElement
  <2>4. h \in Providers(d) \ Placed <=> d \in Dependents(h)  BY <1>6, <1>10
  <2>5. indegree[d] = Cardinality(Providers(d) \ Placed)  BY <1>4 DEF DegreesCount
  <2>6. QED  BY <1>1, <2>1, <2>3, <2>4, <2>5
<1>12. \A d \in Dependents(h) : d \in Rule /\ indegree[d] \in Nat \ {0}
  <2> SUFFICES ASSUME NEW d \in Dependents(h)
               PROVE  d \in Rule /\ indegree[d] \in Nat \ {0}
    OBVIOUS
  <2>1. d \in Rule  BY DEF Dependents
  <2>2. h \in Providers(d) \ Placed  BY <2>1, <1>6, <1>10
  <2>3. QED  BY <2>1, <2>2, <1>4, ProvidersFinite DEF DegreesCount
<1>13. OrderTypeOK'
  <2>1. order' \in Seq(Rule)  BY <1>1, <1>3, <1>6 DEF OrderTypeOK
  <2>2. queue' \in Seq(Rule)  BY <1>1, <1>2, <1>3, <1>5 DEF OrderTypeOK
  <2>3. indegree' \in [Rule -> Nat]  BY <1>1, <1>3, <1>12 DEF OrderTypeOK
  <2>4. QED  BY <2>1, <2>2, <2>3, <1>1, <1>3 DEF OrderTypeOK
<1>14. /\ \A i \in DOMAIN Tail(queue) : i + 1 \in DOMAIN queue /\ Tail(queue)[i] = queue[i + 1]
       /\ \A i \in DOMAIN queue : i # 1 => i - 1 \in DOMAIN Tail(queue) /\ Tail(queue)[i - 1] = queue[i]
       /\ DOMAIN Tail(queue) \subseteq Nat /\ DOMAIN queue \subseteq Nat
       /\ Tail(queue) \in Seq(Rule) /\ 1 \in DOMAIN queue /\ queue[1] = h
  BY <1>1, <1>3 DEF OrderTypeOK
<1>15. Queued' = (Queued \ {h}) \cup ready
  <2>1. {Tail(queue)[i] : i \in DOMAIN Tail(queue)} = Queued \ {h}
    <3> DEFINE V == {Tail(queue)[i] : i \in DOMAIN Tail(queue)}
    <3>1. \A x : x \in Queued <=> \E i \in DOMAIN queue : queue[i] = x  BY DEF Queued
    <3>2. \A x : x \in V <=> \E i \in DOMAIN Tail(queue) : Tail(queue)[i] = x
      OBVIOUS
    <3> HIDE DEF V
    <3>3. ASSUME NEW x \in V PROVE x \in Queued \ {h}
      <4>1. PICK i \in DOMAIN Tail(queue) : Tail(queue)[i] = x  BY <3>2, <3>3
      <4>2. i + 1 \in DOMAIN queue /\ queue[i + 1] = x /\ i \in Nat /\ i # 0
        <5>1. Tail(queue) \in Seq(Rule)  BY <1>14
        <5>2. QED  BY <4>1, <5>1, <1>14
      <4>3. i + 1 # 1  BY <4>2
      <4>4. x # h  BY <4>2, <4>3, <1>14, <1>3 DEF EachRuleOnce
      <4>5. QED  BY <4>2, <4>4, <3>1
    <3>4. ASSUME NEW x \in Queued \ {h} PROVE x \in V
      <4>1. PICK i \in DOMAIN queue : queue[i] = x  BY <3>1, <3>4
      <4>2. i # 1  BY <4>1, <3>4, <1>14
      <4>3. QED  BY <4>1, <4>2, <3>2, <1>14
    <3>5. V = Queued \ {h}  BY <3>3, <3>4
    <3>6. QED  BY <3>5 DEF V
  <2>2. Queued' = ElementsOf(Tail(queue)) \cup ElementsOf(s)
    <3> DEFINE t == Tail(queue)
    <3>1. t \in Seq(Rule) /\ s \in Seq(Rule) /\ queue' = t \o s  BY <1>2, <1>5, <1>14
    <3>2. Queued' = ElementsOf(queue')  BY DEF Queued, ElementsOf
    <3> HIDE DEF t
    <3>3. ElementsOf(t \o s) = ElementsOf(t) \cup ElementsOf(s)
      BY <3>1, ConcatElements
    <3>4. QED  BY <3>1, <3>2, <3>3 DEF t
  <2>3. QED  BY <2>1, <2>2, <1>5 DEF ElementsOf
<1>16. QueueIsFrontier'
  <2> SUFFICES ASSUME NEW d \in Rule
               PROVE  d \in Queued' <=> d \notin Placed' /\ indegree'[d] = 0
    <3>1. Queued' \subseteq Rule  BY <1>13 DEF Queued, OrderTypeOK
    <3>2. QED  BY <3>1 DEF QueueIsFrontier
  <2>1. indegree[d] \in Nat  BY <1>3 DEF OrderTypeOK
  <2>2. CASE d \in Dependents(h)
    <3>1. indegree'[d] = 0 <=> d \in ready  BY <2>1, <2>2, <1>1
    <3>2. d \notin Queued  BY <2>2, <1>4, <1>12 DEF QueueIsFrontier
    <3>3. d \notin Placed'
      <4>1. d # h  BY <2>2 DEF Dependents, Edge
      <4>2. d \notin Placed
        <5>1. SUFFICES ASSUME d \in Placed PROVE FALSE
          OBVIOUS
        <5>2. h \in Providers(d)  BY <1>10, <2>2
        <5>3. PICK i \in DOMAIN order : order[i] = d  BY <5>1 DEF Placed
        <5>4. PICK j \in 1..(i - 1) : order[j] = h
          BY <5>2, <5>3, <1>3 DEF DependenciesFirst
        <5>5. j \in DOMAIN order
          <6>1. order \in Seq(Rule)  BY <1>3 DEF OrderTypeOK
          <6>2. DOMAIN order = 1..Len(order) /\ Len(order) \in Nat  BY <6>1
          <6>3. QED  BY <6>2
        <5>6. QED  BY <5>4, <5>5, <1>6 DEF Placed
      <4>3. QED  BY <4>1, <4>2, <1>8
    <3>4. QED  BY <3>1, <3>2, <3>3, <1>15
  <2>3. CASE d \notin Dependents(h)
    <3>1. indegree'[d] = indegree[d]  BY <2>3, <1>1
    <3>2. QED  BY <2>3, <3>1, <1>4, <1>8, <1>15 DEF QueueIsFrontier
  <2>4. QED  BY <2>2, <2>3
<1>17. DependenciesFirst'
  <2> SUFFICES ASSUME NEW i \in DOMAIN order', NEW p \in Providers(order'[i])
               PROVE  \E j \in 1..(i - 1) : order'[j] = p
    <3>1. order' \in Seq(Rule)  BY <1>13 DEF OrderTypeOK
    <3>2. QED  BY <1>9, <3>1 DEF DependenciesFirst
  <2>1. /\ DOMAIN order = 1..Len(order) /\ Len(order) \in Nat
        /\ DOMAIN order' = 1..(Len(order) + 1)
        /\ order'[Len(order) + 1] = h
        /\ \A j \in 1..Len(order) : order'[j] = order[j]
    BY <1>1, <1>3, <1>6 DEF OrderTypeOK
  <2>2. CASE i = Len(order) + 1
    <3>1. p \in Placed  BY <2>1, <2>2, <1>7
    <3>2. QED  BY <2>1, <2>2, <3>1 DEF Placed
  <2>3. CASE i \in 1..Len(order)
    <3>1. \E j \in 1..(i - 1) : order[j] = p  BY <2>1, <2>3, <1>3 DEF DependenciesFirst
    <3>2. QED  BY <2>1, <2>3, <3>1
  <2>4. QED  BY <2>1, <2>2, <2>3
<1>18. CyclicNeverPlaced'
  <2> SUFFICES ASSUME NEW S \in SUBSET Rule, \A r \in S : Providers(r) \cap S # {}
               PROVE  Placed' \cap S = {}
    BY <1>9 DEF CyclicNeverPlaced
  <2>1. Placed \cap S = {}  BY <1>3 DEF CyclicNeverPlaced
  <2>2. h \notin S  BY <1>7, <2>1
  <2>3. QED  BY <2>1, <2>2, <1>8
<1>19. EachRuleOnce'
  <2>1. \A i, j \in DOMAIN order' : order'[i] = order'[j] => i = j
    <3>1. /\ DOMAIN order' = 1..(Len(order) + 1) /\ Len(order) \in Nat
          /\ order'[Len(order) + 1] = h
          /\ \A j \in 1..Len(order) : j \in DOMAIN order /\ order'[j] = order[j]
      BY <1>1, <1>3, <1>6 DEF OrderTypeOK
    <3>2. \A j \in 1..Len(order) : order'[j] # h  BY <3>1, <1>6 DEF Placed
    <3>3. \A i, j \in 1..Len(order) : order'[i] = order'[j] => i = j
      BY <3>1, <1>3 DEF EachRuleOnce
    <3>4. QED  BY <3>1, <3>2, <3>3
  <2>2. \A i, j \in DOMAIN queue' : queue'[i] = queue'[j] => i = j
    <3> DEFINE t == Tail(queue)
    <3>1. t \in Seq(Rule) /\ s \in Seq(Rule) /\ queue' = t \o s  BY <1>2, <1>5, <1>14
    <3>2. \A i, j \in DOMAIN t : t[i] = t[j] => i = j
      <4>1. SUFFICES ASSUME NEW i \in DOMAIN t, NEW j \in DOMAIN t, t[i] = t[j] PROVE i = j
        OBVIOUS
      <4>2. queue[i + 1] = queue[j + 1] /\ i + 1 \in DOMAIN queue /\ j + 1 \in DOMAIN queue
        BY <4>1, <1>14
      <4>3. i + 1 = j + 1  BY <4>2, <1>3 DEF EachRuleOnce
      <4>4. QED  BY <4>3, <1>14
    <3>3. \A i \in DOMAIN t, j \in DOMAIN s : t[i] # s[j]
      <4>1. \A i \in DOMAIN t : t[i] \in Queued  BY <1>14 DEF Queued
      <4>2. \A j \in DOMAIN s : s[j] \in ready  BY <1>5
      <4>3. \A d \in ready : d \notin Queued  BY <1>4, <1>12 DEF QueueIsFrontier
      <4>4. QED  BY <4>1, <4>2, <4>3
    <3>4. \A i, j \in DOMAIN s : s[i] = s[j] => i = j  BY <1>5
    <3> HIDE DEF t
    <3>5. QED  BY <3>1, <3>2, <3>3, <3>4, ConcatElements
  <2>3. Placed' \cap Queued' = {}  BY <1>16 DEF QueueIsFrontier
  <2>4. QED  BY <2>1, <2>2, <2>3 DEF EachRuleOnce, Placed, Queued
<1>20. QED
  BY <1>1, <1>11, <1>13, <1>16, <1>17, <1>18, <1>19 DEF OrderInv

\* The loop ends with an empty queue: the order is complete or the rest cyclic.
LEMMA FinishSortInv == OrderInv /\ FinishSort => OrderInv'
<1> SUFFICES ASSUME OrderInv, FinishSort PROVE OrderInv'
  OBVIOUS
<1>1. /\ sortPc = "kahn" /\ queue = <<>>
      /\ sortPc' = IF Len(order) = Len(RuleList) THEN "sorted" ELSE "cycle"
      /\ UNCHANGED <<requires, provides, indegree, queue, order>>
  BY DEF FinishSort, Finish
<1>2. Placed = Rule <=> Len(order) = Len(RuleList)
  BY OrderCoversIffLong DEF OrderInv
<1>3. OrderTypeOK' /\ EachRuleOnce' /\ DependenciesFirst' /\ CyclicNeverPlaced'
  BY <1>1, SameGraphSameFacts DEF OrderInv, OrderTypeOK
<1>4. DegreesCount' /\ QueueIsFrontier'  BY <1>1, SameGraphSameFacts DEF OrderInv
<1>5. Placed' = Placed  BY <1>1, SameGraphSameFacts
<1>6. QED  BY <1>1, <1>2, <1>3, <1>4, <1>5 DEF OrderInv

LEMMA StutterOrderInv == OrderInv /\ UNCHANGED orderVars => OrderInv'
BY SameGraphSameFacts DEF OrderInv, orderVars, OrderTypeOK

LEMMA StepOrderInv == OrderInv /\ [OrderNext]_orderVars => OrderInv'
BY BuildGraphInv, PlaceRuleInv, FinishSortInv, StutterOrderInv DEF OrderNext

\* When the loop stops short, the rules left over wait for each other.
LEMMA InvGivesCycle == OrderInv => CycleIsReal
<1> SUFFICES ASSUME OrderInv, sortPc = "cycle"
             PROVE  \E S \in SUBSET Rule : S # {} /\ \A r \in S : Providers(r) \cap S # {}
  BY DEF CycleIsReal
<1> DEFINE rest == Rule \ Placed
<1>1. rest # {}  BY DEF OrderInv, OrderTypeOK, Placed
<1>2. DegreesCount /\ QueueIsFrontier /\ Queued = {}  BY DEF OrderInv, Queued
<1>3. \A r \in rest : indegree[r] # 0  BY <1>2 DEF QueueIsFrontier
<1>4. \A r \in rest : Providers(r) \cap rest # {}
  BY <1>2, <1>3, ProvidersFinite DEF DegreesCount, Providers
<1>5. QED  BY <1>1, <1>4

-----------------------------------------------------------------------------
LEMMA OrderInvariant == OrderSpec => []OrderInv
BY InitOrderInv, StepOrderInv, PTL DEF OrderSpec

\* The sort's variables keep their types: no in-degree goes below zero.
THEOREM TypeCorrect == OrderSpec => []OrderTypeOK
<1>1. OrderInv => OrderTypeOK  BY DEF OrderInv
<1>2. QED  BY <1>1, OrderInvariant, PTL

\* The order never places a rule before one that provides what it requires.
THEOREM OrderIsTopological == OrderSpec => []DependenciesFirst
<1>1. OrderInv => DependenciesFirst  BY DEF OrderInv
<1>2. QED  BY <1>1, OrderInvariant, PTL

\* No rule is placed or queued twice, whatever the order of the sets.
THEOREM PlacedOnce == OrderSpec => []EachRuleOnce
<1>1. OrderInv => EachRuleOnce  BY DEF OrderInv
<1>2. QED  BY <1>1, OrderInvariant, PTL

\* No rule of a cycle is ever placed.
THEOREM CyclesAreRefused == OrderSpec => []CyclicNeverPlaced
<1>1. OrderInv => CyclicNeverPlaced  BY DEF OrderInv
<1>2. QED  BY <1>1, OrderInvariant, PTL

\* build_rule_dag returns complete orders only.
THEOREM AcceptedIsComplete == OrderSpec => []SortedIsComplete
<1>1. OrderInv => SortedIsComplete  BY DEF OrderInv, SortedIsComplete
<1>2. QED  BY <1>1, OrderInvariant, PTL

\* It raises CycleDetectedError only for a rule set that has a cycle.
THEOREM RefusedIsCyclic == OrderSpec => []CycleIsReal
<1>1. QED  BY InvGivesCycle, OrderInvariant, PTL
=============================================================================
