-------------------------- MODULE UsageQuotaProofs --------------------------
(***************************************************************************)
(* For any number of workers, any limits and any day: the counters never   *)
(* exceed what was used, and are exact while requests come one by one.     *)
(***************************************************************************)
EXTENDS UsageQuota, WellFoundedInduction, TLAPS

\* What an idle worker and an increment in progress look like.
Shape ==
  \A w \in Worker :
    /\ request[w] = "none" => column[w] = "none" /\ wrote[w] = Zero
    /\ column[w] \notin Columns => seen[w] = NotRead

\* A value read, and then written, counts no use that was not committed before
\* it was read.
ReadsAreOld ==
  \A w \in Worker :
    /\ seen[w] # NotRead => seen[w].value <= done[seen[w].day][column[w]]
    /\ \A d \in Days, c \in Columns : wrote[w][d][c] <= done[d][c] + 1

Charge == TypeOK /\ Shape /\ ReadsAreOld /\ NeverOvercharged

-----------------------------------------------------------------------------
LEMMA PlansIsColumn == "plans" \in Columns
BY DEF Columns

LEMMA ZeroType == Zero \in Counters
BY DEF Zero, Counters

LEMMA NotReadType == NotRead \in Selected
BY UsageAssumption DEF NotRead, Selected, Days

LEMMA ReadType == \A x \in Selected : x.day \in Days /\ x.value \in Nat
BY DEF Selected

LEMMA ValueType == \A f \in Counters : \A d \in Days, c \in Columns : f[d][c] \in Nat
BY DEF Counters

LEMMA LocksStay == OneHolder /\ UNCHANGED wrote => OneHolder'
BY DEF OneHolder, Holds

LEMMA InitCharge == Init => Charge
<1> SUFFICES ASSUME Init PROVE Charge
  OBVIOUS
<1> USE ZeroType, UsageAssumption DEF Init
<1>1. \A w \in Worker, d \in Days, c \in Columns : wrote[w][d][c] = 0
  BY DEF Zero
<1>2. 0 \in Days
  BY DEF Days
<1>3. TypeOK
  BY <1>1, <1>2, NotReadType DEF TypeOK, OneHolder, Holds
<1>4. Shape
  BY DEF Shape
<1>5. ReadsAreOld /\ NeverOvercharged
  BY <1>1 DEF ReadsAreOld, NeverOvercharged, Zero
<1> QED BY <1>3, <1>4, <1>5 DEF Charge

\* The session of one worker ends: what is true of the others stays.
LEMMA EndFacts ==
  ASSUME Charge, NEW w \in Worker, End(w), wrote' = [wrote EXCEPT ![w] = Zero]
  PROVE  /\ Shape'
         /\ day' \in Days /\ limits' \in Limits /\ overlap' \in BOOLEAN
         /\ request' \in [Worker -> Kinds \cup {"none"}]
         /\ column' \in [Worker -> Columns \cup {"limit", "none"}]
         /\ seen' \in [Worker -> Selected] /\ wrote' \in [Worker -> Counters]
         /\ OneHolder'
<1>1. TypeOK /\ Shape
  BY DEF Charge
<1>3. \A u \in Worker : wrote'[u] = IF u = w THEN Zero ELSE wrote[u]
  BY <1>1 DEF TypeOK
<1>4. OneHolder'
  BY <1>1, <1>3 DEF OneHolder, Holds, Zero, TypeOK
<1>5. Shape'
  BY <1>1, <1>3 DEF Shape, End, TypeOK
<1> QED BY <1>1, <1>4, <1>5, ZeroType, NotReadType DEF End, TypeOK

LEMMA ChargeStep == Charge /\ [Next]_vars => Charge'
<1> SUFFICES ASSUME Charge, [Next]_vars PROVE Charge'
  OBVIOUS
<1>0. TypeOK /\ Shape /\ ReadsAreOld /\ NeverOvercharged
  BY DEF Charge
<1>1. ASSUME NEW w \in Worker, NEW kind \in Kinds, Accept(w, kind) PROVE Charge'
  <2>1. FirstColumn(kind) \in Columns \cup {"limit"} /\ kind # "none"
    BY DEF FirstColumn, Columns, Kinds
  <2>2. OneHolder'
    BY <1>0, <1>1, LocksStay DEF Accept, TypeOK
  <2>3. TypeOK'
    BY <1>0, <1>1, <2>1, <2>2 DEF Accept, TypeOK
  <2>4. Shape'
    BY <1>0, <1>1, <2>1 DEF Accept, TypeOK, Shape, Columns
  <2>5. seen[w] = NotRead /\ UNCHANGED <<row, seen, wrote, done>>
        /\ \A u \in Worker \ {w} : column'[u] = column[u]
    BY <1>0, <1>1 DEF Accept, TypeOK, Shape, Columns
  <2>6. ReadsAreOld' /\ NeverOvercharged'
    BY <1>0, <2>5 DEF ReadsAreOld, NeverOvercharged
  <2> QED BY <2>3, <2>4, <2>6 DEF Charge
<1>2. ASSUME NEW w \in Worker, Select(w) PROVE Charge'
  <2> DEFINE s == [day |-> day, value |-> row[day][column[w]],
        status |-> IF Recorded(day) \/ Holds(w, day) THEN "found" ELSE "absent"]
  <2>1. column[w] \in Columns /\ day \in Days
    BY <1>0, <1>2 DEF Select, TypeOK
  <2>2. row[day][column[w]] \in Nat
    BY <1>0, <2>1, ValueType DEF TypeOK
  <2>3. s \in Selected /\ s.day = day /\ s.value = row[day][column[w]]
    BY <2>1, <2>2 DEF Selected
  <2>4. seen' = [seen EXCEPT ![w] = s]
        /\ UNCHANGED <<limits, day, row, request, column, wrote, done, overlap>>
    BY <1>2 DEF Select
  <2> HIDE DEF s
  <2>5. OneHolder'
    BY <1>0, <2>4, LocksStay DEF TypeOK
  <2>6. TypeOK'
    BY <1>0, <2>3, <2>4, <2>5 DEF TypeOK
  <2>7. \A u \in Worker : seen'[u] = IF u = w THEN s ELSE seen[u]
    BY <1>0, <2>4 DEF TypeOK
  <2>8. Shape'
    BY <1>0, <2>1, <2>4, <2>7 DEF Shape, Columns
  <2>9. row[day][column[w]] <= done[day][column[w]]
    BY <1>0, <2>1 DEF NeverOvercharged
  <2>10. ReadsAreOld' /\ NeverOvercharged'
    BY <1>0, <2>3, <2>4, <2>7, <2>9 DEF ReadsAreOld, NeverOvercharged
  <2> QED BY <2>6, <2>8, <2>10 DEF Charge
<1>3. ASSUME NEW w \in Worker, Increment(w) PROVE Charge'
  <2> DEFINE e == seen[w].day
             k == column[w]
  <2>1. e \in Days /\ k \in Columns /\ seen[w].value \in Nat
    BY <1>0, <1>3, ReadType DEF Increment, TypeOK, Shape
  <2>2. \A u \in Worker, d \in Days, c \in Columns :
          wrote'[u][d][c] = IF u = w /\ d = e /\ c = k THEN seen[w].value + 1
                            ELSE wrote[u][d][c]
    BY <1>0, <1>3, <2>1 DEF Increment, TypeOK, Counters
  <2>3. wrote' \in [Worker -> Counters]
    BY <1>0, <1>3, <2>1 DEF Increment, TypeOK, Counters
  <2>4. OneHolder'
    <3>1. \A u \in Worker, d \in Days : Holds(u, d)' => Holds(u, d) \/ (u = w /\ d = e)
      BY <2>2 DEF Holds
    <3>2. \A u \in Worker \ {w} : ~Holds(u, e)
      BY <1>3 DEF Increment
    <3>3. \A d \in Days, u, v \in Worker : Holds(u, d) /\ Holds(v, d) => u = v
      BY <1>0 DEF TypeOK, OneHolder
    <3>4. \A d \in Days, u, v \in Worker : Holds(u, d)' /\ Holds(v, d)' => u = v
      BY <3>1, <3>2, <3>3
    <3> QED BY <3>4 DEF OneHolder
  <2>5. NextColumn(request[w], k) \in Columns \cup {"none"}
    BY DEF NextColumn, Columns
  <2>6. TypeOK'
    BY <1>0, <1>3, <2>3, <2>4, <2>5, NotReadType DEF Increment, TypeOK
  <2>7. Shape'
    <3>1. request[w] # "none"
      BY <1>0, <1>3 DEF Increment, Shape, Columns
    <3> QED BY <1>0, <1>3, <3>1 DEF Increment, Shape, TypeOK
  <2>8. ReadsAreOld' /\ NeverOvercharged'
    <3>1. seen[w].value <= done[e][k]
      BY <1>0, <1>3 DEF Increment, ReadsAreOld
    <3>2. \A u \in Worker : seen'[u] = (IF u = w THEN NotRead ELSE seen[u])
                            /\ (u # w => column'[u] = column[u])
      BY <1>0, <1>3 DEF Increment, TypeOK
    <3>3. UNCHANGED <<row, done>>
      BY <1>3 DEF Increment
    <3>4. \A u \in Worker, d \in Days, c \in Columns : wrote'[u][d][c] <= done[d][c] + 1
      <4> TAKE u \in Worker, d \in Days, c \in Columns
      <4>1. CASE u = w /\ d = e /\ c = k
        <5>1. wrote'[u][d][c] = seen[w].value + 1 /\ done[d][c] = done[e][k]
          BY <2>2, <4>1
        <5>2. done[e][k] \in Nat
          BY <1>0, <2>1, ValueType DEF TypeOK
        <5> HIDE DEF e, k
        <5> QED BY <2>1, <3>1, <5>1, <5>2
      <4>2. CASE ~(u = w /\ d = e /\ c = k)
        BY <1>0, <2>2, <4>2 DEF ReadsAreOld
      <4> QED BY <4>1, <4>2
    <3> QED BY <1>0, <3>2, <3>3, <3>4 DEF ReadsAreOld, NeverOvercharged
  <2> QED BY <2>6, <2>7, <2>8 DEF Charge
<1>4. ASSUME NEW w \in Worker, Commit(w) PROVE Charge'
  <2>1. End(w) /\ wrote' = [wrote EXCEPT ![w] = Zero]
    BY <1>4 DEF Commit
  <2>2. \A d \in Days, c \in Columns :
          /\ row'[d][c] = IF wrote[w][d][c] # 0 THEN wrote[w][d][c] ELSE row[d][c]
          /\ done'[d][c] = done[d][c] + (IF wrote[w][d][c] # 0 THEN 1 ELSE 0)
          /\ wrote[w][d][c] \in Nat /\ row[d][c] \in Nat /\ done[d][c] \in Nat
    BY <1>0, <1>4, ValueType DEF Commit, Committed, Counted, TypeOK
  <2>3. row' \in Counters /\ done' \in Counters
    BY <1>0, <1>4, ValueType DEF Commit, Committed, Counted, Counters, TypeOK
  <2>4. TypeOK' /\ Shape'
    BY <2>1, <2>3, EndFacts DEF TypeOK
  <2>5. \A d \in Days, c \in Columns : done[d][c] <= done'[d][c] /\ done'[d][c] \in Nat
    BY <2>2
  <2>6. NeverOvercharged'
    BY <1>0, <2>2 DEF NeverOvercharged, ReadsAreOld
  <2>7. ReadsAreOld'
    <3>1. \A u \in Worker : /\ seen'[u] = (IF u = w THEN NotRead ELSE seen[u])
                            /\ wrote'[u] = (IF u = w THEN Zero ELSE wrote[u])
                            /\ u # w => column'[u] = column[u]
      BY <1>0, <2>1 DEF End, TypeOK
    <3>2. \A u \in Worker, d \in Days, c \in Columns : wrote'[u][d][c] <= done'[d][c] + 1
      <4> TAKE u \in Worker, d \in Days, c \in Columns
      <4>1. CASE u = w
        BY <2>5, <3>1, <4>1 DEF Zero
      <4>2. CASE u # w
        <5>1. wrote'[u][d][c] = wrote[u][d][c] /\ wrote[u][d][c] \in Nat
          BY <1>0, <3>1, <4>2, ValueType DEF TypeOK
        <5>2. wrote[u][d][c] <= done[d][c] + 1 /\ done[d][c] \in Nat
          BY <1>0, ValueType DEF ReadsAreOld, TypeOK
        <5> QED BY <2>5, <5>1, <5>2
      <4> QED BY <4>1, <4>2
    <3>3. \A u \in Worker : seen'[u] # NotRead =>
            seen'[u].value <= done'[seen'[u].day][column'[u]]
      <4> TAKE u \in Worker
      <4> HAVE seen'[u] # NotRead
      <4>1. u # w /\ seen'[u] = seen[u] /\ column'[u] = column[u]
        BY <3>1
      <4>2. seen[u].value \in Nat /\ seen[u].day \in Days /\ column[u] \in Columns
        BY <1>0, <4>1, ReadType DEF TypeOK, Shape
      <4>3. seen[u].value <= done[seen[u].day][column[u]]
        BY <1>0, <4>1 DEF ReadsAreOld
      <4> QED BY <2>2, <2>5, <4>1, <4>2, <4>3
    <3> QED BY <3>2, <3>3 DEF ReadsAreOld
  <2> QED BY <2>4, <2>6, <2>7 DEF Charge
<1>5. ASSUME NEW w \in Worker, Rollback(w) PROVE Charge'
  <2>1. End(w) /\ wrote' = [wrote EXCEPT ![w] = Zero] /\ UNCHANGED <<row, done>>
    BY <1>5 DEF Rollback
  <2>2. TypeOK' /\ Shape'
    BY <1>0, <2>1, EndFacts DEF TypeOK
  <2>3. \A u \in Worker : /\ seen'[u] = (IF u = w THEN NotRead ELSE seen[u])
                          /\ wrote'[u] = (IF u = w THEN Zero ELSE wrote[u])
                          /\ u # w => column'[u] = column[u]
    BY <1>0, <2>1 DEF End, TypeOK
  <2>4. \A u \in Worker, d \in Days, c \in Columns : wrote'[u][d][c] <= done[d][c] + 1
    <3> TAKE u \in Worker, d \in Days, c \in Columns
    <3>1. done[d][c] \in Nat
      BY <1>0, ValueType DEF TypeOK
    <3>2. CASE u = w
      BY <2>3, <3>1, <3>2 DEF Zero
    <3>3. CASE u # w
      BY <1>0, <2>3, <3>3 DEF ReadsAreOld
    <3> QED BY <3>2, <3>3
  <2>5. ReadsAreOld' /\ NeverOvercharged'
    BY <1>0, <2>1, <2>3, <2>4 DEF ReadsAreOld, NeverOvercharged
  <2> QED BY <2>2, <2>5 DEF Charge
<1>6. CASE NextDay
  <2>1. day' \in Days
    BY <1>0, <1>6, UsageAssumption DEF NextDay, TypeOK, Days
  <2>2. OneHolder'
    BY <1>0, <1>6, LocksStay DEF NextDay, TypeOK
  <2>3. TypeOK'
    BY <1>0, <1>6, <2>1, <2>2 DEF NextDay, TypeOK
  <2> QED BY <1>0, <1>6, <2>3 DEF NextDay, Charge, Shape, ReadsAreOld, NeverOvercharged
<1>7. CASE UNCHANGED vars
  <2>1. TypeOK'
    BY <1>0, <1>7, LocksStay DEF vars, TypeOK
  <2> QED BY <1>0, <1>7, <2>1 DEF vars, Charge, Shape, ReadsAreOld, NeverOvercharged
<1>8. ASSUME NEW w \in Worker, CheckCalls(w) PROVE Charge'
  <2>1. CASE Rollback(w)
    BY <1>5, <2>1
  <2>2. CASE ~Rollback(w)
    <3>1. /\ UNCHANGED <<limits, day, row, request, seen, wrote, done, overlap>>
          /\ column[w] = "limit" /\ column' = [column EXCEPT ![w] = "plans"]
      BY <1>8, <2>2 DEF CheckCalls
    <3>2. seen[w] = NotRead
      BY <1>0, <3>1 DEF Shape, Columns
    <3>3. TypeOK'
      BY <1>0, <3>1, LocksStay, PlansIsColumn DEF TypeOK
    <3>4. request[w] # "none"
      BY <1>0, <3>1 DEF Shape
    <3>5. \A u \in Worker : column'[u] = IF u = w THEN "plans" ELSE column[u]
      BY <1>0, <3>1 DEF TypeOK
    <3>6. Shape'
      BY <1>0, <3>1, <3>2, <3>4, <3>5 DEF Shape
    <3>7. ReadsAreOld' /\ NeverOvercharged'
      BY <1>0, <3>1, <3>2, <3>5 DEF ReadsAreOld, NeverOvercharged
    <3> QED BY <3>3, <3>6, <3>7 DEF Charge
  <2> QED BY <2>1, <2>2
<1> QED BY <1>1, <1>2, <1>3, <1>4, <1>5, <1>6, <1>7, <1>8 DEF Next, Serve, Collide, Fail

-----------------------------------------------------------------------------
\* Nothing is counted for a day that has not come.
Future ==
  /\ \A d \in Days, c \in Columns : d > day =>
       done[d][c] = 0 /\ \A w \in Worker : wrote[w][d][c] = 0
  /\ \A w \in Worker : seen[w].day <= day

\* Of requests that come one by one: what is read and written is exact.
OneByOne ==
  /\ \A u, w \in Worker : request[u] # "none" /\ request[w] # "none" => u = w
  /\ \A d \in Days, c \in Columns : row[d][c] = done[d][c]
  /\ \A w \in Worker : seen[w] # NotRead =>
       seen[w].value = done[seen[w].day][column[w]]
  /\ \A w \in Worker, d \in Days, c \in Columns :
       wrote[w][d][c] # 0 => wrote[w][d][c] = done[d][c] + 1

\* And the plan about to be counted has room below the limit.
RoomFor(w) ==
  /\ column[w] \in {"limit", "plans"} /\ seen[w] = NotRead => done[day]["plans"] < limits.plans
  /\ column[w] = "plans" /\ seen[w] # NotRead =>
       done[seen[w].day]["plans"] < limits.plans
  /\ \A d \in Days : wrote[w][d]["plans"] # 0 => done[d]["plans"] < limits.plans

Room ==
  limits.plans # 0 =>
    /\ \A d \in Days : done[d]["plans"] <= limits.plans
    /\ \A w \in Worker : RoomFor(w)

Exact == Future /\ (~overlap => OneByOne /\ Room)

LEMMA LimitType == TypeOK => limits.plans \in Nat
BY UsageAssumption DEF TypeOK

LEMMA InitExact == Init => Exact
<1> SUFFICES ASSUME Init PROVE Exact
  OBVIOUS
<1>1. /\ \A d \in Days, c \in Columns : row[d][c] = 0 /\ done[d][c] = 0
      /\ \A w \in Worker, d \in Days, c \in Columns : wrote[w][d][c] = 0
      /\ \A w \in Worker : seen[w] = NotRead /\ seen[w].day = 0 /\ column[w] = "none"
      /\ day = 0 /\ \A w \in Worker : request[w] = "none"
  BY DEF Init, Zero, NotRead
<1>2. limits.plans \in Nat
  BY UsageAssumption DEF Init
<1>3. Future
  BY <1>1 DEF Future
<1>4. OneByOne
  BY <1>1 DEF OneByOne
<1>5. Room
  BY <1>1, <1>2, PlansIsColumn DEF Room, RoomFor
<1> QED BY <1>3, <1>4, <1>5 DEF Exact

\* What the end of a session leaves as it was.
LEMMA EndedSession ==
  \A w \in Worker : Charge /\ End(w) /\ wrote' = [wrote EXCEPT ![w] = Zero] =>
    /\ limits' = limits /\ day' = day /\ overlap' = overlap
    /\ request'[w] = "none" /\ column'[w] = "none" /\ seen'[w] = NotRead
    /\ \A d \in Days, c \in Columns : wrote'[w][d][c] = 0
    /\ \A u \in Worker \ {w} : /\ request'[u] = request[u] /\ column'[u] = column[u]
                              /\ seen'[u] = seen[u] /\ wrote'[u] = wrote[u]
BY DEF Charge, TypeOK, End, Zero

\* While a request is alone, the others are idle.
LEMMA OthersIdle ==
  \A w \in Worker : Charge /\ OneByOne /\ request[w] # "none" =>
    \A u \in Worker \ {w} :
      /\ request[u] = "none" /\ column[u] = "none" /\ seen[u] = NotRead
      /\ \A d \in Days, c \in Columns : wrote[u][d][c] = 0
BY DEF Charge, Shape, OneByOne, Zero, Columns

LEMMA FutureStep == Charge /\ Future /\ [Next]_vars => Future'
<1> SUFFICES ASSUME Charge, Future, [Next]_vars PROVE Future'
  OBVIOUS
<1>0. TypeOK /\ Shape /\ NotRead.day = 0 /\ day \in Nat
  BY DEF Charge, NotRead, TypeOK, Days
<1>1. ASSUME NEW w \in Worker, NEW kind \in Kinds, Accept(w, kind) PROVE Future'
  BY <1>1 DEF Accept, Future
<1>2. ASSUME NEW w \in Worker, Select(w) PROVE Future'
  <2>1. \A u \in Worker : seen'[u].day <= day
    BY <1>0, <1>2 DEF Select, Future, TypeOK
  <2> QED BY <1>2, <2>1 DEF Select, Future
<1>3. ASSUME NEW w \in Worker, Increment(w) PROVE Future'
  <2>1. seen[w].day <= day /\ seen[w].day \in Nat
    BY <1>0, ReadType DEF Future, TypeOK, Days
  <2>2. \A u \in Worker, d \in Days, c \in Columns :
          d # seen[w].day => wrote'[u][d][c] = wrote[u][d][c]
    BY <1>0, <1>3 DEF Increment, TypeOK, Counters
  <2>3. \A u \in Worker : seen'[u].day <= day
    BY <1>0, <1>3 DEF Increment, Future, TypeOK
  <2>4. UNCHANGED <<day, done>>
    BY <1>3 DEF Increment
  <2> QED BY <1>0, <2>1, <2>2, <2>3, <2>4 DEF Future, Days
<1>4. ASSUME NEW w \in Worker, End(w), wrote' = [wrote EXCEPT ![w] = Zero],
             done' = done \/ done' = Counted(w)
      PROVE  Future'
  <2>1. \A d \in Days, c \in Columns : d > day => done'[d][c] = 0
    <3> TAKE d \in Days, c \in Columns
    <3> HAVE d > day
    <3>1. done[d][c] = 0 /\ wrote[w][d][c] = 0
      BY DEF Future
    <3>2. CASE done' = Counted(w)
      <4>1. done'[d][c] = done[d][c] + (IF wrote[w][d][c] # 0 THEN 1 ELSE 0)
        BY <3>2 DEF Counted
      <4> QED BY <3>1, <4>1
    <3> QED BY <1>4, <3>1, <3>2
  <2>0. /\ seen'[w] = NotRead
        /\ \A d \in Days, c \in Columns : wrote'[w][d][c] = 0
        /\ \A u \in Worker \ {w} : seen'[u] = seen[u] /\ wrote'[u] = wrote[u]
    <3>1. Charge /\ End(w) /\ wrote' = [wrote EXCEPT ![w] = Zero]
      BY <1>4
    <3> QED BY <3>1, EndedSession
  <2>2. \A u \in Worker : seen'[u].day <= day
    BY <1>0, <2>0 DEF Future
  <2>3. \A u \in Worker, d \in Days, c \in Columns : d > day => wrote'[u][d][c] = 0
    BY <2>0 DEF Future
  <2>4. day' = day
    BY <1>4 DEF End
  <2> QED BY <2>1, <2>2, <2>3, <2>4 DEF Future
<1>5. CASE NextDay
  <2>1. \A u \in Worker : seen[u].day \in Nat
    BY <1>0, ReadType DEF TypeOK, Days
  <2> QED BY <1>0, <1>5, <2>1 DEF NextDay, Future, Days
<1>6. CASE UNCHANGED vars
  BY <1>6 DEF vars, Future
<1>7. ASSUME NEW w \in Worker, CheckCalls(w) PROVE Future'
  <2>1. CASE Rollback(w)
    BY <1>4, <2>1 DEF Rollback
  <2>2. CASE UNCHANGED <<limits, day, row, request, seen, wrote, done, overlap>>
    BY <2>2 DEF Future
  <2> QED BY <1>7, <2>1, <2>2 DEF CheckCalls
<1> QED BY <1>1, <1>2, <1>3, <1>4, <1>5, <1>6, <1>7
    DEF Next, Serve, Collide, Fail, Commit, Rollback

LEMMA ExactStep == Charge /\ Exact /\ [Next]_vars => Exact'
<1> SUFFICES ASSUME Charge, Exact, [Next]_vars, ~overlap' PROVE OneByOne' /\ Room'
  BY FutureStep DEF Exact
<1>0. TypeOK /\ Shape /\ limits.plans \in Nat /\ "plans" \in Columns /\ Future
  BY LimitType, PlansIsColumn DEF Charge, Exact
<1>o. ~overlap
  BY DEF Next, vars, NextDay, Accept, Serve, CheckCalls, Select, Increment, Collide,
         Commit, Fail, Rollback, End
<1>e. OneByOne /\ Room
  BY <1>o DEF Exact
<1>1. ASSUME NEW w \in Worker, NEW kind \in Kinds, Accept(w, kind)
      PROVE  OneByOne' /\ Room'
  <2>1. \A u \in Worker \ {w} : request[u] = "none"
    BY <1>1 DEF Accept
  <2>2. /\ UNCHANGED <<limits, day, row, seen, wrote, done>>
        /\ seen[w] = NotRead /\ column[w] = "none"
        /\ request' = [request EXCEPT ![w] = kind]
        /\ column' = [column EXCEPT ![w] = FirstColumn(kind)]
    BY <1>0, <1>1 DEF Accept, Shape, Columns
  <2>3. OneByOne'
    BY <1>0, <1>e, <2>1, <2>2 DEF OneByOne, TypeOK
  <2>4. FirstColumn(kind) \in {"limit", "plans"} /\ limits.plans # 0 =>
          done[day]["plans"] < limits.plans
    <3>1. row[day]["plans"] = done[day]["plans"] /\ done[day]["plans"] \in Nat
      BY <1>0, <1>e, ValueType DEF OneByOne, TypeOK
    <3>2. FirstColumn(kind) \in {"limit", "plans"} => kind # "list"
      BY DEF FirstColumn
    <3>3. ~OverPlanLimit(kind)
      BY <1>1 DEF Accept
    <3> QED BY <1>0, <3>1, <3>2, <3>3 DEF OverPlanLimit
  <2>5. \A u \in Worker : column'[u] = IF u = w THEN FirstColumn(kind) ELSE column[u]
    BY <1>0, <2>2 DEF TypeOK
  <2>6. Room'
    BY <1>e, <2>2, <2>4, <2>5 DEF Room, RoomFor
  <2> QED BY <2>3, <2>6
<1>2. ASSUME NEW w \in Worker, Select(w) PROVE OneByOne' /\ Room'
  <2>1. column[w] \in Columns /\ day \in Days
    BY <1>0, <1>2 DEF Select, TypeOK
  <2>2. /\ seen'[w].day = day /\ seen'[w].value = row[day][column[w]]
        /\ seen'[w] # NotRead
        /\ \A u \in Worker \ {w} : seen'[u] = seen[u]
    BY <1>0, <1>2 DEF Select, TypeOK, NotRead
  <2>3. UNCHANGED <<limits, day, row, request, column, wrote, done>> /\ seen[w] = NotRead
    BY <1>2 DEF Select
  <2>4. OneByOne'
    BY <1>e, <2>1, <2>2, <2>3 DEF OneByOne
  <2>5. Room'
    BY <1>e, <2>2, <2>3 DEF Room, RoomFor
  <2> QED BY <2>4, <2>5
<1>3. ASSUME NEW w \in Worker, Increment(w) PROVE OneByOne' /\ Room'
  <2> DEFINE e == seen[w].day
             k == column[w]
  <2>1. e \in Days /\ k \in Columns /\ seen[w] # NotRead
    BY <1>0, <1>3, ReadType DEF Increment, TypeOK, Shape
  <2>2. \A u \in Worker, d \in Days, c \in Columns :
          wrote'[u][d][c] = IF u = w /\ d = e /\ c = k THEN seen[w].value + 1
                            ELSE wrote[u][d][c]
    BY <1>0, <1>3, <2>1 DEF Increment, TypeOK, Counters
  <2>3. /\ UNCHANGED <<limits, day, row, request, done>>
        /\ seen'[w] = NotRead /\ column'[w] \notin {"limit", "plans"}
        /\ \A u \in Worker \ {w} : seen'[u] = seen[u] /\ column'[u] = column[u]
    BY <1>0, <1>3 DEF Increment, TypeOK, NextColumn
  <2>4. seen[w].value = done[e][k]
    BY <1>e, <2>1 DEF OneByOne
  <2>5. OneByOne'
    BY <1>e, <2>1, <2>2, <2>3, <2>4 DEF OneByOne
  <2>6. limits.plans # 0 /\ k = "plans" => done[e]["plans"] < limits.plans
    BY <1>e, <2>1 DEF Room, RoomFor
  <2>7. Room'
    BY <1>0, <1>e, <2>1, <2>2, <2>3, <2>6 DEF Room, RoomFor
  <2> QED BY <2>5, <2>7
<1>4. ASSUME NEW w \in Worker, Commit(w) PROVE OneByOne' /\ Room'
  <2>1. End(w) /\ wrote' = [wrote EXCEPT ![w] = Zero] /\ request[w] # "none"
    BY <1>4 DEF Commit
  <2>2. \A d \in Days, c \in Columns :
          /\ row'[d][c] = IF wrote[w][d][c] # 0 THEN wrote[w][d][c] ELSE row[d][c]
          /\ done'[d][c] = done[d][c] + (IF wrote[w][d][c] # 0 THEN 1 ELSE 0)
          /\ wrote[w][d][c] \in Nat /\ done[d][c] \in Nat
    BY <1>0, <1>4, ValueType DEF Commit, Committed, Counted, TypeOK
  <2>3. \A u \in Worker : /\ column'[u] = "none" /\ seen'[u] = NotRead
                          /\ request'[u] = "none"
                          /\ \A d \in Days, c \in Columns : wrote'[u][d][c] = 0
    <3> TAKE u \in Worker
    <3>1. CASE u = w
      BY <2>1, <3>1, EndedSession
    <3>2. CASE u # w
      <4>1. /\ request[u] = "none" /\ column[u] = "none" /\ seen[u] = NotRead
            /\ \A d \in Days, c \in Columns : wrote[u][d][c] = 0
        BY <1>e, <2>1, <3>2, OthersIdle
      <4>2. /\ request'[u] = request[u] /\ column'[u] = column[u]
            /\ seen'[u] = seen[u] /\ wrote'[u] = wrote[u]
        BY <2>1, <3>2, EndedSession
      <4> QED BY <4>1, <4>2
    <3> QED BY <3>1, <3>2
  <2>4. \A d \in Days, c \in Columns : row'[d][c] = done'[d][c]
    BY <1>e, <2>2 DEF OneByOne
  <2>5. OneByOne'
    BY <2>3, <2>4 DEF OneByOne
  <2>6. limits' = limits
    BY <2>1 DEF End
  <2>7. limits.plans # 0 => \A d \in Days : done'[d]["plans"] <= limits.plans
    BY <1>0, <1>e, <2>2 DEF Room, RoomFor
  <2>8. Room'
    BY <1>0, <2>3, <2>6, <2>7 DEF Room, RoomFor
  <2> QED BY <2>5, <2>8
<1>5. ASSUME NEW w \in Worker, Rollback(w) PROVE OneByOne' /\ Room'
  <2>1. End(w) /\ wrote' = [wrote EXCEPT ![w] = Zero] /\ UNCHANGED <<row, done>>
    BY <1>5 DEF Rollback
  <2>2. /\ limits' = limits /\ day' = day
        /\ request'[w] = "none" /\ column'[w] = "none" /\ seen'[w] = NotRead
        /\ \A d \in Days, c \in Columns : wrote'[w][d][c] = 0
        /\ \A u \in Worker \ {w} : /\ request'[u] = request[u] /\ column'[u] = column[u]
                                  /\ seen'[u] = seen[u] /\ wrote'[u] = wrote[u]
    BY <2>1, EndedSession
  <2>3. OneByOne'
    BY <1>e, <2>1, <2>2 DEF OneByOne
  <2>4. Room'
    BY <1>0, <1>e, <2>1, <2>2 DEF Room, RoomFor
  <2> QED BY <2>3, <2>4
<1>6. CASE NextDay
  <2>1. limits.plans # 0 => done[day + 1]["plans"] < limits.plans
    BY <1>0, <1>6, UsageAssumption DEF NextDay, Future, Days, TypeOK
  <2> QED BY <1>e, <1>6, <2>1 DEF NextDay, OneByOne, Room, RoomFor
<1>7. CASE UNCHANGED vars
  BY <1>e, <1>7 DEF vars, OneByOne, Room, RoomFor
<1>8. ASSUME NEW w \in Worker, CheckCalls(w) PROVE OneByOne' /\ Room'
  <2>1. CASE Rollback(w)
    BY <1>5, <2>1
  <2>2. CASE ~Rollback(w)
    <3>1. /\ UNCHANGED <<limits, day, row, request, seen, wrote, done>>
          /\ column[w] = "limit" /\ column' = [column EXCEPT ![w] = "plans"]
      BY <1>8, <2>2 DEF CheckCalls
    <3>2. seen[w] = NotRead
      BY <1>0, <3>1 DEF Shape, Columns
    <3>3. \A u \in Worker : column'[u] = IF u = w THEN "plans" ELSE column[u]
      BY <1>0, <3>1 DEF TypeOK
    <3>4. OneByOne'
      BY <1>e, <3>1, <3>2, <3>3 DEF OneByOne
    <3>5. Room'
      BY <1>e, <3>1, <3>2, <3>3 DEF Room, RoomFor
    <3> QED BY <3>4, <3>5
  <2> QED BY <2>1, <2>2
<1> QED BY <1>1, <1>2, <1>3, <1>4, <1>5, <1>6, <1>7, <1>8 DEF Next, Serve, Collide, Fail

-----------------------------------------------------------------------------
LEMMA ChargeHolds == Spec => []Charge
BY InitCharge, ChargeStep, PTL DEF Spec

\* The variables keep their types, and no two sessions hold one record.
THEOREM TypeCorrect == Spec => []TypeOK
<1>1. Charge => TypeOK
  BY DEF Charge
<1> QED BY <1>1, ChargeHolds, PTL

\* However requests interleave, fail or cross midnight, no counter exceeds the
\* uses that were committed.
THEOREM ChargedAtMostUsed == Spec => []NeverOvercharged
<1>1. Charge => NeverOvercharged
  BY DEF Charge
<1> QED BY <1>1, ChargeHolds, PTL

\* Requests that come one after the other are counted exactly, and no day has
\* more plans than the tier allows, failures and midnight included.
THEOREM SerialIsExact == Spec => []ExactUnlessOverlapping
<1>1. Init => Charge /\ Exact
  BY InitCharge, InitExact
<1>2. Charge /\ Exact /\ [Next]_vars => (Charge /\ Exact)'
  BY ChargeStep, ExactStep
<1>3. Charge /\ Exact => ExactUnlessOverlapping
  <2> SUFFICES ASSUME Charge, Exact, ~overlap
               PROVE  /\ row = done
                      /\ limits.plans # 0 =>
                           \A d \in Days : done[d]["plans"] <= limits.plans
    BY DEF ExactUnlessOverlapping
  <2>1. OneByOne /\ Room /\ row \in Counters /\ done \in Counters
    BY DEF Exact, Charge, TypeOK
  <2>2. \A d \in Days : row[d] = done[d]
    BY <2>1 DEF OneByOne, Counters
  <2> QED BY <2>1, <2>2 DEF Counters, Room
<1> QED BY <1>1, <1>2, <1>3, PTL DEF Spec

-----------------------------------------------------------------------------
\* Session w is about to write a record that session u has locked.
WaitsFor(w, u) ==
  /\ seen[w] # NotRead /\ ~Duplicate(w)
  /\ u # w /\ Holds(u, seen[w].day)

\* No sessions wait for one another in a circle.
NoCircleOfWaiters ==
  \A S \in SUBSET Worker : S # {} => \E w \in S : \A u \in S : ~WaitsFor(w, u)

\* Records are locked in the order of their days, because dates never go back
\* and each increment computes its own.
LocksInDateOrder ==
  \A w \in Worker :
    /\ \A d \in Days : Holds(w, d) => d <= day
    /\ seen[w] # NotRead =>
         /\ seen[w].day <= day
         /\ \A d \in Days : Holds(w, d) => d <= seen[w].day

LEMMA InitLocks == Init => LocksInDateOrder
<1> SUFFICES ASSUME Init PROVE LocksInDateOrder
  OBVIOUS
<1>1. \A w \in Worker, d \in Days : ~Holds(w, d)
  BY DEF Init, Holds, Zero
<1> QED BY <1>1 DEF Init, LocksInDateOrder

\* A session that ends gives up its locks and its selected record.
LEMMA EndKeepsLockOrder ==
  ASSUME TypeOK, LocksInDateOrder, NEW w \in Worker, End(w),
         wrote' = [wrote EXCEPT ![w] = Zero]
  PROVE  LocksInDateOrder'
<1>1. /\ \A u \in Worker : wrote'[u] = IF u = w THEN Zero ELSE wrote[u]
      /\ \A u \in Worker : seen'[u] = IF u = w THEN NotRead ELSE seen[u]
      /\ day' = day
  BY DEF TypeOK, End
<1>2. \A u \in Worker, d \in Days : Holds(u, d)' => u # w /\ Holds(u, d)
  BY <1>1 DEF Holds, Zero
<1> QED BY <1>1, <1>2 DEF LocksInDateOrder

LEMMA LockOrderStep == TypeOK /\ LocksInDateOrder /\ [Next]_vars => LocksInDateOrder'
<1> SUFFICES ASSUME TypeOK, LocksInDateOrder, [Next]_vars PROVE LocksInDateOrder'
  OBVIOUS
<1>0. day \in Days /\ Days \subseteq Nat /\ \A w \in Worker : seen[w].day \in Days
  <2>1. \A w \in Worker : seen[w] \in Selected  BY DEF TypeOK
  <2> QED BY <2>1, ReadType, UsageAssumption DEF TypeOK, Days
<1>1. ASSUME NEW w \in Worker, NEW kind \in Kinds, Accept(w, kind) PROVE LocksInDateOrder'
  BY <1>1 DEF Accept, LocksInDateOrder, Holds
<1>2. ASSUME NEW w \in Worker, Select(w) PROVE LocksInDateOrder'
  <2>1. /\ seen' = [seen EXCEPT ![w] = seen'[w]] /\ seen'[w].day = day
        /\ day' = day /\ wrote' = wrote
    BY <1>2 DEF Select, TypeOK
  <2>2. \A u \in Worker, d \in Days : Holds(u, d)' = Holds(u, d)
    BY <2>1 DEF Holds
  <2>3. \A u \in Worker : u # w => seen'[u] = seen[u]
    BY <2>1 DEF TypeOK
  <2> QED BY <1>0, <2>1, <2>2, <2>3 DEF LocksInDateOrder
<1>3. ASSUME NEW w \in Worker, Increment(w) PROVE LocksInDateOrder'
  <2>1. /\ seen[w] # NotRead /\ day' = day
        /\ seen' = [seen EXCEPT ![w] = NotRead]
        /\ wrote' = [wrote EXCEPT ![w][seen[w].day][column[w]] = seen[w].value + 1]
    BY <1>3 DEF Increment
  <2>2. \A u \in Worker : u # w => wrote'[u] = wrote[u] /\ seen'[u] = seen[u]
    BY <2>1 DEF TypeOK
  <2>3. seen'[w] = NotRead  BY <2>1 DEF TypeOK
  <2>4. \A d \in Days : d # seen[w].day => wrote'[w][d] = wrote[w][d]
    BY <2>1, <1>0 DEF TypeOK, Counters
  <2>5. \A d \in Days : Holds(w, d)' => Holds(w, d) \/ d = seen[w].day
    BY <2>4 DEF Holds
  <2>6. \A u \in Worker, d \in Days : u # w => Holds(u, d)' = Holds(u, d)
    BY <2>2 DEF Holds
  <2>7. seen[w].day <= day  BY <2>1 DEF LocksInDateOrder
  <2>8. \A u \in Worker, d \in Days : Holds(u, d)' => d <= day
    BY <2>5, <2>6, <2>7 DEF LocksInDateOrder
  <2>9. ASSUME NEW u \in Worker, u # w, seen[u] # NotRead
        PROVE  seen[u].day <= day /\ \A d \in Days : Holds(u, d)' => d <= seen[u].day
    BY <2>6, <2>9 DEF LocksInDateOrder
  <2> QED BY <2>1, <2>2, <2>3, <2>8, <2>9 DEF LocksInDateOrder
<1>4. ASSUME NEW w \in Worker, Commit(w) \/ Collide(w) \/ Fail(w) PROVE LocksInDateOrder'
  <2>1. End(w) /\ wrote' = [wrote EXCEPT ![w] = Zero]
    BY <1>4 DEF Commit, Collide, Fail, Rollback
  <2> QED BY <2>1, EndKeepsLockOrder
<1>5. CASE NextDay
  <2>1. day' = day + 1 /\ seen' = seen /\ wrote' = wrote
    BY <1>5 DEF NextDay
  <2>2. \A u \in Worker, d \in Days : Holds(u, d)' = Holds(u, d)
    BY <2>1 DEF Holds
  <2>3. \A d \in Days : d <= day => d <= day + 1
    BY <1>0
  <2> QED BY <1>0, <2>1, <2>2, <2>3 DEF LocksInDateOrder
<1>6. CASE UNCHANGED vars
  BY <1>6 DEF vars, LocksInDateOrder, Holds
<1>7. ASSUME NEW w \in Worker, CheckCalls(w) PROVE LocksInDateOrder'
  <2>1. CASE Rollback(w)
    BY <2>1, EndKeepsLockOrder DEF Rollback
  <2>2. CASE UNCHANGED <<limits, day, row, request, seen, wrote, done, overlap>>
    BY <2>2 DEF LocksInDateOrder, Holds
  <2> QED BY <1>7, <2>1, <2>2 DEF CheckCalls
<1> QED BY <1>1, <1>2, <1>3, <1>4, <1>5, <1>6, <1>7 DEF Next, Serve

\* A set of days that is not empty has a last one.
LEMMA LastOfDays ==
  ASSUME NEW D \in SUBSET Days, D # {}
  PROVE  \E d \in D : \A e \in D : e <= d
<1> DEFINE Less == {ss \in Nat \X Nat : ss[1] < ss[2]}
           Left == {LastDay - d : d \in D}
<1>1. LastDay \in Nat /\ \A d \in Days : d \in Nat /\ LastDay - d \in Nat
  BY UsageAssumption DEF Days
<1>2. Left \subseteq Nat /\ Left # {}
  BY <1>1
<1>3. IsWellFoundedOn(Less, Nat)
  BY NatLessThanWellFounded DEF OpToRel
<1>4. \A y, x \in Nat : <<y, x>> \in Less <=> y < x
  OBVIOUS
<1> HIDE DEF Less
<1>5. PICK x \in Left : \A y \in Left : ~(<<y, x>> \in Less)
  BY <1>2, <1>3, WFMin
<1>6. PICK d \in D : x = LastDay - d
  BY <1>5
<1>7. ASSUME NEW e \in D PROVE e <= d
  <2>1. LastDay - e \in Left
    OBVIOUS
  <2>2. d \in Nat /\ e \in Nat /\ LastDay - d \in Nat /\ LastDay - e \in Nat
    BY <1>1
  <2>3. ~(LastDay - e < LastDay - d)
    BY <1>4, <1>5, <1>6, <2>1, <2>2
  <2> QED BY <1>1, <2>2, <2>3
<1> QED BY <1>7

\* However many sessions hold records across midnight, they never deadlock:
\* of those that wait, the one that waits for the last day waits for a session
\* that waits for nobody among them.
THEOREM SessionsNeverDeadlock == Spec => []NoCircleOfWaiters
<1>1. Spec => []LocksInDateOrder
  <2>1. Charge => TypeOK
    BY DEF Charge
  <2> QED BY <2>1, InitLocks, LockOrderStep, ChargeHolds, PTL DEF Spec
<1>2. Charge /\ LocksInDateOrder => NoCircleOfWaiters
  <2> SUFFICES ASSUME Charge, LocksInDateOrder, NEW S \in SUBSET Worker, S # {},
                      \A w \in S : \E u \in S : WaitsFor(w, u)
               PROVE  FALSE
    BY DEF NoCircleOfWaiters
  <2>1. \A w \in S : seen[w].day \in Days
    <3>1. \A w \in Worker : seen[w] \in Selected
      BY DEF Charge, TypeOK
    <3> QED BY <3>1, ReadType
  <2> DEFINE D == {seen[w].day : w \in S}
  <2>2. D \in SUBSET Days /\ D # {}
    BY <2>1
  <2>3. PICK last \in D : \A e \in D : e <= last
    BY <2>2, LastOfDays
  <2>4. PICK w \in S : seen[w].day = last
    BY <2>3
  <2>5. PICK u \in S : WaitsFor(w, u)
    OBVIOUS
  <2>6. PICK v \in S : WaitsFor(u, v)
    OBVIOUS
  <2>7. last \in Days /\ seen[u].day \in Days /\ seen[u].day <= last
    BY <2>2, <2>3
  <2>8. Holds(u, last) /\ seen[u] # NotRead /\ Holds(v, seen[u].day) /\ u # v
    BY <2>4, <2>5, <2>6 DEF WaitsFor
  <2>9. last <= seen[u].day
    BY <2>7, <2>8 DEF LocksInDateOrder
  <2>10. seen[u].day = last
    <3>1. last \in Nat /\ seen[u].day \in Nat
      BY <2>7, UsageAssumption DEF Days
    <3> QED BY <2>7, <2>9, <3>1
  <2>11. Holds(v, last) /\ Holds(u, last)
    BY <2>8, <2>10
  <2> QED BY <2>7, <2>8, <2>11 DEF Charge, TypeOK, OneHolder
<1> QED BY <1>1, <1>2, ChargeHolds, PTL
=============================================================================
