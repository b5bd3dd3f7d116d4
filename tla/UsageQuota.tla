----------------------------- MODULE UsageQuota -----------------------------
(***************************************************************************)
(* The usage counters of one workspace of QuerySense Cloud and the tier    *)
(* limits enforced with them (cloud/usage.py), by the requests that count: *)
(* "api" is create_plan and "list" is list_plans (cloud/api/plans.py),     *)
(* "web" is upload_submit (cloud/web/routes.py).                           *)
(*                                                                         *)
(* Requests run in several processes on one PostgreSQL database.  Each has *)
(* a session, one transaction that get_session commits at the end or rolls *)
(* back.  A SELECT sees committed rows and the session's own; an UPDATE of *)
(* the ORM carries the value computed in Python, waits for the row's lock  *)
(* and keeps it until the session ends.                                    *)
(***************************************************************************)
EXTENDS Integers, FiniteSets, FiniteSetsExt

CONSTANTS
  Worker,       \* those who serve requests, one at a time each
  Limits,       \* [plans, calls]: plans_per_day, api_calls_per_month; 0: none
  LastDay,      \* the last day of the model
  MonthLength,  \* days in a month
  MaxUses       \* bound: no request is accepted after so many uses of one kind

Days == 0..LastDay
Columns == {"plans", "calls"}
Kinds == {"api", "web", "list"}

ASSUME UsageAssumption ==
  /\ LastDay \in Nat /\ MonthLength \in Nat \ {0} /\ MaxUses \in Nat
  /\ Limits \subseteq [plans : Nat, calls : Nat]

VARIABLES
  limits,   \* the limits of the workspace's tier; they never change
  day,      \* the current UTC date
  row,      \* day -> committed usage record; all zero when there is none
  request,  \* worker -> the request it serves, "none" when idle
  column,   \* worker -> the counter it increments next, "limit" before the
            \* API's second check, "none" at the end
  seen,     \* worker -> the record selected for the increment, or NotRead
  wrote,    \* worker -> day -> its uncommitted values, 0 where it wrote none
  done,     \* history: day -> uses that were committed
  overlap   \* history: two requests have been in progress at a time

vars == <<limits, day, row, request, column, seen, wrote, done, overlap>>

NotRead == [day |-> 0, value |-> 0, status |-> "not read"]
Zero == [d \in Days |-> [c \in Columns |-> 0]]

-----------------------------------------------------------------------------
\* get_or_create_usage creates a record that the same transaction increments.
Recorded(d) == \E c \in Columns : row[d][c] # 0

\* The session of w has written to the record, and holds its lock.
Holds(w, d) == \E c \in Columns : wrote[w][d][c] # 0

\* An upload counts a plan and, through the API, a call, after the API's second
\* check; a listing counts a call and checks nothing.
FirstColumn(kind) == [api |-> "limit", web |-> "plans", list |-> "calls"][kind]
NextColumn(kind, c) == IF kind = "api" /\ c = "plans" THEN "calls" ELSE "none"

CallsThisMonth ==
  MapThenSumSet(LAMBDA d : row[d]["calls"],
                {d \in Days : d \div MonthLength = day \div MonthLength})

Init ==
  /\ limits \in Limits
  /\ day = 0 /\ row = Zero
  /\ request = [w \in Worker |-> "none"] /\ column = [w \in Worker |-> "none"]
  /\ seen = [w \in Worker |-> NotRead] /\ wrote = [w \in Worker |-> Zero]
  /\ done = Zero /\ overlap = FALSE

\* Mistake: the limit reached one use too late.
OverPlanLimitLate(kind) ==
  kind # "list" /\ limits.plans # 0 /\ row[day]["plans"] > limits.plans

\* check_plan_limit and check_api_limit raise HTTP 429, the first for uploads,
\* the second for the API's: the request ends there and changes nothing.
OverPlanLimit(kind) ==
  kind # "list" /\ limits.plans # 0 /\ row[day]["plans"] >= limits.plans
OverCallLimit == limits.calls # 0 /\ CallsThisMonth >= limits.calls

\* A request begins, past the first check where it has one; the analysis and
\* the plan's rows come before its first increment.
Accept(w, kind) ==
  /\ request[w] = "none" /\ ~OverPlanLimit(kind)
  /\ \A d \in Days, c \in Columns : done[d][c] < MaxUses
  /\ request' = [request EXCEPT ![w] = kind]
  /\ column' = [column EXCEPT ![w] = FirstColumn(kind)]
  /\ overlap' = (overlap \/ \E u \in Worker : u # w /\ request[u] # "none")
  /\ UNCHANGED <<limits, day, row, seen, wrote, done>>

\* The SELECT of get_or_create_usage, for the date it computes.
Select(w) ==
  /\ column[w] \in Columns /\ seen[w] = NotRead
  /\ seen' = [seen EXCEPT ![w] =
       [day |-> day, value |-> row[day][column[w]],
        status |-> IF Recorded(day) \/ Holds(w, day) THEN "found" ELSE "absent"]]
  /\ UNCHANGED <<limits, day, row, request, column, wrote, done, overlap>>

\* Another session has committed the record this one is about to insert.
Duplicate(w) == seen[w].status = "absent" /\ Recorded(seen[w].day)

\* The flushes: the INSERT of a missing record, then the UPDATE.
Increment(w) ==
  /\ seen[w] # NotRead /\ ~Duplicate(w)
  /\ \A u \in Worker \ {w} : ~Holds(u, seen[w].day)
  /\ wrote' = [wrote EXCEPT ![w][seen[w].day][column[w]] = seen[w].value + 1]
  /\ column' = [column EXCEPT ![w] = NextColumn(request[w], column[w])]
  /\ seen' = [seen EXCEPT ![w] = NotRead]
  /\ UNCHANGED <<limits, day, row, request, done, overlap>>

\* The session ends.
End(w) ==
  /\ request' = [request EXCEPT ![w] = "none"]
  /\ column' = [column EXCEPT ![w] = "none"]
  /\ seen' = [seen EXCEPT ![w] = NotRead]
  /\ UNCHANGED <<limits, day, overlap>>

Committed(w) ==
  [d \in Days |-> [c \in Columns |->
     IF wrote[w][d][c] # 0 THEN wrote[w][d][c] ELSE row[d][c]]]

Counted(w) ==
  [d \in Days |-> [c \in Columns |->
     done[d][c] + (IF wrote[w][d][c] # 0 THEN 1 ELSE 0)]]

\* Mistake: a session that is left open, with its locks.
CommitKeepsLocks(w) ==
  /\ request[w] # "none" /\ column[w] = "none"
  /\ row' = Committed(w) /\ done' = Counted(w)
  /\ UNCHANGED wrote /\ End(w)

Commit(w) ==
  /\ request[w] # "none" /\ column[w] = "none"
  /\ row' = Committed(w) /\ done' = Counted(w)
  /\ wrote' = [wrote EXCEPT ![w] = Zero]
  /\ End(w)

\* Mistakes: the increments committed on an exception, or taken back twice.
RollbackCommits(w) ==
  /\ row' = Committed(w) /\ wrote' = [wrote EXCEPT ![w] = Zero]
  /\ UNCHANGED done /\ End(w)
RollbackRefunds(w) ==
  /\ row' = [d \in Days |-> [c \in Columns |->
               row[d][c] - (IF wrote[w][d][c] # 0 THEN 1 ELSE 0)]]
  /\ wrote' = [wrote EXCEPT ![w] = Zero]
  /\ UNCHANGED done /\ End(w)

Rollback(w) ==
  /\ wrote' = [wrote EXCEPT ![w] = Zero]
  /\ UNCHANGED <<row, done>> /\ End(w)

CheckCalls(w) ==
  /\ column[w] = "limit"
  /\ \/ OverCallLimit /\ Rollback(w)
     \/ /\ ~OverCallLimit
        /\ column' = [column EXCEPT ![w] = "plans"]
        /\ UNCHANGED <<limits, day, row, request, seen, wrote, done, overlap>>

\* The INSERT breaks the constraint uq_usage_workspace_date.
Collide(w) == seen[w] # NotRead /\ Duplicate(w) /\ Rollback(w)

\* Anything else raises: the analysis, a flush, the commit, a lost connection.
Fail(w) == request[w] # "none" /\ Rollback(w)

NextDay ==
  /\ day < LastDay /\ day' = day + 1
  /\ UNCHANGED <<limits, row, request, column, seen, wrote, done, overlap>>

Serve(w) == CheckCalls(w) \/ Select(w) \/ Increment(w) \/ Collide(w) \/ Commit(w)

Next ==
  \/ NextDay
  \/ \E w \in Worker : Serve(w) \/ Fail(w) \/ \E kind \in Kinds : Accept(w, kind)

Spec == Init /\ [][Next]_vars

\* Row locks are granted in the order of the queue.
FairSpec == Spec /\ \A w \in Worker : SF_vars(Serve(w))

-----------------------------------------------------------------------------
Counters == [Days -> [Columns -> Nat]]
Selected == [day : Days, value : Nat, status : {"not read", "found", "absent"}]

OneHolder == \A d \in Days : \A u, w \in Worker : Holds(u, d) /\ Holds(w, d) => u = w

\* Types of the variables, and the locks: no two sessions hold one record.
TypeOK ==
  /\ limits \in Limits /\ day \in Days
  /\ row \in Counters /\ done \in Counters
  /\ request \in [Worker -> Kinds \cup {"none"}]
  /\ column \in [Worker -> Columns \cup {"limit", "none"}]
  /\ seen \in [Worker -> Selected]
  /\ wrote \in [Worker -> Counters]
  /\ overlap \in BOOLEAN
  /\ OneHolder

\* A workspace is never charged for more than it used: a request that failed,
\* however late, or an increment computed from an old value, adds nothing.
NeverOvercharged == \A d \in Days, c \in Columns : row[d][c] <= done[d][c]

\* As long as a workspace's requests come one after the other the counters are
\* exact and no day has more plans than the tier allows, midnight included.
ExactUnlessOverlapping ==
  ~overlap =>
    /\ row = done
    /\ limits.plans # 0 => \A d \in Days : done[d]["plans"] <= limits.plans

\* Nobody waits for a record's lock for ever, also when a session that began
\* before midnight holds one record and waits for the next day's.
RequestsEnd == \A w \in Worker : request[w] # "none" ~> request[w] = "none"
=============================================================================
