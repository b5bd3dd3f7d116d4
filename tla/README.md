# QuerySense in TLA+

QuerySense analyzes PostgreSQL `EXPLAIN` plans: a library and a command line
(`src/src/querysense`), a hosted service over them (`cloud/`), and daemons that
watch a database. This directory holds TLA+ models of the parts whose
correctness depends on order, concurrency or failure, the TLC configurations
that check them, and TLAPS proofs of what matters most in them. `PROJECT.json`
lists, for every definition, the lines it models; for every property, a change
of the code that breaks it; and the hazards the properties were written for.

    tlc -config MCAnalyzer.cfg MCAnalyzer        # a run
    tlapm RuleOrderProofs.tla                    # the proofs of a module

Paths below are relative to `src/src/querysense` unless they start with `src/`.

## Inventory

Most of the 112,000 lines of Python compute findings from plans and catalogue
rows, without state. The parts that keep state or act in steps are these.

| Part | State | Operations | Interacts with |
|---|---|---|---|
| `build_rule_dag` (`analyzer/dag.py` 610-727) | in-degrees, queue, order | one call from the constructor | `Analyzer` takes its order, or swallows its error |
| `Analyzer` (`analyzer/analyzer.py`) | rule list; per call: facts, phase, rule runs | constructor, `analyze` | rules, SQL parser, cache, DB probe |
| `AnalysisCache` (`analyzer/fingerprint.py`) | OrderedDict, hit and miss counters | `get_extended`, `set_extended`, `clear` | shared by every thread that calls one `Analyzer` |
| `RuleDAG`, `DAGExecutor` (`analyzer/dag.py` 137-606) | fact store | `validate`, `execute` | nothing under `src/src` constructs them |
| `AuditLogger` (`audit/logger.py`) | file, last hash, events in memory | `log_*` (all through `_emit`), two verifications, report | other processes on the same file |
| `ZeroDowntimePlanner` (`migration/zero_downtime.py`) | none; the plans it writes change a live table | `plan` | PostgreSQL, the operator, the application |
| Usage and tier limits (`cloud/usage.py`, `cloud/api/plans.py`, `cloud/web/routes.py`, `cloud/database.py`) | one row per workspace and day | check, increment; a session per request | concurrent requests and server processes |
| Cloud pipeline (`cloud/cache.py`, `workers.py`, `api/websocket.py`, `events.py`) | Redis or a dictionary, connection sets | cache and task status, run a task, publish, stream | requests, workers, clients |
| `BaselineStore`, `AnalysisService` (`baseline.py`, `engine.py`) | a JSON file, loaded at construction | record, lock, unlock, remove, compare, save; batch | CI jobs on one checkout, the plan-shape rule |
| `WatchDaemon`, `AlertDispatcher` (`watch.py`, `alerting.py`) | snapshots in memory and in a file, one connection | poll, alert, save, stop | PostgreSQL, alert channels, signals |
| `DBBudget` (`db/probe.py`) | queries and time used | test, charge | the probes of one analysis |
| Stats collector (`collector.py`), time series (`temporal/`), metrics | previous snapshot; SQLite tables; counters | collect, compare, store | PostgreSQL, callbacks |

Everything else (rules, advisors, parsers, renderers, generators of SQL text,
testers whose workers share nothing, front ends, deployment) is pure, or
presentation, or the vendored code under `src/comb`. `PROJECT.json` lists each
of these parts with the reason it is left out.

### What is hard, and what must hold

* **Rule ordering.** Sets of strings are iterated in hash order, different in
  every process. Whatever the order, a provider precedes its dependents, no
  rule is placed twice, and the error is raised exactly for a cycle.
* **Analyzer.** Rules fail, are skipped, form cycles; capabilities are frozen per
  phase, and strings that are no capability are dropped between the phases. Every rule
  has one run; a rule runs if and only if its requirements were there.
* **Cache.** No lock, several threads. The size stays bounded, each call is counted once,
  no eviction goes on without new calls; while calls do not overlap, it is an LRU cache
  and never raises.
* **Audit log.** Crashes inside a write, short writes, several processes, restarts.
  A file that verifies has lost nothing, and what verifies once only grows.
* **Migration.** The application writes while the backfill runs, skips locked rows,
  is rolled back or is run again. No NULL survives a NOT NULL; no write should be lost, and
  the columns of a rename should stay in sync: without pauses of the application they do not.
* **Usage.** Check, analysis and increment are apart; sessions read, then write;
  midnight; rollbacks. Nobody is charged for more than they used, requests one by
  one are counted exactly, and every request ends.
* **Baselines and the CI gate.** A JSON file is loaded whole, changed in memory and
  rewritten in place by processes that do not know of each other; the gate reads
  it. A lock or plan that was saved is lost only by a session that had not
  seen it, and there is none before two sessions overlap or a save is cut short; a gate
  that passes has compared with what was saved last.
* **Watch daemon.** Alerts are sent between the recording of a snapshot and its save;
  polls, rows, channels and saves fail; the process is killed and started again.
  No save passes over a regression that some channel was not called with; nobody is told twice.
* **Cloud pipeline** (not modelled): state split between Redis and its fallback,
  events published before their transaction commits.

## Modules

| Part | Specification | Abstract specification | Proofs | Runs |
|---|---|---|---|---|
| `build_rule_dag` | `RuleOrder` | (its properties) | `RuleOrderProofs` | `analyzer` |
| `Analyzer` | `Analyzer`, extends `RuleOrder` | `RuleExecution` | `AnalyzerProofs` | `analyzer` |
| `AnalysisCache` | `AnalyzerCache` | `LRUCache` | `AnalyzerCacheProofs` | `cache`, `cache_raises_under_threads` |
| `AuditLogger` | `AuditLog` | `AuditTrail` | `AuditLogProofs` | `audit_faults`, `audit_memory_after_restart` |
| `ZeroDowntimePlanner` | `OnlineMigration` | (its properties) | `OnlineMigrationProofs` | `migration`, `migration_loses_updates`, `migration_columns_differ` |
| Usage and limits | `UsageQuota` | (its properties) | `UsageQuotaProofs` | `usage` |
| `BaselineStore` | `BaselineStore` | (its properties) | `CIGateProofs` | `gate` |
| `AnalysisService`, CI gate | `CIGate`, extends `BaselineStore` | (its properties) | `CIGateProofs` | `gate`, `gate_ignores_locks` |
| `WatchDaemon`, `AlertDispatcher` | `WatchDaemon` | (its properties) | `WatchDaemonProofs` | `watch` |

The `MC...` modules give the constants of a specification their values. The
abstract modules state promises and have no entry in the map. Operators named
in comments as mistakes (`BuildPerCapability`, `LockUnchecked`, ...) are no part
of any `Next`: each is the mutated form of the definition that follows it.

### RuleOrder

`requires` and `provides` are the declarations of the rules, `indegree`, `queue`
and `order` the locals of Kahn's algorithm (`in_degree`, `queue`,
`sorted_ids`). `BuildGraph` is the code up to the loop, `PlaceRule` one turn of
it, `FinishSort` the comparison of lengths that raises. An iteration over a set
is any arrangement of it (`Arrangements`); the initial queue is in list order,
because it comes from the list. The search for a cycle to name in the
message is left out: it changes nothing. The declarations are variables chosen
in `OrderInit` so that one run covers every graph.

### Analyzer and RuleExecution

`Analyzer` composes with `RuleOrder`: `SortRules` runs the sort as the constructor
does, `AdoptOrder` and `KeepListOrder` are the two outcomes of its `try`. Then
`analyze()`: `ParseSql` (confidence and evidence level), `BuildContext` (the
capabilities the facts bring), `SkipRule`, `RunRule` and `RaiseRuleError` for
each rule of a phase, `StartAggregates` between the phases, `BuildResult`. Between the phases
`FirstPhaseGrants` keeps of what the first phase's rules provide the members of `Capability`
only: the declarations are strings, and `analyzer.py:524` drops those the enum does not
know. A phase runs its
rules in the order of `self.rules`: `todo` holds their places in that list, and the least of
them is next. SQL
text is one of six kinds the parser tells apart (absent, blank, three levels of
confidence, a text on which it throws). What a rule finds is left out; that it
may raise is not. The abstract `RuleExecution` says what any executor of rules
owes: every rule decided once, in phase order, by what is available, with
availability that only grows. `ImplementsPromise` is the refinement, with the
rule runs read as a function from rules to outcomes.

### AnalyzerCache and LRUCache

A thread walks through `get_extended` and `set_extended`: `Lookup` (membership, read and
expiry test), `DropExpired`, `Touch` (`move_to_end`), `RunRules`, `CheckRoom`
(the loop's condition), `Evict` (`popitem`), `Store`. Each is atomic because CPython switches
threads only between bytecodes and, from 3.11, only at calls and backward
jumps: `_hits += 1`, and a test with the subscript behind it, are not
interrupted; between a test and a call of a method they may be. A key that is gone by the time it
is used raises `KeyError`, which is a state of the thread. `Expire` is time
passing the TTL. `alone` is history: the thread whose call began while no other was
under way, until the next call begins. `LRUCache` is the bounded cache such calls
are promised, in whatever state racing calls left the dictionary.

### AuditLog and AuditTrail

Each `Logger` is a process with an `AuditLogger` on the one file. `_emit` is split
where a process can die or another can run: `Link` computes the event and moves
`_last_hash`, `Write` appends the line and returns, `WriteRaises` is a write
that fails, `Stop` an exit or crash at any point. A write can come out whole,
whole but unterminated, in part, or not at all; what is appended to an
unterminated line becomes one unreadable line with it. An HMAC is a number no
other event has, so two events never collide. `VerifyFileChain` and `VerifyChain` are
the verifications, with what they really check: links, and readability.
`calm` is history: no write was cut short yet, and no two processes ran at once.
`AuditTrail` is an append-only list of linked events. `ImplementsTrail` maps the file
to its longest prefix of complete lines that link (`Trusted`): with every writer, crash and
short write there is, that prefix only grows, one linked event at a time.

### OnlineMigration

The model runs the SQL that `plan()` generates for the three plans that move
data. `at` is the last phase carried out. The backfill is one `DO` block and
so one transaction: `Batch` takes up to `BatchSize` rows that need a value and
are not locked (`FOR UPDATE SKIP LOCKED`), they stay in `held` until
`CommitBackfill`; `AbortBackfill` undoes them. `Alter` is a statement that needs
the table for itself. The `Undo...` actions are the rollback SQL of each phase.
The application (external) opens, commits and aborts writes of one row, and
rolls out code that uses the new column after `requires_app_change`. `truth`
is a history variable: the last committed write of each row. A value of ALTER
TYPE is stored as `<<v>>`: the cast is not the identity. `Paused` says whether
the application stops writing between the first and the last step of copying: no phase
asks for that, it is an assumption on who runs the plan, and both the run `migration` and
`PausedKeepsUpdates` say what it buys; the two violated runs are without it. A backfill's
rollback is a plain `UPDATE`: it waits for the rows it clears and runs beside writes of
others. New code may be rolled out from phase 1 on, and back, and `UndoTrigger` asks nobody
which column is in use, as the plan does not. Phase 1 of RENAME takes the type of the new
column from a subselect, which PostgreSQL does not parse: all that is said of RENAME is
said of a plan whose type was put in by hand.

### UsageQuota

`Accept` is a request's begin and its check of the plans (list_plans has none), `CheckCalls` the
second check of create_plan, awaited after the first, with everything up to the first
counter behind it; `Select` is the read of
`get_or_create_usage`, `Increment` its insert and the flush of the update, with
the value computed in Python, waiting for the row's lock. `Commit`,
`Rollback` (`Collide` on the unique constraint, `Fail` for any exception) end
the session as `get_session` does. `NextDay` is midnight UTC, which may fall
between the two counters of one request. A refusal by the first check changes nothing, so
it is no action: the check is the guard of `Accept`. The database is PostgreSQL at READ
COMMITTED. SQLite, the default, lets one transaction write at a time, so its interleavings
of writes are among these. `done` and `overlap` are history: the uses that
were committed, and whether two requests were ever in progress together.

### BaselineStore

A session is a `BaselineStore` object: `Open` is the constructor with `_load`, an
unreadable file being an empty store. `Record`, `Lock`, `Unlock` and `Remove`
change the session's copy `mem`. `save` is split where `write_text` is: `Truncate`
empties the file, `Write` fills it; two saves at a time may leave either copy or
a mixture (`"mixing"`), `WriteRaises` a short file, and `Close` is the end of the process,
in the middle of a save as well (a death between the end of the write and the return of `save` is
`Write`, then `Close`). What is not a JSON document is `Torn`. `fresh`,
`edits`, `acked` and `disturbed` are history: which sessions know the last content, what
they were asked to change since, what the saves were asked to
store, and whether two sessions were ever under way together or a save was cut short. A session
that is not fresh replaces what it has not seen, and where sessions were disturbed `acked`
begins anew with its copy: that is the lost update. `KeepsWhatWasSaved` says it is
the only one, `UndisturbedLosesNothing` that it takes a disturbance.

### CIGate

The gate changes nothing, so it is a set of operators on the state of `BaselineStore`:
`Baseline` is what a gate started now would load, `IsRegression` the diff,
`CheckFailure` and `GatePasses` the exit code, `SafeToUpgrade` the upgrade report. A plan is its
node types, the rest that enters the structure hash, and its cost; a batch maps
query ids to plans and the worst finding of their analysis, or `"failed"`. The transition scores
of `plan_diff.py` are abstracted to the set of pairs that reach HIGH (`HighDanger`).

### WatchDaemon

One iteration of `run_sync` is `Poll` (or `PollFails`), one `PollQuery` for each row
(or `RowRaises`, after which the rest of the poll is given up; it comes before the row's snapshot is
recorded, since what follows is arithmetic on columns that are never NULL, with the divisor
tested at `watch.py:407`), `EndOfRows`, one `Send` for
each event and channel, `Truncate` and `Write` of the state file, `Wake`. `Signal` may come
at any time, `Crash` too; `SaveRaises` is an exception out of `save`, which nothing
catches. `Start` loads what was left. A snapshot is a measure with the number of its poll. `saved`, `passed`,
`tried`, `lost` and `mixed` are history: the last readable save, the regressions
between two successive saves, the alerts each channel was called with, the polls whose
snapshots were never saved, and the polls with two rows of one queryid.
Whether a channel delivers is not the daemon's to know: `Send` is the call. With no channel
configured nothing is sent, and the models assume one at least.

## Runs

Bounds are named in the configurations. Where a counter would grow without end
(`MaxCalls`, `MaxEvents`, `MaxUses`, `LastDay`, `MaxPolls`) its bound is a guard, and the
behaviour stops there: those runs, and those of algorithms that end, say
`CHECK_DEADLOCK FALSE`.

| Run | Bounds | What it shows |
|---|---|---|
| `analyzer` (2,121,429 states) | 3 rules, each in either phase, requiring nothing, a fact, the prior findings, or one or two provided strings, of which one is no capability; 4 requests, with SQL of each confidence and SQL the parser throws on | topological order whatever the sets' order, cycles reported only when there are some; one run per rule, order of decisions, requirements, refinement of `RuleExecution`, every analysis ends |
| `cache` (332,264) | 2 threads, 4 keys, size 2, 5 calls | overshoot of at most one, no double count, every eviction paid for by a call, calls that do not overlap are those of an LRU cache and never raise, calls end once none begin |
| `cache_raises_under_threads` (violated) | 2 threads | see the divergences |
| `audit_faults` (422,567) | 2 processes, 4 events, all write outcomes | verified means nothing lost and in order; complete lines stay; a calm trail verifies; refinement of `AuditTrail` |
| `audit_memory_after_restart` (violated) | 1 process, 3 events | see the divergences |
| `migration` (52,757) | 3 rows, 2 connections, 2 values, batches of 1, writes paused while copying | NOT NULL holds; no write lost; the backfill ends |
| `migration_loses_updates` (violated) | 2 rows, no pauses | see the divergences |
| `migration_columns_differ` (violated) | 2 rows, no pauses | see the divergences |
| `usage` (201,682) | 2 workers, 3 days in months of 2, limit of 1 plan a day or 2 calls a month, 2 uses | never overcharged, exact one by one, requests end |
| `gate` (289,798, up to symmetry) | 2 processes, 2 queries, 2 plans to record; every batch of up to 2 plan files out of 4, one of which cannot be analyzed | what saves were asked to store is there, all of it before anything disturbs them; what gate and upgrade check conclude from it |
| `gate_ignores_locks` (violated) | 1 process, 1 query | see the divergences |
| `watch` (1,623,328) | 2 queries, 3 measures, 2 channels, polls of up to 2 rows, 3 polls | no regression passed over, none told twice, a stop ends the loop |

Why these are enough for what they ask. Two rules suffice for an edge and a
cycle; three give a chain, a fork, a join, a cycle with a rule outside it, and a
rule that depends on two providers at once. An absent SQL text brings the capabilities
of one the parser throws on, a blank one those of low confidence, so four requests meet every set of
capabilities SQL can bring. Two threads reach every race of the
cache, since each race is between one thread's test and another's removal or
insertion; a third only adds one to the overshoot, which the theorem gives for
any number. Four keys with a size of two make every eviction and every
change of recency happen, and an overshoot to three besides. Four events of two processes with restarts are a
fork of the chain, a damaged line in the middle and at the end, and a new chain
after it. Three rows give a row that is filled, one that is skipped and one that
is written in between, in two batches or more. Three days in months of two
have a midnight within a month and one that ends it. Two processes are a fresh
session and a stale one, or two saves at once; two queries keep a batch from being decided by
one plan. Three polls are a baseline, a regression and what follows it, which
is all two alerts about a query can be told apart by; polls of two rows hold two
queries, or one queryid twice; two channels have one that fails before the other.

### Fairness

* `Analyzer!FairSpec`: weak fairness of the whole step. The code is
  sequential and does not block; a rule that never returns is outside the model.
* `AnalyzerCache!FairSpec`: weak fairness of each thread inside `analyze()`. The
  interpreter lock is passed round among the threads that wait for it. Calls need not be made.
* `OnlineMigration!FairSpec`: the server runs the `DO` block on. Nothing obliges
  the application to write, commit or deploy, nor the operator to go on.
* `UsageQuota!FairSpec`: strong fairness of each session's steps. A lock can be
  taken and given back again and again by others while a session waits;
  PostgreSQL grants row locks in the order of the queue, so a session whose
  turn comes again and again gets it. Requests need not arrive.
* `WatchDaemon!FairSpec`: weak fairness of the loop (`Step`). The server answers a
  query or refuses it, and the channels time out after ten seconds, so each step ends one way or
  the other. Nothing obliges the daemon to be started, signalled or killed.
* `RuleOrder`, `AuditLog` and `BaselineStore` have no fairness: what they promise is safety.

### Divergences the runs show

* `cache_raises_under_threads`: an entry removed by another thread between the
  test and the use makes `analyze()` raise `KeyError`. `analyzer.py:242`: "This
  method is thread-safe".
* `audit_memory_after_restart`: `verify_chain` calls untouched events invalid when
  the process continued a file (`logger.py:213`), and the compliance report prints it.
* `gate_ignores_locks`: a locked plan that changes its index, at the same cost and with the
  same node types, passes `querysense ci gate`. The exit code counts findings and `is_regression`
  (`output/pr_comment.py:391`); a lock only raises a score no exit code reads. `baseline.py:609`:
  "locked baselines cause CI to hard-fail if the plan changes at all, regardless of
  severity thresholds".
* `migration_loses_updates`: with an application that keeps writing, ALTER TYPE
  and RENAME lose what is written to a row that the backfill skipped, or had passed.
  `zero_downtime.py:4`: "safe expand/migrate/contract phases".
* `migration_columns_differ`: for the same reason the columns of a RENAME differ when its
  trigger is in place, and stay so until the row is written again. `zero_downtime.py:570`:
  "Keeps both columns in sync during the transition period".

Seen while modelling, without a run:

* A cycle is caught by the constructor and logged, although `dag.py:25` wants it
  to be "hard errors at startup". `EveryRuleHasOneRun` holds all the same.
* `dag.py:21` promises "same inputs always produce same execution order". The dependents of a placed
  rule are taken from a set of strings (`dag.py:675`), whose order changes with the hash
  seed, so two processes may sort the same rules differently; within a process it is one order. The model
  takes every order, so what is checked and proved holds of each.
* A string in `provides` that is no `Capability` is dropped between the phases
  (`analyzer.py:524`), although `capabilities.py:81` says "rules can define their own" and `dag.py:19`
  calls unknown capabilities "hard errors at startup". It orders the rules, and then the one that
  requires it is skipped.
* `analyzer.py:517` grants the capabilities of all PER_NODE rules after the first
  phase, failed and skipped ones too, although `src/docs/CHANGELOG.md:410` says "Rules SKIP
  if prerequisites not met". `RuleExecution` allows it.
* A text that is blank or parsed with low confidence still leaves a query_info
  (`analyzer.py:475`), which grants `sql_tables` when the confidence grants no `sql_ast`.
* A rule whose provider is in its own phase never gets the capability, since it is
  frozen before the phase. A blank SQL text gives evidence PLAN+SQL with no
  confidence, although `models.py:521` asks for MEDIUM.
* `cloud/usage.py:5` "Enforces tier limits": overlapping requests pass the
  check together, and two increments of one value count once (or set the
  counter back), so a limit can be exceeded, by more than the number of requests that overlap: two
  workers uploading within one day, of a limit of six, get as many as 21 plans through (an instance of
  `UsageQuota` with `MaxUses` out of the way). `ExactUnlessOverlapping` says when it is not. The first two requests of a day can collide on the insert, and the loser's
  plan is rolled back. `list_plans` counts calls and checks no limit.
* Two audit writers on one file fork the chain, and a torn line takes the next
  session's first event with it: both are reported, neither is avoided.
  `verify_file_chain` checks links and never recomputes a hash.
* An unreadable baseline file counts as no baselines, with a warning: the gate then
  compares with nothing, and the next record and save erase every lock. A gate that reads during
  a save sees such a file. Plans that cannot be analyzed are left out of a batch with a warning,
  and only a batch without any examined plan fails for it. `BatchReport.has_failures` (`engine.py:138`) is
  False at the threshold "none", where the exit code still counts regressions. Query ids
  are the stems of file names (`ci.py:165`), so two files of one name share a baseline.
* A poll that fails leaves the daemon's connection in an aborted transaction that nobody
  rolls back (`watch.py:540`): every later poll fails, and the daemon runs on, blind, until it is
  restarted. Rows of one queryid (of several users, databases or buckets) are
  compared with each other. The mean compared is the statistics' own, over all calls: a query that
  slows down in steps below the threshold is never reported. A torn state file is no history,
  and what regressed meanwhile becomes the new baseline.
* The backfill is one transaction, although its note says "Batched to prevent
  long-running transactions" (`zero_downtime.py:292`). It does not end when the fill value is NULL (no
  DEFAULT; a NULL to cast), which `BackfillEnds` excepts. Its rollback for ADD
  COLUMN also clears equal values the application wrote; a second backfill restores them.
  Phase 1 of RENAME has no type PostgreSQL would parse.

## Proofs

All are for every value of the constants that satisfies the module's named
assumption; no step is left to trust.

* **`RuleOrderProofs`** (`RuleAssumption`: a finite set of rules, each in the list once).
  `TypeCorrect`, `OrderIsTopological`, `PlacedOnce`,
  `CyclesAreRefused`, `AcceptedIsComplete` and `RefusedIsCyclic`: the order that is
  returned is a complete topological order, and the error comes exactly for a cycle. `DependenciesFirst` is not
  inductive: nothing in it says why a rule in the queue may be placed. `OrderInv`
  adds the meaning of the counters: an in-degree is the number of providers not
  placed (`DegreesCount`), and the queue holds exactly the unplaced rules whose
  count is zero (`QueueIsFrontier`). An empty queue with rules left then gives a
  set of rules that all wait for one another: the cycle is real.
* **`AnalyzerProofs`** (`RequestAssumption`: two phases, and flags that are Booleans), on top of
  `RuleOrderProofs`. `SortIsRuleOrder`: an analysis takes only steps of `RuleOrder` on
  the sort, so `OrderInv` holds of it. `AnalyzerTypes`, `RunsAreComplete`, `ProvidersFirst`,
  `EarlierCapabilities`, the refinement `AnalyzerKeepsPromise`, and `AccountingIsComplete` (rules
  run and skipped are all the rules). `EveryRuleHasOneRun` speaks of the end only; `AnalyzerInv` says which
  rules have a run on the way: `self.rules` lists every rule once whatever became of the sort
  (`ListInv`), the places that left `todo` have their run and no others (`DecidedPlaces`), all of
  them to the left of what is in it (`TodoIsSuffix`). The providers of a rule's phase are to its left in a sorted
  list, hence decided. That the least place exists and is what `Min` chooses (`MinIsLeast`) follows from the
  library's well-foundedness of the natural numbers.
* **`AnalyzerCacheProofs`** (`CacheAssumption`: finitely many threads). `TypeCorrect`,
  `OvershootBounded`, `SerialNeverRaises`, `CountedAtMostOnce`,
  `SerialStepsAreLRU`, `ZeroSizeIsUseless` (of a size of zero, which no run has). The
  bound on the size is not inductive: a thread that has passed the test will add an entry.
  `Reserved` counts these threads with the entries: at the moment of the test the place is
  free, and at most the other threads hold places already. `SerialInv` says what a
  call without company knows: what it found, expired or not, is still there, what it missed is still
  missing, and the dictionary is full when it evicts and has room when it stores. Each of its steps is
  then one of `LRUCache`; that the sequence that stands for the OrderedDict has no key twice
  (`KeysOnce`) is a lemma about that encoding, and no more.
* **`AuditLogProofs`** (`AuditAssumption`), for any processes, crashes and short writes.
  `TypeCorrect`, `LinesAreKept`. `LossReported`: a returned event is in the file, or a line is
  damaged, and damage never goes away (`LossInv`). `CalmIsUnbroken`: while the trail is calm,
  `_last_hash` of the running process is the hash of the last line, or of the event about to
  be written (`ChainInv`); a crash in between loses the event, and the next process reads
  the file again. `VerifiedInOrder`: every event is younger than the one it names
  (`OrderInv`), so links order the lines. `VerifiedPrefixIsTrail`, the refinement: there is a
  first line that does not link (`TrustInv`), and every step appends to what is before it or leaves it.
* **`OnlineMigrationProofs`** (`MigrationAssumption`). `TypeCorrect`, `NoNullLeft` (paused or
  not), `PausedKeepsUpdates`, which is conditional on the pauses and says so. The invariant is `AddInv` (what the
  application wrote is there, or was the default and will be filled in again; held
  rows are not being written) and `CopyInv` (between the first and the last
  step of copying nobody writes, so each copy is NULL or the last write),
  with `PhaseOfPlan` tying phases to plans.
* **`UsageQuotaProofs`** (`UsageAssumption`). `TypeCorrect` (with one holder per row lock),
  `ChargedAtMostUsed`, `SerialIsExact`. A counter can only be wrong through an old
  value, so `ReadsAreOld` bounds what was read by the uses committed until now, and what is
  written by one more; locks make that enough at the commit. `Exact` adds, while
  no two requests overlapped, that the only request in progress read the
  current value and found room.

* **`CIGateProofs`** (`StoreAssumption`, `GateAssumption`), for any processes, queries,
  plans and batches. `TypeCorrect`, `SavedIsKept`, from it `PassingIsGuarded` and
  `UpgradeIsGuarded`, and `UndisturbedIsExact`. `KeepsWhatWasSaved` needs to know what a session will write: `Faithful` says that
  the copy of a fresh session is what was saved, changed where it was asked to be, so
  that the merge of its changes is its copy; `SessionInv` that a closed session knows nothing. `Calm` is what no disturbance
  means: one session at a time, which is fresh, and a file that is readable but for its save.
* **`WatchDaemonProofs`** (`WatchAssumption`), for any queries, measures, channels and polls.
  `TypeCorrect`, `NoneIsPassedOver`, `NoneIsToldTwice`, from one invariant, `WatchInv`. `Pending`: a
  regression between the saved and the present snapshots has been told to each channel or is queued
  for it, which needs that the rows to come are of queries not looked at yet (`RowsApart`) and that the
  snapshots agree with the file between two cycles (`Shape`). `TriedInv` and `EventsInv`: behind
  an alert the snapshots have moved on, in memory at once and in the file with the next
  save, unless the poll was lost; so the next alert about the query starts there (`Times` orders the polls).

What the liveness properties rest on is proved where it is safety: that the way to the end is
finite, or that nobody blocks it.

* `AnalysisIsBounded`: `StepsLeft` starts at 3n + 7 for n rules and falls with every step of an analysis.
* `EvictionsAreBounded` (`EvictionsArePaid`, which the run checks too): `Entries` counts the entries and the
  calls that may still store one; only a new call adds to it and every turn of an eviction loop takes from
  it, so there are no more turns than calls. Callers that never stop may keep one loop going: `CallsEndOnceNoneBegin`
  promises an end only once no call begins.
* `BackfillIsBounded`: each batch updates a row the block has not updated, because what it has
  updated is locked and filled (`HeldInv`), unless a NULL is filled in.
* `StopIsBounded`: `CycleLeft` falls with every step after the request to stop.
* `SessionsNeverDeadlock`: a session locks records in the order of their days (`LocksInDateOrder`), so of the
  sessions that wait, the one for the last day waits for one that does not.

Only model-checked: that the ends are reached (`AnalysisEnds`, `CallsEndOnceNoneBegin`, `BackfillEnds`,
`RequestsEnd`, `StopEnds`), which takes fairness and `ENABLED`, beyond the prover. Every other
property of a run that passes is stated by a theorem.

## Plan

1. **Proofs**: how far a day's plans can exceed the limit when requests overlap. It is bounded on the
   instances tried (the least value that the row or a session holds never falls), and grows with the limit and the
   workers: find the bound and prove it. A bound on the wait for a record's lock.
2. **Cloud pipeline**: the cache with its fallback, the worker, the task stream, events published
   before their commit.
3. **Second executor**: `DAGExecutor` as another implementation of `RuleExecution`, which then
   says in one place how the two differ. Nothing under `src/src` constructs it today.

## Not modelled

* Pure parts: rules, advisors, parsers, renderers, the generators of rollback and rewrite SQL. Their
  reference is PostgreSQL itself, and they keep no state between calls.
* Parts whose only state is one transaction of their own: the REST handlers besides those that
  count uses, the time series, the history.
* The cloud pipeline, the stats collector, the database budget and the metrics exporter: they keep state,
  and `PROJECT.json` names their hazards where they have any that the modelled parts do not show.
* `src/comb` and the other vendored sources: they are other projects' code.
