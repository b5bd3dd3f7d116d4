--------------------------- MODULE OnlineMigration ---------------------------
(***************************************************************************)
(* The phased plans of ZeroDowntimePlanner (migration/zero_downtime.py)    *)
(* that move data while the application writes: ADD COLUMN NOT NULL,       *)
(* RENAME COLUMN and ALTER COLUMN TYPE.  The SQL of the phases is what the *)
(* planner generates; PostgreSQL and the application run it:               *)
(*                                                                         *)
(*  - the backfill is one DO block, hence one transaction: the rows of its *)
(*    batches stay locked, and its updates unseen, until it commits;       *)
(*  - a write locks its row until it commits; ALTER TABLE and CREATE       *)
(*    TRIGGER wait for open writes (or give up at lock_timeout and are run *)
(*    again), the backfill skips their rows;                               *)
(*  - every phase but the last may be undone by its rollback SQL.          *)
(*                                                                         *)
(* "dst" is the column the plan adds, "src" the one it replaces.  The type *)
(* that RENAME's phase 1 gives dst is a subselect, which PostgreSQL does   *)
(* not parse: what is said of RENAME is said of a plan in which somebody   *)
(* has put the type in by hand, as the phase's note asks.                  *)
(***************************************************************************)
EXTENDS Integers, FiniteSets, FiniteSetsExt

CONSTANTS
  Row,        \* rows of the table
  App,        \* connections of the application
  Value,      \* values of the column, in its old type
  NULL,
  Unwritten,  \* no write of the application to a row yet
  BatchSize,  \* batch_size
  Paused      \* whether the application pauses its writes while data is copied:
              \* an assumption on who runs the plan, since no phase asks for it

NoRow == "no row"

ASSUME MigrationAssumption ==
  /\ IsFiniteSet(Row) /\ NoRow \notin Row /\ BatchSize \in Nat \ {0}
  /\ NULL \notin Value /\ Unwritten \notin Value \cup {NULL} /\ Paused \in BOOLEAN

Plans == {"add_not_null", "rename", "alter_type"}
Phases == {"start", "expanded", "backfill", "filled", "checked", "synced", "done"}

VARIABLES
  plan,     \* which of the plans this is; it never changes
  default,  \* the DEFAULT of ADD COLUMN, NULL without one; it never changes
  at,       \* the last phase carried out, or "backfill" while it runs
  src,      \* row -> value of the old column
  dst,      \* row -> value of the new column, the backfill's updates included
  held,     \* rows the backfill has updated and not yet committed
  lock,     \* connection -> row of its open write
  uses,     \* connection -> column its code uses, "src" or "dst"
  truth     \* history: row -> the application's last committed write

vars == <<plan, default, at, src, dst, held, lock, uses, truth>>
table == <<src, dst, held, truth>>

-----------------------------------------------------------------------------
\* A value as the new column stores it: ALTER TYPE casts it.
Stored(v) == IF plan = "alter_type" /\ v # NULL THEN <<v>> ELSE v

\* The WHERE clause of the backfill.
NeedsFill(r) == dst[r] = NULL /\ (plan = "rename" => src[r] # NULL)

\* Mistake: the value copied without its cast.
FillUncast(r) == IF plan = "add_not_null" THEN default ELSE src[r]

\* The SET clause of the backfill.
FillValue(r) == IF plan = "add_not_null" THEN default ELSE Stored(src[r])

Locked(r) == \E a \in App : lock[a] = r
NoWriteOpen == \A a \in App : lock[a] = NoRow
AllUse(column) == \A a \in App : uses[a] = column

Init ==
  /\ plan \in Plans
  /\ default \in IF plan = "add_not_null" THEN Value \cup {NULL} ELSE {NULL}
  /\ at = "start"
  /\ src \in IF plan = "add_not_null" THEN {[r \in Row |-> NULL]} ELSE [Row -> Value \cup {NULL}]
  /\ dst = [r \in Row |-> NULL]
  /\ held = {}
  /\ lock = [a \in App |-> NoRow]
  /\ uses = [a \in App |-> "src"]
  /\ truth = IF plan = "add_not_null" THEN [r \in Row |-> Unwritten] ELSE src

\* A statement that needs the table for itself takes the plan to a phase.
Alter(from, to) ==
  /\ at = from /\ NoWriteOpen
  /\ at' = to
  /\ UNCHANGED <<plan, default, lock>>

-----------------------------------------------------------------------------
\* The phases.

\* Phase 1: the column is added, with the default where there is one.
Expand ==
  /\ Alter("start", "expanded")
  /\ dst' = [r \in Row |-> default]
  /\ UNCHANGED <<src, held, uses, truth>>

\* Phase 2, which may be run again; each turn of the loop takes up to
\* BatchSize rows that need a value and that no open write has locked.
StartBackfill ==
  /\ at \in {"expanded", "filled"}
  /\ at' = "backfill"
  /\ UNCHANGED <<plan, default, lock, uses>> /\ UNCHANGED table

Todo == {r \in Row : NeedsFill(r) /\ ~Locked(r)}

Batch ==
  /\ at = "backfill" /\ Todo # {}
  /\ \E batch \in kSubset(IF Cardinality(Todo) < BatchSize THEN Cardinality(Todo)
                                                           ELSE BatchSize, Todo) :
       /\ dst' = [r \in Row |-> IF r \in batch THEN FillValue(r) ELSE dst[r]]
       /\ held' = held \cup batch
  /\ UNCHANGED <<plan, default, at, src, lock, uses, truth>>

\* Mistake: the loop left only when every row has a value, locked or not.
CommitBackfillWhenComplete ==
  /\ at = "backfill" /\ \A r \in Row : ~NeedsFill(r) /\ ~Locked(r)
  /\ at' = "filled" /\ held' = {}
  /\ UNCHANGED <<plan, default, src, dst, lock, uses, truth>>

\* EXIT WHEN affected = 0, and the end of the DO block.
CommitBackfill ==
  /\ at = "backfill" /\ Todo = {}
  /\ at' = "filled" /\ held' = {}
  /\ UNCHANGED <<plan, default, src, dst, lock, uses, truth>>

\* The DO block fails or is cancelled.
AbortBackfill ==
  /\ at = "backfill"
  /\ dst' = [r \in Row |-> IF r \in held THEN NULL ELSE dst[r]]
  /\ at' = "expanded" /\ held' = {}
  /\ UNCHANGED <<plan, default, src, lock, uses, truth>>

\* ADD COLUMN, phase 3: the check that binds new writes, then its validation.
AddCheck ==
  /\ plan = "add_not_null" /\ Alter("filled", "checked")
  /\ UNCHANGED uses /\ UNCHANGED table

\* Mistake: the constraint trusted without the scan.
ValidateBlindly ==
  /\ plan = "add_not_null" /\ at = "checked"
  /\ at' = "done"
  /\ UNCHANGED <<plan, default, lock, uses>> /\ UNCHANGED table

\* It fails, and changes nothing, while a row is NULL; it waits for no write.
Validate ==
  /\ plan = "add_not_null" /\ at = "checked"
  /\ \A r \in Row : dst[r] # NULL
  /\ at' = "done"
  /\ UNCHANGED <<plan, default, lock, uses>> /\ UNCHANGED table

\* RENAME, phases 3 and 4: the trigger, then, once all code uses the new
\* column, the end of the old one.
CreateTrigger ==
  /\ plan = "rename" /\ Alter("filled", "synced")
  /\ UNCHANGED uses /\ UNCHANGED table

DropOld ==
  /\ plan = "rename" /\ AllUse("dst") /\ Alter("synced", "done")
  /\ src' = [r \in Row |-> NULL]
  /\ UNCHANGED <<dst, held, uses, truth>>

\* ALTER TYPE, phase 3: the old column dropped, the new one renamed.
Swap ==
  /\ plan = "alter_type" /\ Alter("filled", "done")
  /\ src' = [r \in Row |-> NULL]
  /\ UNCHANGED <<dst, held, uses, truth>>

-----------------------------------------------------------------------------
\* The rollback SQL of the phases that have one.

UndoExpand ==
  /\ Alter("expanded", "start")
  /\ dst' = [r \in Row |-> NULL]
  /\ truth' = IF plan = "add_not_null" THEN [r \in Row |-> Unwritten] ELSE truth
  /\ UNCHANGED <<src, held, uses>>

\* The WHERE clause of the backfill's rollback: all rows, or, whoever wrote
\* them, those equal to the default.
Clears(r) == plan = "add_not_null" => default # NULL /\ dst[r] = default

\* A plain UPDATE: it waits for the open writes of the rows it clears and runs
\* beside those of other rows.
UndoBackfill ==
  /\ at = "filled" /\ \A r \in Row : Clears(r) => ~Locked(r)
  /\ at' = "expanded"
  /\ dst' = [r \in Row |-> IF Clears(r) THEN NULL ELSE dst[r]]
  /\ UNCHANGED <<plan, default, src, held, lock, uses, truth>>

UndoCheck ==
  /\ Alter("checked", "filled") \/ (plan = "add_not_null" /\ Alter("done", "filled"))
  /\ UNCHANGED uses /\ UNCHANGED table

\* Nothing asks whether some code already uses the new column.
UndoTrigger ==
  /\ plan = "rename" /\ Alter("synced", "filled")
  /\ UNCHANGED uses /\ UNCHANGED table

-----------------------------------------------------------------------------
\* The application.

\* When it writes: with pauses, not from the first to the last step of copying.
Busy == IF Paused /\ plan # "add_not_null" THEN {"start", "synced", "done"}
        ELSE Phases \ (IF plan = "add_not_null" THEN {"start"} ELSE {})

\* A write of code whose column does not exist fails and changes nothing.
BeginWrite(a) ==
  /\ lock[a] = NoRow /\ at \in Busy /\ (uses[a] = "dst" => at # "start")
  /\ \E r \in Row \ held : ~Locked(r) /\ lock' = [lock EXCEPT ![a] = r]
  /\ UNCHANGED <<plan, default, at, uses>> /\ UNCHANGED table

\* Mistake: a trigger that copies in one direction only.
CopyToOld(a, r, v) ==
  IF uses[a] = "src" THEN [src |-> v, dst |-> dst[r]]
  ELSE [src |-> IF v # dst[r] THEN v ELSE src[r], dst |-> v]

\* The row after a write under the trigger: what differs from the old row is
\* copied to the other column.
Triggered(a, r, v) ==
  IF uses[a] = "src" THEN [src |-> v, dst |-> IF v # src[r] THEN v ELSE dst[r]]
  ELSE [src |-> IF v # dst[r] THEN v ELSE src[r], dst |-> v]

Written(a, r, v) ==
  IF at = "synced" THEN Triggered(a, r, v)
  ELSE IF at = "done" \/ plan = "add_not_null" \/ uses[a] = "dst"
       THEN [src |-> src[r], dst |-> Stored(v)]
  ELSE [src |-> v, dst |-> dst[r]]

CommitWrite(a) ==
  /\ lock[a] # NoRow
  /\ \E v \in Value \cup {NULL} :
       /\ plan = "add_not_null" /\ at \in {"checked", "done"} => v # NULL
       /\ LET r == lock[a] IN
            /\ src' = [src EXCEPT ![r] = Written(a, r, v).src]
            /\ dst' = [dst EXCEPT ![r] = Written(a, r, v).dst]
            /\ truth' = [truth EXCEPT ![r] = v]
  /\ lock' = [lock EXCEPT ![a] = NoRow]
  /\ UNCHANGED <<plan, default, at, held, uses>>

AbortWrite(a) ==
  /\ lock[a] # NoRow
  /\ lock' = [lock EXCEPT ![a] = NoRow]
  /\ UNCHANGED <<plan, default, at, uses>> /\ UNCHANGED table

\* requires_app_change, which phase 1 already asks for: code that uses the new
\* column is rolled out as soon as there is one, and rolled back while there is
\* an old one.
Deploy(a) ==
  /\ plan = "rename" /\ lock[a] = NoRow /\ at # "done"
  /\ \/ uses[a] = "src" /\ at # "start" /\ uses' = [uses EXCEPT ![a] = "dst"]
     \/ uses[a] = "dst" /\ uses' = [uses EXCEPT ![a] = "src"]
  /\ UNCHANGED <<plan, default, at, lock>> /\ UNCHANGED table

-----------------------------------------------------------------------------
Next ==
  \/ Expand \/ StartBackfill \/ Batch \/ CommitBackfill \/ AbortBackfill
  \/ AddCheck \/ Validate \/ CreateTrigger \/ DropOld \/ Swap
  \/ UndoExpand \/ UndoBackfill \/ UndoCheck \/ UndoTrigger
  \/ \E a \in App : BeginWrite(a) \/ CommitWrite(a) \/ AbortWrite(a) \/ Deploy(a)

Spec == Init /\ [][Next]_vars

\* The server runs the DO block on.
FairSpec == Spec /\ WF_vars(Batch \/ CommitBackfill)

-----------------------------------------------------------------------------
\* Types of the variables; the new column holds values of its own type.
TypeOK ==
  /\ plan \in Plans /\ default \in Value \cup {NULL} /\ at \in Phases
  /\ src \in [Row -> Value \cup {NULL}]
  /\ dst \in [Row -> {Stored(v) : v \in Value \cup {NULL}}]
  /\ held \subseteq Row
  /\ lock \in [App -> Row \cup {NoRow}]
  /\ uses \in [App -> {"src", "dst"}]
  /\ truth \in [Row -> Value \cup {NULL, Unwritten}]

\* A completed ADD COLUMN NOT NULL means it: whatever rows the backfill had to
\* skip and whatever was written meanwhile, no row is NULL, then or later.
NotNullHolds == plan = "add_not_null" /\ at = "done" => \A r \in Row : dst[r] # NULL

\* No committed write is lost: when the plan is complete every row has the
\* value the application wrote last (a NULL that was written before NOT NULL
\* was asked for excepted).
NoUpdateLost ==
  at = "done" => \A r \in Row :
    \/ dst[r] = Stored(truth[r])
    \/ plan = "add_not_null" /\ truth[r] \in {NULL, Unwritten}

\* "Keeps both columns in sync during the transition period": from the creation
\* of the trigger on, old and new code read the same values.
ColumnsInSync == at = "synced" => src = dst

\* The backfill ends, unless the value it has to fill in is itself NULL.
BackfillEnds ==
  at = "backfill" ~>
    \/ at # "backfill"
    \/ \E r \in Row : NeedsFill(r) /\ FillValue(r) = NULL
=============================================================================
