------------------------ MODULE OnlineMigrationProofs ------------------------
(***************************************************************************)
(* For any table, any number of connections and any batch size: a completed*)
(* ADD COLUMN NOT NULL leaves no NULL, and, when the application pauses    *)
(* its writes while data is copied, no plan loses a committed write.       *)
(***************************************************************************)
EXTENDS OnlineMigration, FiniteSetTheorems, TLAPS

Values == Value \cup {NULL}

\* Which plans have which phase, and which a default.
PhaseOfPlan ==
  /\ at = "synced" => plan = "rename"
  /\ at = "checked" => plan = "add_not_null"
  /\ plan # "add_not_null" => default = NULL

\* ADD COLUMN NOT NULL: what the application wrote is there, or it was the
\* default and will be filled in again; a completed plan has no NULL.
AddInv ==
  plan = "add_not_null" =>
    /\ at = "start" => NoWriteOpen /\ \A r \in Row : truth[r] = Unwritten
    /\ \A r \in Row : truth[r] \in Value =>
         \/ dst[r] = truth[r]
         \/ dst[r] = NULL /\ truth[r] = default
    /\ \A r \in held : truth[r] \in Value => truth[r] = default
    /\ \A a \in App : lock[a] # NoRow => lock[a] \notin held
    /\ at = "done" => \A r \in Row : dst[r] # NULL

\* The plans that copy, with pauses: between the first and the last step of
\* copying nobody writes, so the copies are of what was written last.
CopyInv ==
  plan # "add_not_null" /\ Paused =>
    /\ at \in {"expanded", "backfill", "filled"} => NoWriteOpen
    /\ at = "start" => \A a \in App : lock[a] # NoRow => uses[a] = "src"
    /\ at \in {"start", "expanded", "backfill", "filled", "synced"} => truth = src
    /\ at \in {"expanded", "backfill", "filled"} =>
         \A r \in Row : dst[r] \in {NULL, Stored(src[r])}
    /\ at = "filled" => \A r \in Row : dst[r] = Stored(src[r])
    /\ at = "synced" => dst = src
    /\ at = "done" => \A r \in Row : dst[r] = Stored(truth[r])

Inv == TypeOK /\ PhaseOfPlan /\ AddInv /\ CopyInv

-----------------------------------------------------------------------------
LEMMA Distinct == NULL \notin Value /\ Unwritten \notin Value /\ Unwritten # NULL
BY MigrationAssumption

LEMMA StoredFacts ==
  /\ \A v \in Values : Stored(v) \in {Stored(u) : u \in Values}
  /\ Stored(NULL) = NULL
  /\ plan # "alter_type" => \A v : Stored(v) = v
BY DEF Stored, Values

LEMMA InitInv == Init => Inv
<1> SUFFICES ASSUME Init PROVE Inv
  OBVIOUS
<1>1. NULL \in {Stored(v) : v \in Values}
  BY DEF Stored, Values
<1>2. TypeOK
  BY <1>1 DEF Init, TypeOK, Plans, Phases, Values
<1>3. AddInv
  BY Distinct DEF Init, AddInv, NoWriteOpen
<1>4. CopyInv
  BY DEF Init, CopyInv
<1>5. PhaseOfPlan
  BY DEF Init, PhaseOfPlan
<1> QED BY <1>2, <1>3, <1>4, <1>5 DEF Inv

-----------------------------------------------------------------------------
\* Typing.
LEMMA PhaseStep == PhaseOfPlan /\ [Next]_vars => PhaseOfPlan'
BY DEF PhaseOfPlan, Next, vars, table, Alter, Expand, StartBackfill, Batch, CommitBackfill,
       AbortBackfill, AddCheck, Validate, CreateTrigger, DropOld, Swap, UndoExpand,
       UndoBackfill, UndoCheck, UndoTrigger, BeginWrite, CommitWrite, AbortWrite, Deploy

LEMMA TypeStep == TypeOK /\ PhaseOfPlan /\ [Next]_vars => TypeOK'
<1> SUFFICES ASSUME TypeOK, PhaseOfPlan, [Next]_vars PROVE TypeOK'
  OBVIOUS
<1> DEFINE D == {Stored(v) : v \in Values}
<1>0. /\ default \in Values /\ src \in [Row -> Values] /\ dst \in [Row -> D]
      /\ NULL \in D /\ (plan' = plan => D' = D)
  BY DEF TypeOK, Values, Stored
<1>t. TypeOK' <=>
        /\ plan' \in Plans /\ default' \in Values /\ at' \in Phases
        /\ src' \in [Row -> Values] /\ dst' \in [Row -> D']
        /\ held' \subseteq Row
        /\ lock' \in [App -> Row \cup {NoRow}]
        /\ uses' \in [App -> {"src", "dst"}]
        /\ truth' \in [Row -> Value \cup {NULL, Unwritten}]
  BY DEF TypeOK, Values
<1>f. \A r \in Row : FillValue(r) \in D
  <2>1. \A r \in Row : Stored(src[r]) \in D
    BY <1>0, StoredFacts
  <2>2. plan = "add_not_null" => default \in D
    BY <1>0, StoredFacts
  <2> QED BY <2>1, <2>2 DEF FillValue
<1> HIDE DEF D
<1> USE DEF Alter, Phases, table
<1>1. CASE Expand
  <2>1. default \in D
    <3>1. CASE plan = "add_not_null"
      BY <1>0, <3>1 DEF D, Stored
    <3>2. CASE plan # "add_not_null"
      BY <1>0, <3>2 DEF PhaseOfPlan
    <3> QED BY <3>1, <3>2
  <2> QED BY <1>0, <1>1, <1>t, <2>1 DEF Expand, TypeOK
<1>2. CASE StartBackfill
  BY <1>0, <1>2, <1>t DEF StartBackfill, TypeOK
<1>3. CASE Batch
  <2>1. PICK batch \in SUBSET Todo :
          /\ dst' = [r \in Row |-> IF r \in batch THEN FillValue(r) ELSE dst[r]]
          /\ held' = held \cup batch
    BY <1>3 DEF Batch, kSubset
  <2>2. batch \subseteq Row
    BY <2>1 DEF Todo
  <2> QED BY <1>0, <1>3, <1>f, <1>t, <2>1, <2>2 DEF Batch, TypeOK
<1>4. CASE CommitBackfill
  BY <1>0, <1>4, <1>t DEF CommitBackfill, TypeOK
<1>5. CASE AbortBackfill
  BY <1>0, <1>5, <1>t DEF AbortBackfill, TypeOK
<1>6. CASE AddCheck \/ Validate \/ CreateTrigger \/ UndoCheck \/ UndoTrigger
  BY <1>0, <1>6, <1>t DEF AddCheck, Validate, CreateTrigger, UndoCheck, UndoTrigger, TypeOK
<1>7. CASE DropOld \/ Swap
  BY <1>0, <1>7, <1>t DEF DropOld, Swap, TypeOK, Values
<1>8. CASE UndoExpand \/ UndoBackfill
  BY <1>0, <1>8, <1>t DEF UndoExpand, UndoBackfill, TypeOK
<1>9. ASSUME NEW a \in App, BeginWrite(a) \/ AbortWrite(a) \/ Deploy(a) PROVE TypeOK'
  BY <1>0, <1>9, <1>t DEF BeginWrite, AbortWrite, Deploy, TypeOK
<1>10. ASSUME NEW a \in App, CommitWrite(a) PROVE TypeOK'
  <2>1. PICK v \in Values :
          /\ src' = [src EXCEPT ![lock[a]] = Written(a, lock[a], v).src]
          /\ dst' = [dst EXCEPT ![lock[a]] = Written(a, lock[a], v).dst]
          /\ truth' = [truth EXCEPT ![lock[a]] = v]
    BY <1>10 DEF CommitWrite, Values
  <2>2. lock[a] \in Row
    BY <1>10 DEF CommitWrite, TypeOK
  <2>3. v \in Value \cup {NULL, Unwritten} /\ Stored(v) \in D
    BY <2>1 DEF D, Values
  <2>4. plan = "rename" => D = Values
    BY DEF D, Stored
  <2>5. /\ Written(a, lock[a], v).src \in Values
        /\ Written(a, lock[a], v).dst \in D
    <3>1. CASE at = "synced"
      BY <1>0, <2>2, <2>4, <3>1 DEF Written, Triggered, PhaseOfPlan
    <3>2. CASE at # "synced"
      BY <1>0, <2>2, <2>3, <3>2 DEF Written
    <3> QED BY <3>1, <3>2
  <2> QED BY <1>0, <1>10, <1>t, <2>1, <2>2, <2>3, <2>5 DEF CommitWrite, TypeOK
<1>11. CASE UNCHANGED vars
  BY <1>0, <1>11, <1>t DEF vars, TypeOK
<1> QED BY <1>1, <1>2, <1>3, <1>4, <1>5, <1>6, <1>7, <1>8, <1>9, <1>10, <1>11 DEF Next

-----------------------------------------------------------------------------
\* ADD COLUMN NOT NULL.
LEMMA AddStep == Inv /\ [Next]_vars => AddInv'
<1> SUFFICES ASSUME Inv, [Next]_vars, plan = "add_not_null" PROVE AddInv'
  BY DEF Inv, AddInv, Next, vars, table, Alter, Expand, StartBackfill, Batch, CommitBackfill,
         AbortBackfill, AddCheck, Validate, CreateTrigger, DropOld, Swap, UndoExpand,
         UndoBackfill, UndoCheck, UndoTrigger, BeginWrite, CommitWrite, AbortWrite, Deploy
<1> USE Distinct DEF Alter, table, NoWriteOpen
<1>0. TypeOK /\ PhaseOfPlan /\ AddInv
  BY DEF Inv
<1>1. CASE Expand
  BY <1>0, <1>1 DEF Expand, AddInv, TypeOK
<1>2. CASE StartBackfill
  BY <1>0, <1>2 DEF StartBackfill, AddInv
<1>3. CASE Batch
  <2>1. PICK batch \in SUBSET Todo :
          /\ dst' = [r \in Row |-> IF r \in batch THEN FillValue(r) ELSE dst[r]]
          /\ held' = held \cup batch
    BY <1>3 DEF Batch, kSubset
  <2>2. \A r \in batch : /\ r \in Row /\ FillValue(r) = default
                         /\ truth[r] \in Value => truth[r] = default
                         /\ \A a \in App : lock[a] # r
    BY <1>0, <2>1 DEF Todo, NeedsFill, Locked, FillValue, AddInv
  <2> QED BY <1>0, <1>3, <2>1, <2>2 DEF Batch, AddInv, TypeOK
<1>4. CASE CommitBackfill
  BY <1>0, <1>4 DEF CommitBackfill, AddInv
<1>5. CASE AbortBackfill
  BY <1>0, <1>5 DEF AbortBackfill, AddInv, TypeOK
<1>6. CASE AddCheck \/ Validate \/ UndoCheck
  BY <1>0, <1>6 DEF AddCheck, Validate, UndoCheck, AddInv
<1>7. CASE CreateTrigger \/ DropOld \/ Swap \/ UndoTrigger
  BY <1>0, <1>7 DEF CreateTrigger, DropOld, Swap, UndoTrigger, PhaseOfPlan
<1>8. CASE UndoExpand
  BY <1>0, <1>8 DEF UndoExpand, AddInv, TypeOK
<1>9. CASE UndoBackfill
  BY <1>0, <1>9 DEF UndoBackfill, Clears, AddInv, TypeOK
<1>10. ASSUME NEW a \in App, BeginWrite(a) \/ AbortWrite(a) \/ Deploy(a) PROVE AddInv'
  BY <1>0, <1>10 DEF BeginWrite, AbortWrite, Deploy, AddInv, TypeOK, Busy
<1>11. ASSUME NEW a \in App, CommitWrite(a) PROVE AddInv'
  <2>1. PICK v \in Values :
          /\ at \in {"checked", "done"} => v # NULL
          /\ dst' = [dst EXCEPT ![lock[a]] = v]
          /\ truth' = [truth EXCEPT ![lock[a]] = v]
    BY <1>0, <1>11 DEF CommitWrite, Values, Written, Stored, PhaseOfPlan
  <2>2. lock[a] \in Row /\ lock[a] \notin held
    BY <1>0, <1>11 DEF CommitWrite, TypeOK, AddInv
  <2>3. /\ \A r \in Row : /\ truth'[r] = IF r = lock[a] THEN v ELSE truth[r]
                          /\ dst'[r] = IF r = lock[a] THEN v ELSE dst[r]
        /\ \A b \in App : lock'[b] = IF b = a THEN NoRow ELSE lock[b]
        /\ at # "start" /\ UNCHANGED <<plan, default, at, held>> /\ held \subseteq Row
    BY <1>0, <1>11, <2>1, <2>2 DEF CommitWrite, TypeOK, AddInv
  <2> QED BY <1>0, <1>11, <2>1, <2>2, <2>3 DEF AddInv
<1>12. CASE UNCHANGED vars
  BY <1>0, <1>12 DEF vars, AddInv
<1> QED BY <1>1, <1>2, <1>3, <1>4, <1>5, <1>6, <1>7, <1>8, <1>9, <1>10, <1>11, <1>12 DEF Next

-----------------------------------------------------------------------------
\* The plans that copy.
LEMMA CopyStep == Inv /\ [Next]_vars => CopyInv'
<1> SUFFICES ASSUME Inv, [Next]_vars, plan # "add_not_null", Paused, plan' = plan PROVE CopyInv'
  BY DEF Inv, CopyInv, Next, vars, table, Alter, Expand, StartBackfill, Batch, CommitBackfill,
         AbortBackfill, AddCheck, Validate, CreateTrigger, DropOld, Swap, UndoExpand,
         UndoBackfill, UndoCheck, UndoTrigger, BeginWrite, CommitWrite, AbortWrite, Deploy
<1> USE Distinct DEF Alter, table, NoWriteOpen
<1>0. TypeOK /\ PhaseOfPlan /\ CopyInv
  BY DEF Inv
<1>s. \A v : Stored(v)' = Stored(v)
  BY DEF Stored
<1>1. CASE Expand
  BY <1>0, <1>1, <1>s DEF Expand, CopyInv, TypeOK, PhaseOfPlan
<1>2. CASE StartBackfill
  BY <1>0, <1>2, <1>s DEF StartBackfill, CopyInv
<1>3. CASE Batch
  <2>1. PICK batch \in SUBSET Todo :
          dst' = [r \in Row |-> IF r \in batch THEN FillValue(r) ELSE dst[r]]
    BY <1>3 DEF Batch, kSubset
  <2>2. \A r \in Row : FillValue(r) = Stored(src[r])
    BY DEF FillValue
  <2> QED BY <1>0, <1>3, <1>s, <2>1, <2>2 DEF Batch, CopyInv, TypeOK
<1>4. CASE CommitBackfill
  <2>1. \A r \in Row : dst[r] = Stored(src[r])
    BY <1>0, <1>4, StoredFacts, MigrationAssumption
       DEF CommitBackfill, CopyInv, Todo, NeedsFill, Locked, TypeOK
  <2> QED BY <1>0, <1>4, <1>s, <2>1 DEF CommitBackfill, CopyInv
<1>5. CASE AbortBackfill
  BY <1>0, <1>5, <1>s DEF AbortBackfill, CopyInv, TypeOK
<1>6. CASE AddCheck \/ Validate
  BY <1>6 DEF AddCheck, Validate
<1>7. CASE CreateTrigger
  <2>1. \A r \in Row : dst[r] = src[r]
    BY <1>0, <1>7, StoredFacts DEF CreateTrigger, CopyInv
  <2>2. dst = src
    BY <1>0, <2>1 DEF TypeOK
  <2> QED BY <1>0, <1>7, <1>s, <2>2 DEF CreateTrigger, CopyInv
<1>8. CASE DropOld
  BY <1>0, <1>8, <1>s, StoredFacts DEF DropOld, CopyInv
<1>9. CASE Swap
  BY <1>0, <1>9, <1>s DEF Swap, CopyInv
<1>10. CASE UndoExpand
  BY <1>0, <1>10, <1>s DEF UndoExpand, CopyInv
<1>11. CASE UndoBackfill
  BY <1>0, <1>11, <1>s DEF UndoBackfill, Clears, CopyInv, TypeOK
<1>12. CASE UndoCheck \/ UndoTrigger
  BY <1>0, <1>12, <1>s, StoredFacts DEF UndoCheck, UndoTrigger, CopyInv, PhaseOfPlan
<1>13. ASSUME NEW a \in App, BeginWrite(a) \/ AbortWrite(a) \/ Deploy(a) PROVE CopyInv'
  BY <1>0, <1>13, <1>s DEF BeginWrite, AbortWrite, Deploy, CopyInv, TypeOK, Busy
<1>14. ASSUME NEW a \in App, CommitWrite(a) PROVE CopyInv'
  <2>1. PICK v \in Values :
          /\ src' = [src EXCEPT ![lock[a]] = Written(a, lock[a], v).src]
          /\ dst' = [dst EXCEPT ![lock[a]] = Written(a, lock[a], v).dst]
          /\ truth' = [truth EXCEPT ![lock[a]] = v]
    BY <1>14 DEF CommitWrite, Values
  <2>2. /\ lock[a] \in Row /\ at' = at
        /\ at \in {"start", "synced", "done"}
    BY <1>0, <1>14 DEF CommitWrite, TypeOK, CopyInv, PhaseOfPlan, Phases
  <2>3. CASE at = "start"
    <3>1. uses[a] = "src"
      BY <1>0, <1>14, <2>3 DEF CommitWrite, CopyInv
    <3>2. /\ Written(a, lock[a], v).src = v
          /\ \A b \in App : lock'[b] # NoRow => lock[b] # NoRow
          /\ uses' = uses
      BY <1>0, <1>14, <2>3, <3>1 DEF Written, CommitWrite, TypeOK
    <3> QED BY <1>0, <2>1, <2>2, <2>3, <3>2 DEF CopyInv, TypeOK
  <2>4. CASE at = "synced"
    <3>1. /\ Written(a, lock[a], v).src = v
          /\ Written(a, lock[a], v).dst = v
      BY <1>0, <2>2, <2>4 DEF Written, Triggered, CopyInv
    <3> QED BY <1>0, <2>1, <2>2, <2>4, <3>1 DEF CopyInv
  <2>5. CASE at = "done"
    BY <1>0, <1>s, <2>1, <2>2, <2>5 DEF Written, CopyInv, TypeOK
  <2> QED BY <2>2, <2>3, <2>4, <2>5
<1>15. CASE UNCHANGED vars
  BY <1>0, <1>15, <1>s DEF vars, CopyInv
<1> QED BY <1>1, <1>2, <1>3, <1>4, <1>5, <1>6, <1>7, <1>8, <1>9, <1>10, <1>11, <1>12,
           <1>13, <1>14, <1>15 DEF Next

-----------------------------------------------------------------------------
LEMMA Inductive == Spec => []Inv
<1>1. Inv /\ [Next]_vars => Inv'
  BY TypeStep, PhaseStep, AddStep, CopyStep DEF Inv
<1> QED BY <1>1, InitInv, PTL DEF Spec

\* The variables keep their types: no value reaches the new column without
\* the cast of ALTER TYPE.
THEOREM TypeCorrect == Spec => []TypeOK
<1>1. Inv => TypeOK
  BY DEF Inv
<1> QED BY <1>1, Inductive, PTL

\* A completed ADD COLUMN NOT NULL leaves no NULL, however the application's
\* writes fall between the phases, and whether it pauses them or not.
THEOREM NoNullLeft == Spec => []NotNullHolds
<1>1. Inv => NotNullHolds
  BY DEF Inv, AddInv, NotNullHolds
<1> QED BY <1>1, Inductive, PTL

\* With writes paused while data is copied no plan loses a committed write.
THEOREM PausedKeepsUpdates == Paused => (Spec => []NoUpdateLost)
<1> SUFFICES ASSUME Paused PROVE Spec => []NoUpdateLost
  OBVIOUS
<1>1. Inv => NoUpdateLost
  <2> SUFFICES ASSUME Inv, at = "done", NEW r \in Row
               PROVE  \/ dst[r] = Stored(truth[r])
                      \/ plan = "add_not_null" /\ truth[r] \in {NULL, Unwritten}
    BY DEF NoUpdateLost
  <2>1. CASE plan = "add_not_null"
    <3>1. dst[r] # NULL /\ (truth[r] \in Value => dst[r] = truth[r])
      BY <2>1 DEF Inv, AddInv
    <3> QED BY <2>1, <3>1 DEF Inv, TypeOK, Stored
  <2>2. CASE plan # "add_not_null"
    BY <2>2 DEF Inv, CopyInv
  <2> QED BY <2>1, <2>2
<1> QED BY <1>1, Inductive, PTL

-----------------------------------------------------------------------------
\* The rows the backfill has not updated yet.
RowsLeft == Cardinality(Row \ held)

NullToFill == \E r \in Row : NeedsFill(r) /\ FillValue(r) = NULL

\* A turn of the backfill's loop updates a row it has not updated before, or
\* there is a NULL to fill in; and while the loop runs no row is given back.
BackfillAdvances ==
  at = "backfill" /\ at' = "backfill" =>
    /\ RowsLeft \in Nat /\ RowsLeft' \in Nat /\ RowsLeft' <= RowsLeft
    /\ Batch => RowsLeft' < RowsLeft \/ NullToFill

\* A row the running backfill has updated holds the value that was filled in,
\* because nobody else can write it.
HeldInv ==
  /\ at # "backfill" => held = {}
  /\ \A r \in held : dst[r] = FillValue(r)
  /\ \A a \in App : lock[a] # NoRow => lock[a] \notin held

LEMMA HeldStep == TypeOK /\ HeldInv /\ [Next]_vars => HeldInv'
<1> SUFFICES ASSUME TypeOK, HeldInv, [Next]_vars PROVE HeldInv'
  OBVIOUS
<1> USE DEF Alter, table
<1>1. plan' = plan /\ default' = default
  BY DEF Next, vars, Expand, StartBackfill, Batch, CommitBackfill, AbortBackfill,
         AddCheck, Validate, CreateTrigger, DropOld, Swap, UndoExpand, UndoBackfill,
         UndoCheck, UndoTrigger, BeginWrite, CommitWrite, AbortWrite, Deploy
<1>2. \A r : src'[r] = src[r] => FillValue(r)' = FillValue(r)
  BY <1>1 DEF FillValue, Stored
<1>3. CASE at # "backfill" /\ held' = {}
  BY <1>3 DEF HeldInv
<1>4. CASE Batch
  <2>1. PICK batch \in SUBSET Todo :
          /\ dst' = [r \in Row |-> IF r \in batch THEN FillValue(r) ELSE dst[r]]
          /\ held' = held \cup batch
    BY <1>4 DEF Batch, kSubset
  <2>2. at' = "backfill" /\ src' = src /\ lock' = lock /\ held \subseteq Row
    BY <1>4 DEF Batch, TypeOK, HeldInv
  <2>3. \A r \in held' : dst'[r] = FillValue(r)
    BY <2>1, <2>2 DEF HeldInv, Todo
  <2>4. \A a \in App : lock[a] # NoRow => lock[a] \notin held'
    BY <2>1 DEF HeldInv, Todo, Locked
  <2>5. \A r \in held' : dst'[r] = FillValue(r)'
    BY <1>2, <2>2, <2>3
  <2>6. QED  BY <2>2, <2>4, <2>5 DEF HeldInv
<1>5. CASE CommitBackfill \/ AbortBackfill
  BY <1>5 DEF CommitBackfill, AbortBackfill, HeldInv
<1>6. ASSUME NEW a \in App, CommitWrite(a) PROVE HeldInv'
  <2>1. /\ at' = at /\ held' = held /\ lock[a] \notin held
        /\ \A r \in Row \ {lock[a]} : src'[r] = src[r] /\ dst'[r] = dst[r]
        /\ lock' = [lock EXCEPT ![a] = NoRow]
    BY <1>6 DEF CommitWrite, HeldInv, TypeOK
  <2>2. \A r \in held : dst'[r] = FillValue(r)'
    BY <1>2, <2>1 DEF HeldInv, TypeOK
  <2>3. \A b \in App : lock'[b] # NoRow => lock'[b] \notin held
    BY <2>1 DEF HeldInv, TypeOK
  <2>4. QED  BY <2>1, <2>2, <2>3 DEF HeldInv
<1>7. ASSUME NEW a \in App, BeginWrite(a) PROVE HeldInv'
  <2>1. PICK r \in Row \ held : lock' = [lock EXCEPT ![a] = r]
    BY <1>7 DEF BeginWrite
  <2>2. at' = at /\ held' = held /\ src' = src /\ dst' = dst
    BY <1>7 DEF BeginWrite
  <2>3. \A b \in App : lock'[b] # NoRow => lock'[b] \notin held
    BY <2>1 DEF HeldInv, TypeOK
  <2>4. QED  BY <1>2, <2>2, <2>3 DEF HeldInv
<1>8. ASSUME NEW a \in App, AbortWrite(a) \/ Deploy(a) PROVE HeldInv'
  <2>1. /\ at' = at /\ held' = held /\ src' = src /\ dst' = dst
        /\ lock' \in {lock, [lock EXCEPT ![a] = NoRow]}
    BY <1>8 DEF AbortWrite, Deploy
  <2>2. \A b \in App : lock'[b] # NoRow => lock'[b] \notin held
    BY <2>1 DEF HeldInv, TypeOK
  <2>3. QED  BY <1>2, <2>1, <2>2 DEF HeldInv
<1>9. CASE StartBackfill \/ UNCHANGED vars
  BY <1>2, <1>9 DEF StartBackfill, vars, HeldInv
<1>10. CASE \/ Expand \/ AddCheck \/ Validate \/ CreateTrigger \/ DropOld \/ Swap
            \/ UndoExpand \/ UndoBackfill \/ UndoCheck \/ UndoTrigger
  <2>1. at # "backfill" /\ held' = held
    BY <1>10 DEF Expand, AddCheck, Validate, CreateTrigger, DropOld, Swap, UndoExpand,
                 UndoBackfill, UndoCheck, UndoTrigger
  <2>2. QED  BY <1>3, <2>1 DEF HeldInv
<1>11. QED
  BY <1>4, <1>5, <1>6, <1>7, <1>8, <1>9, <1>10 DEF Next

LEMMA AdvanceStep == TypeOK /\ HeldInv /\ [Next]_vars => BackfillAdvances
<1> SUFFICES ASSUME TypeOK, HeldInv, [Next]_vars, at = "backfill", at' = "backfill"
             PROVE  /\ RowsLeft \in Nat /\ RowsLeft' \in Nat /\ RowsLeft' <= RowsLeft
                    /\ Batch => RowsLeft' < RowsLeft \/ NullToFill
  BY DEF BackfillAdvances
<1>1. held \subseteq held'
  BY DEF Next, vars, table, Alter, Expand, StartBackfill, Batch, CommitBackfill,
         AbortBackfill, AddCheck, Validate, CreateTrigger, DropOld, Swap, UndoExpand,
         UndoBackfill, UndoCheck, UndoTrigger, BeginWrite, CommitWrite, AbortWrite, Deploy
<1>2. IsFiniteSet(Row \ held) /\ (Row \ held') \in SUBSET (Row \ held)
  BY <1>1, FS_Subset, MigrationAssumption
<1>3. IsFiniteSet(Row \ held')  BY <1>2, FS_Subset
<1>4. RowsLeft \in Nat /\ RowsLeft' \in Nat
  BY <1>2, <1>3, FS_CardinalityType DEF RowsLeft
<1>5. RowsLeft' <= RowsLeft  BY <1>2, FS_Subset DEF RowsLeft
<1>6. ASSUME Batch, ~NullToFill PROVE RowsLeft' < RowsLeft
  <2>1. IsFiniteSet(Todo)
    <3>1. Todo \in SUBSET Row  BY DEF Todo
    <3>2. QED  BY <3>1, FS_Subset, MigrationAssumption
  <2>2. Cardinality(Todo) \in Nat /\ Cardinality(Todo) # 0
    BY <1>6, <2>1, FS_CardinalityType, FS_EmptySet DEF Batch
  <2>3. PICK batch \in SUBSET Todo :
          /\ Cardinality(batch) = IF Cardinality(Todo) < BatchSize THEN Cardinality(Todo)
                                                                  ELSE BatchSize
          /\ held' = held \cup batch
    BY <1>6 DEF Batch, kSubset
  <2>4. Cardinality(batch) # 0  BY <2>2, <2>3, MigrationAssumption
  <2>5. PICK r \in batch : TRUE
    <3>1. batch # {}  BY <2>4, FS_EmptySet
    <3>2. QED  BY <3>1
  <2>6. r \in Row /\ NeedsFill(r)  BY <2>5 DEF Todo
  <2>7. r \notin held  BY <1>6, <2>6 DEF HeldInv, NullToFill, NeedsFill
  <2>8. (Row \ held') # (Row \ held)  BY <2>3, <2>5, <2>6, <2>7
  <2>9. RowsLeft' # RowsLeft  BY <1>2, <2>8, FS_Subset DEF RowsLeft
  <2>10. QED  BY <1>4, <1>5, <2>9
<1>7. QED  BY <1>4, <1>5, <1>6

\* The loop of a backfill turns at most once for each row of the table, however
\* the application writes meanwhile, while no NULL has to be filled in.
THEOREM BackfillIsBounded == Spec => [][BackfillAdvances]_vars
<1>1. Init => HeldInv  BY DEF Init, HeldInv
<1>2. Inv => TypeOK  BY DEF Inv
<1>3. Spec => []HeldInv  BY <1>1, <1>2, HeldStep, Inductive, PTL DEF Spec
<1>4. QED  BY <1>2, <1>3, AdvanceStep, Inductive, PTL DEF Spec
=============================================================================
