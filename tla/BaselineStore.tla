---------------------------- MODULE BaselineStore ----------------------------
(***************************************************************************)
(* The plan baselines of baseline.py: one JSON file of entries, recorded   *)
(* and locked by sessions that load it whole, change their copy and write  *)
(* it back whole.  A session is a BaselineStore object in a process of its *)
(* own: `querysense baseline update', Profile.record_snapshot, or a program*)
(* that uses the class.                                                    *)
(*                                                                         *)
(* write_text empties the file and then fills it.  A process can die or    *)
(* run out of space in between, and another can read or write there: what  *)
(* is left is no JSON document.                                            *)
(***************************************************************************)
EXTENDS Integers, FiniteSets

CONSTANTS
  Process,  \* processes that use the file
  Query,    \* query ids
  Plan,     \* EXPLAIN outputs that get recorded
  NoPlan,   \* the plan of a query without a baseline
  Torn      \* content that json.loads refuses

ASSUME StoreAssumption ==
  /\ NoPlan \notin Plan
  /\ Torn \notin [Query -> [plan : Plan \cup {NoPlan}, locked : BOOLEAN]]

VARIABLES
  file,   \* content of self.path: a store, or Torn
  mem,    \* process -> self.baselines of its session
  phase,  \* process -> where its session is
  fresh,  \* history: process -> whether its session knows the last content
  edits,  \* history: process -> query -> what such a session has changed
  acked,  \* history: what the saves that were carried out were asked to store
  disturbed \* history: two sessions were under way at a time, or a save was
            \* cut short

storeVars == <<file, mem, phase, edits, fresh, acked, disturbed>>

NoEntry == [plan |-> NoPlan, locked |-> FALSE]
Entry == [plan : Plan, locked : BOOLEAN] \cup {NoEntry}
Store == [Query -> Entry]
Empty == [q \in Query |-> NoEntry]

\* "mixing" is a save during which another one was under way.
Phases == {"closed", "open", "saving", "mixing"}

Fresh == {p \in Process : fresh[p]}

Saving(p) == phase[p] \in {"saving", "mixing"}

Unedited == [q \in Query |-> {}]

\* Only the sessions of R know the last content from now on.
OnlyFresh(R) ==
  /\ fresh' = [r \in Process |-> r \in R]
  /\ edits' = [r \in Process |-> IF r \in R THEN edits[r] ELSE Unedited]

-----------------------------------------------------------------------------
\* Mistake: the file not read before it is replaced.
LoadNothing == Empty

\* _load: a file that is not there holds Empty here; an unreadable one gives an
\* empty store and a warning.
Load == IF file = Torn THEN Empty ELSE file

StoreInit ==
  /\ file = Empty
  /\ mem = [p \in Process |-> Empty]
  /\ phase = [p \in Process |-> "closed"]
  /\ edits = [p \in Process |-> Unedited]
  /\ fresh = [p \in Process |-> FALSE]
  /\ acked = Empty
  /\ disturbed = FALSE

Open(p) ==
  /\ phase[p] = "closed"
  /\ phase' = [phase EXCEPT ![p] = "open"]
  /\ mem' = [mem EXCEPT ![p] = Load]
  /\ fresh' = [fresh EXCEPT ![p] = file # Torn]
  /\ disturbed' = (disturbed \/ \E r \in Process : phase[r] # "closed")
  /\ UNCHANGED <<file, edits, acked>>

\* One entry of the session's copy gets a new value; `parts' of it were asked for.
Change(p, q, entry, parts) ==
  /\ phase[p] = "open"
  /\ mem' = [mem EXCEPT ![p][q] = entry]
  /\ edits' = IF fresh[p] THEN [edits EXCEPT ![p][q] = @ \cup parts] ELSE edits
  /\ UNCHANGED <<file, phase, fresh, acked, disturbed>>

HasBaseline(p, q) == mem[p][q].plan # NoPlan

\* Mistake: a new entry, without the lock of the old one.
RecordAfresh(p, q) ==
  \E plan \in Plan : Change(p, q, [plan |-> plan, locked |-> FALSE], {"plan"})

\* record: the lock of an entry that is there stays.
Record(p, q) ==
  \E plan \in Plan :
    Change(p, q, [plan |-> plan, locked |-> mem[p][q].locked], {"plan"})

\* Mistake: the test for a baseline dropped.
LockUnchecked(p, q) == Change(p, q, [mem[p][q] EXCEPT !.locked = TRUE], {"lock"})

\* lock, unlock and remove refuse a query without a baseline.
Lock(p, q) ==
  HasBaseline(p, q) /\ Change(p, q, [mem[p][q] EXCEPT !.locked = TRUE], {"lock"})

Unlock(p, q) ==
  HasBaseline(p, q) /\ Change(p, q, [mem[p][q] EXCEPT !.locked = FALSE], {"lock"})

Remove(p, q) == HasBaseline(p, q) /\ Change(p, q, NoEntry, {"plan", "lock"})

\* save, up to the truncation by write_text.  Every other session now works on
\* content that is about to be replaced.
Truncate(p) ==
  /\ phase[p] = "open"
  /\ file' = Torn
  /\ LET others == {r \in Process \ {p} : Saving(r)} IN
       phase' = [r \in Process |->
                   IF r = p THEN IF others = {} THEN "saving" ELSE "mixing"
                   ELSE IF r \in others THEN "mixing" ELSE phase[r]]
  /\ OnlyFresh({p} \cap Fresh)
  /\ UNCHANGED <<mem, acked, disturbed>>

\* What a session was asked to change, applied to what was acknowledged.
Merged(p) ==
  [q \in Query |->
    [plan   |-> IF "plan" \in edits[p][q] THEN mem[p][q].plan ELSE acked[q].plan,
     locked |-> IF "lock" \in edits[p][q] THEN mem[p][q].locked ELSE acked[q].locked]]

\* The write is carried out, whether or not the process lives to return from
\* save: the file holds the session's copy, or a mixture with what the other
\* writer left.  A session that had not seen the last content replaces it, and
\* acked begins anew; only where sessions were disturbed is that excused.
Write(p) ==
  /\ Saving(p)
  /\ phase' = [phase EXCEPT ![p] = "open"]
  /\ acked' = IF fresh[p] \/ ~disturbed THEN Merged(p) ELSE mem[p]
  /\ \/ /\ file' = mem[p]
        /\ fresh' = [r \in Process |-> r = p]
        /\ edits' = [r \in Process |-> Unedited]
     \/ /\ phase[p] = "mixing"
        /\ file' = Torn
        /\ OnlyFresh({})
  /\ UNCHANGED <<mem, disturbed>>

\* The session is over: its copy and what the histories say of it are dropped.
Forget(p) ==
  /\ phase' = [phase EXCEPT ![p] = "closed"]
  /\ mem' = [mem EXCEPT ![p] = Empty]
  /\ OnlyFresh(Fresh \ {p})

\* The write raises (no space left): the caller has the session still.
WriteRaises(p) ==
  /\ Saving(p)
  /\ phase' = [phase EXCEPT ![p] = "open"]
  /\ file' \in {file, Torn}
  /\ disturbed' = TRUE
  /\ UNCHANGED <<mem, fresh, edits, acked>>

\* The process ends, its copy saved or not, or it dies before its write is
\* carried out.
Close(p) ==
  /\ phase[p] # "closed"
  /\ Forget(p)
  /\ IF Saving(p) THEN file' \in {file, Torn} ELSE UNCHANGED file
  /\ disturbed' = (disturbed \/ Saving(p))
  /\ UNCHANGED acked

StoreNext ==
  \E p \in Process :
    \/ Open(p) \/ Truncate(p) \/ Write(p) \/ WriteRaises(p) \/ Close(p)
    \/ \E q \in Query : Record(p, q) \/ Lock(p, q) \/ Unlock(p, q) \/ Remove(p, q)

StoreSpec == StoreInit /\ [][StoreNext]_storeVars

-----------------------------------------------------------------------------
\* Types of the store's variables: an entry is locked only with its plan.
StoreTypeOK ==
  /\ file \in Store \cup {Torn}
  /\ mem \in [Process -> Store]
  /\ phase \in [Process -> Phases]
  /\ edits \in [Process -> [Query -> SUBSET {"plan", "lock"}]]
  /\ fresh \in [Process -> BOOLEAN]
  /\ acked \in Store
  /\ disturbed \in BOOLEAN

\* A readable file holds what the saves were asked to store: no schedule of
\* sessions, crashes and failed writes loses a lock or a baseline, save through
\* a session that had not seen the last content when it saved.
KeepsWhatWasSaved == file # Torn => file = acked

\* Nor is there such a session, or a file outside a save that a reader would
\* take for no baselines, before two sessions overlap or a save is cut short:
\* up to then the file holds the changes of all saves, none excepted.
UndisturbedLosesNothing ==
  ~disturbed /\ (\A p \in Process : ~Saving(p)) => file = acked
=============================================================================
