---------------------------- MODULE CIGateProofs ----------------------------
(***************************************************************************)
(* Proofs about the baseline file (BaselineStore) and its readers (CIGate),*)
(* for any processes, queries, plans and batches.                          *)
(***************************************************************************)
EXTENDS CIGate, TLAPS

\* A session that knows the last content differs from what was acknowledged
\* in what it was asked to change, and in nothing else.
Faithful(p) ==
  \A q \in Query :
    /\ "plan" \notin edits[p][q] => mem[p][q].plan = acked[q].plan
    /\ "lock" \notin edits[p][q] => mem[p][q].locked = acked[q].locked

SessionInv ==
  \A p \in Process :
    /\ phase[p] = "closed" => ~fresh[p]
    /\ ~fresh[p] => edits[p] = Unedited
    /\ fresh[p] => Faithful(p)

\* Before anything disturbs them: one session at a time, which knows the last
\* content, and a file that is readable but for its save.
Calm ==
  /\ \A p, r \in Process : phase[p] # "closed" /\ phase[r] # "closed" => p = r
  /\ \A p \in Process : phase[p] # "closed" => fresh[p] /\ phase[p] # "mixing"
  /\ (\A p \in Process : ~Saving(p)) => file # Torn

StoreInv ==
  StoreTypeOK /\ SessionInv /\ KeepsWhatWasSaved /\ (~disturbed => Calm)

LEMMA EntryFacts ==
  /\ NoEntry \in Entry
  /\ \A e \in Entry : /\ e = [plan |-> e.plan, locked |-> e.locked]
                      /\ e.locked \in BOOLEAN
                      /\ e.plan \in Plan \cup {NoPlan}
                      /\ e.plan # NoPlan => \A b \in BOOLEAN : [e EXCEPT !.locked = b] \in Entry
                      /\ \A plan \in Plan : [plan |-> plan, locked |-> e.locked] \in Entry
<1>1. NoEntry \in Entry
  BY DEF Entry
<1>2. NoEntry = [plan |-> NoPlan, locked |-> FALSE] /\ NoEntry.plan = NoPlan /\ NoEntry.locked = FALSE
  BY DEF NoEntry
<1>3. ASSUME NEW e \in Entry
      PROVE  /\ e = [plan |-> e.plan, locked |-> e.locked]
             /\ e.locked \in BOOLEAN
             /\ e.plan \in Plan \cup {NoPlan}
             /\ e.plan # NoPlan => e.plan \in Plan
             /\ e.plan # NoPlan => \A b \in BOOLEAN : [e EXCEPT !.locked = b] \in Entry
             /\ \A plan \in Plan : [plan |-> plan, locked |-> e.locked] \in Entry
  <2>1. CASE e \in [plan : Plan, locked : BOOLEAN]
    BY <2>1, StoreAssumption DEF Entry
  <2>2. CASE e = NoEntry
    BY <1>2, <2>2 DEF Entry
  <2> QED BY <2>1, <2>2 DEF Entry
<1> QED BY <1>1, <1>3

LEMMA StoreFacts == Empty \in Store /\ Torn \notin Store
<1>1. Empty \in Store
  BY EntryFacts DEF Empty, Store
<1>2. Entry \subseteq [plan : Plan \cup {NoPlan}, locked : BOOLEAN]
  <2> SUFFICES ASSUME NEW e \in Entry PROVE e \in [plan : Plan \cup {NoPlan}, locked : BOOLEAN]
    OBVIOUS
  <2>1. e = [plan |-> e.plan, locked |-> e.locked] /\ e.locked \in BOOLEAN
        /\ e.plan \in Plan \cup {NoPlan}
    BY EntryFacts
  <2>2. [plan |-> e.plan, locked |-> e.locked] \in [plan : Plan \cup {NoPlan}, locked : BOOLEAN]
    BY <2>1
  <2> QED BY <2>1, <2>2
<1>3. Store \subseteq [Query -> [plan : Plan \cup {NoPlan}, locked : BOOLEAN]]
  BY <1>2 DEF Store
<1> QED BY <1>1, <1>3, StoreAssumption

\* The merge of a faithful session's changes is the session's copy.
LEMMA MergedIsCopy ==
  ASSUME StoreTypeOK, NEW p \in Process, Faithful(p)
  PROVE  Merged(p) = mem[p]
<1>1. mem[p] \in Store
  BY DEF StoreTypeOK
<1>2. ASSUME NEW q \in Query
      PROVE  mem[p][q] = [plan   |-> IF "plan" \in edits[p][q] THEN mem[p][q].plan ELSE acked[q].plan,
                          locked |-> IF "lock" \in edits[p][q] THEN mem[p][q].locked ELSE acked[q].locked]
  <2>1. mem[p][q] = [plan |-> mem[p][q].plan, locked |-> mem[p][q].locked]
    BY <1>1, EntryFacts DEF Store
  <2> QED BY <2>1 DEF Faithful
<1>3. mem[p] = [q \in Query |-> mem[p][q]]
  BY <1>1 DEF Store
<1> QED BY <1>2, <1>3 DEF Merged

LEMMA StoreInitInv == StoreInit => StoreInv
<1> SUFFICES ASSUME StoreInit PROVE StoreInv
  OBVIOUS
<1>1. StoreTypeOK /\ SessionInv /\ KeepsWhatWasSaved
  BY StoreFacts DEF StoreInit, StoreTypeOK, SessionInv, KeepsWhatWasSaved, Phases, Unedited
<1>2. file # Torn /\ \A p \in Process : phase[p] = "closed"
  BY StoreFacts DEF StoreInit
<1> QED BY <1>1, <1>2 DEF StoreInv, Calm

\* One lemma for every operation on a session's copy.
LEMMA ChangeKeeps ==
  ASSUME StoreInv, NEW p \in Process, NEW q \in Query, NEW entry \in Entry,
         NEW parts \in SUBSET {"plan", "lock"}, Change(p, q, entry, parts),
         "plan" \notin parts => entry.plan = mem[p][q].plan,
         "lock" \notin parts => entry.locked = mem[p][q].locked
  PROVE  StoreInv'
<1>1. /\ mem' = [mem EXCEPT ![p] = [mem[p] EXCEPT ![q] = entry]]
      /\ UNCHANGED <<file, phase, fresh, acked, disturbed>>
      /\ edits' = IF fresh[p] THEN [edits EXCEPT ![p] = [edits[p] EXCEPT ![q] = edits[p][q] \cup parts]]
                  ELSE edits
      /\ phase[p] = "open"
  BY DEF Change
<1>2. mem[p] \in Store /\ mem \in [Process -> Store]
      /\ edits \in [Process -> [Query -> SUBSET {"plan", "lock"}]]
  BY DEF StoreInv, StoreTypeOK
<1>3. [mem[p] EXCEPT ![q] = entry] \in Store
  BY <1>2 DEF Store
<1>4. StoreTypeOK'
  BY <1>1, <1>2, <1>3 DEF StoreInv, StoreTypeOK
<1>5. KeepsWhatWasSaved'
  BY <1>1 DEF StoreInv, KeepsWhatWasSaved
<1>6. ASSUME NEW r \in Process, r # p
      PROVE  mem'[r] = mem[r] /\ edits'[r] = edits[r] /\ fresh'[r] = fresh[r] /\ phase'[r] = phase[r]
  BY <1>1, <1>2, <1>6
<1>7. ASSUME fresh[p] PROVE Faithful(p)'
  <2>1. Faithful(p)
    BY <1>7 DEF StoreInv, SessionInv
  <2>2. \A s \in Query : /\ mem'[p][s] = IF s = q THEN entry ELSE mem[p][s]
                         /\ edits'[p][s] = IF s = q THEN edits[p][q] \cup parts ELSE edits[p][s]
    BY <1>1, <1>2, <1>7 DEF Store
  <2> QED BY <1>1, <2>1, <2>2 DEF Faithful
<1>8. SessionInv'
  <2> SUFFICES ASSUME NEW r \in Process
               PROVE  /\ phase'[r] = "closed" => ~fresh'[r]
                      /\ ~fresh'[r] => edits'[r] = Unedited
                      /\ fresh'[r] => Faithful(r)'
    BY DEF SessionInv, Unedited
  <2>1. CASE r = p
    BY <1>1, <1>7, <2>1 DEF StoreInv, SessionInv
  <2>2. CASE r # p
    BY <1>1, <1>6, <2>2 DEF StoreInv, SessionInv, Faithful
  <2> QED BY <2>1, <2>2
<1>9. ~disturbed' => Calm'
  BY <1>1 DEF StoreInv, Calm, Saving
<1> QED BY <1>4, <1>5, <1>8, <1>9 DEF StoreInv

LEMMA OpenKeeps == ASSUME StoreInv, NEW p \in Process, Open(p) PROVE StoreInv'
<1>1. /\ mem' = [mem EXCEPT ![p] = Load]
      /\ phase' = [phase EXCEPT ![p] = "open"]
      /\ fresh' = [fresh EXCEPT ![p] = (file # Torn)]
      /\ UNCHANGED <<file, edits, acked>>
      /\ edits[p] = Unedited
  BY DEF Open, StoreInv, SessionInv
<1>2. Load \in Store /\ (file # Torn => Load = acked)
  BY StoreFacts DEF Load, StoreInv, StoreTypeOK, KeepsWhatWasSaved
<1>3. StoreTypeOK' /\ KeepsWhatWasSaved'
  <2>1. disturbed' \in BOOLEAN
    BY DEF Open, StoreInv, StoreTypeOK
  <2> QED BY <1>1, <1>2, <2>1 DEF StoreInv, StoreTypeOK, KeepsWhatWasSaved, Phases
<1>4. ASSUME NEW r \in Process
      PROVE  /\ phase'[r] = "closed" => ~fresh'[r]
             /\ ~fresh'[r] => edits'[r] = Unedited
             /\ fresh'[r] => Faithful(r)'
  <2>1. CASE r = p
    <3>1. phase'[p] = "open" /\ fresh'[p] = (file # Torn) /\ mem'[p] = Load
      BY <1>1 DEF StoreInv, StoreTypeOK
    <3> QED BY <1>1, <1>2, <2>1, <3>1 DEF Faithful
  <2>2. CASE r # p
    <3>1. phase'[r] = phase[r] /\ fresh'[r] = fresh[r] /\ mem'[r] = mem[r]
      BY <1>1, <2>2 DEF StoreInv, StoreTypeOK
    <3> QED BY <1>1, <3>1 DEF StoreInv, SessionInv, Faithful
  <2> QED BY <2>1, <2>2
<1>5. ~disturbed' => Calm'
  <2> SUFFICES ASSUME ~disturbed' PROVE Calm'
    OBVIOUS
  <2>1. ~disturbed /\ \A r \in Process : phase[r] = "closed"
    BY DEF Open
  <2>2. file # Torn
    BY <2>1 DEF StoreInv, Calm, Saving
  <2>3. \A r \in Process : phase'[r] = (IF r = p THEN "open" ELSE "closed")
    BY <1>1, <2>1 DEF StoreInv, StoreTypeOK
  <2>4. fresh'[p]
    BY <1>1, <2>2 DEF StoreInv, StoreTypeOK
  <2> QED BY <1>1, <2>2, <2>3, <2>4 DEF Calm
<1> QED BY <1>3, <1>4, <1>5 DEF StoreInv, SessionInv, Unedited

\* Losing freshness, and ending, never break the invariant.
LEMMA FewerFreshKeeps ==
  ASSUME StoreInv, NEW R \in SUBSET Fresh, OnlyFresh(R),
         NEW S \in SUBSET Process, S \cap R = {},
         phase' \in [Process -> Phases], mem' \in [Process -> Store],
         \A r \in Process \ S : mem'[r] = mem[r],
         \A r \in R : phase'[r] # "closed",
         file' \in {file, Torn}, UNCHANGED acked,
         disturbed' \in BOOLEAN, ~disturbed' => Calm'
  PROVE  StoreInv'
<1>1. /\ fresh' = [r \in Process |-> r \in R]
      /\ edits' = [r \in Process |-> IF r \in R THEN edits[r] ELSE Unedited]
  BY DEF OnlyFresh
<1>2. Unedited \in [Query -> SUBSET {"plan", "lock"}]
  BY DEF Unedited
<1>3. StoreTypeOK' /\ KeepsWhatWasSaved'
  BY <1>1, <1>2 DEF StoreInv, StoreTypeOK, KeepsWhatWasSaved
<1>4. ASSUME NEW r \in Process
      PROVE  /\ phase'[r] = "closed" => ~fresh'[r]
             /\ ~fresh'[r] => edits'[r] = Unedited
             /\ fresh'[r] => Faithful(r)'
  <2>1. CASE r \in R
    <3>1. fresh[r] /\ mem'[r] = mem[r] /\ edits'[r] = edits[r] /\ fresh'[r]
      BY <1>1, <2>1 DEF Fresh
    <3> QED BY <2>1, <3>1 DEF StoreInv, SessionInv, Faithful
  <2>2. CASE r \notin R
    BY <1>1, <2>2
  <2> QED BY <2>1, <2>2
<1> QED BY <1>3, <1>4 DEF StoreInv, SessionInv, Unedited

LEMMA WriteKeeps == ASSUME StoreInv, NEW p \in Process, Write(p) PROVE StoreInv'
<1>1. mem[p] \in Store /\ mem' = mem
  BY DEF Write, StoreInv, StoreTypeOK
<1>0. disturbed' = disturbed /\ Saving(p) /\ phase[p] # "closed"
  BY DEF Write, Saving
<1>2. acked' = mem[p]
  <2>1. CASE fresh[p]
    BY <2>1, MergedIsCopy DEF Write, StoreInv, SessionInv
  <2>2. CASE ~fresh[p]
    BY <1>0, <2>2 DEF Write, StoreInv, Calm
  <2> QED BY <2>1, <2>2
<1>3. phase' \in [Process -> Phases] /\ phase'[p] = "open"
  BY DEF Write, StoreInv, StoreTypeOK, Phases
<1>4. Unedited \in [Query -> SUBSET {"plan", "lock"}]
  BY DEF Unedited
<1>5. CASE /\ file' = mem[p]
           /\ fresh' = [r \in Process |-> r = p]
           /\ edits' = [r \in Process |-> Unedited]
  <2>1. StoreTypeOK' /\ KeepsWhatWasSaved'
    BY <1>0, <1>1, <1>2, <1>3, <1>4, <1>5 DEF StoreInv, StoreTypeOK, KeepsWhatWasSaved
  <2>2. Faithful(p)'
    BY <1>1, <1>2, <1>5 DEF Faithful
  <2>3. SessionInv'
    BY <1>3, <1>5, <2>2 DEF SessionInv, Unedited
  <2>4. ~disturbed' => Calm'
    <3> SUFFICES ASSUME ~disturbed' PROVE Calm'
      OBVIOUS
    <3>1. \A r \in Process : r # p => phase[r] = "closed"
      BY <1>0 DEF StoreInv, Calm
    <3>2. \A r \in Process : phase'[r] = IF r = p THEN "open" ELSE "closed"
      BY <3>1 DEF Write, StoreInv, StoreTypeOK
    <3>3. fresh'[p] /\ file' # Torn
      BY <1>1, <1>5, StoreFacts
    <3> QED BY <3>2, <3>3 DEF Calm
  <2> QED BY <2>1, <2>3, <2>4 DEF StoreInv
<1>6. CASE phase[p] = "mixing" /\ file' = Torn /\ OnlyFresh({})
  <2>1. PICK R \in SUBSET Process : R = {}
    OBVIOUS
  <2>2. /\ fresh' = [r \in Process |-> r \in R]
        /\ edits' = [r \in Process |-> IF r \in R THEN edits[r] ELSE Unedited]
    BY <1>6, <2>1 DEF OnlyFresh
  <2>3. \A r \in Process : ~fresh'[r] /\ edits'[r] = Unedited
    BY <2>1, <2>2
  <2>4. edits' \in [Process -> [Query -> SUBSET {"plan", "lock"}]]
    BY <1>4, <2>1, <2>2
  <2>5. StoreTypeOK' /\ KeepsWhatWasSaved'
    BY <1>0, <1>1, <1>2, <1>3, <1>6, <2>2, <2>4 DEF StoreInv, StoreTypeOK, KeepsWhatWasSaved
  <2>6. disturbed'
    BY <1>0, <1>6 DEF StoreInv, Calm
  <2> QED BY <2>3, <2>5, <2>6 DEF StoreInv, SessionInv, Unedited
<1> QED BY <1>5, <1>6 DEF Write

LEMMA StoreStep == StoreInv /\ [StoreNext]_storeVars => StoreInv'
<1> SUFFICES ASSUME StoreInv, [StoreNext]_storeVars PROVE StoreInv'
  OBVIOUS
<1>m. /\ \A p \in Process, q \in Query : mem[p][q] \in Entry
      /\ mem \in [Process -> Store] /\ phase \in [Process -> Phases]
  BY DEF StoreInv, StoreTypeOK, Store
<1>1. ASSUME NEW p \in Process, NEW q \in Query,
             Record(p, q) \/ Lock(p, q) \/ Unlock(p, q) \/ Remove(p, q)
      PROVE  StoreInv'
  <2>1. PICK old \in Entry : old = mem[p][q]
    BY <1>m
  <2>2. CASE Record(p, q)
    <3>1. PICK plan \in Plan : Change(p, q, [plan |-> plan, locked |-> old.locked], {"plan"})
      BY <2>1, <2>2 DEF Record
    <3>2. [plan |-> plan, locked |-> old.locked] \in Entry /\ [plan |-> plan, locked |-> old.locked].locked = old.locked
      BY EntryFacts
    <3> QED BY <2>1, <3>1, <3>2, ChangeKeeps
  <2>3. ASSUME NEW b \in BOOLEAN, old.plan # NoPlan,
               Change(p, q, [old EXCEPT !.locked = b], {"lock"})
        PROVE  StoreInv'
    <3>1. [old EXCEPT !.locked = b] \in Entry /\ [old EXCEPT !.locked = b].plan = old.plan
      BY <2>3, EntryFacts
    <3> QED BY <2>1, <2>3, <3>1, ChangeKeeps
  <2>4. CASE Lock(p, q)
    BY <2>1, <2>3, <2>4 DEF Lock, HasBaseline
  <2>5. CASE Unlock(p, q)
    BY <2>1, <2>3, <2>5 DEF Unlock, HasBaseline
  <2>6. CASE Remove(p, q)
    <3>1. Change(p, q, NoEntry, {"plan", "lock"}) /\ NoEntry \in Entry
      BY <2>6, EntryFacts DEF Remove
    <3> QED BY <3>1, ChangeKeeps
  <2> QED BY <1>1, <2>2, <2>4, <2>5, <2>6
<1>2. ASSUME NEW p \in Process, Truncate(p) PROVE StoreInv'
  <2>1. phase' \in [Process -> Phases] /\ phase'[p] # "closed"
    BY <1>2, <1>m DEF Truncate, Phases
  <2>2. OnlyFresh({p} \cap Fresh) /\ UNCHANGED <<mem, acked>> /\ file' = Torn
    BY <1>2 DEF Truncate
  <2>3. /\ {p} \cap Fresh \subseteq Fresh /\ {} \subseteq Process /\ {} \cap ({p} \cap Fresh) = {}
        /\ \A r \in Process \ {} : mem'[r] = mem[r]
        /\ \A r \in {p} \cap Fresh : phase'[r] # "closed"
        /\ mem' \in [Process -> Store] /\ file' \in {file, Torn} /\ UNCHANGED acked
    BY <1>m, <2>1, <2>2
  <2>4. PICK R \in SUBSET Fresh : R = {p} \cap Fresh
    BY <2>3
  <2>5. OnlyFresh(R)
    BY <2>2, <2>4
  <2>6. PICK S \in SUBSET Process : S = {}
    BY <2>3
  <2>7. S \cap R = {} /\ (\A r \in Process \ S : mem'[r] = mem[r])
        /\ \A r \in R : phase'[r] # "closed"
    BY <2>3, <2>4, <2>6
  <2>8. phase' \in [Process -> Phases] /\ mem' \in [Process -> Store]
        /\ file' \in {file, Torn} /\ acked' = acked
    BY <1>m, <2>1, <2>2
  <2>9. disturbed' = disturbed /\ disturbed \in BOOLEAN
    BY <1>2 DEF Truncate, StoreInv, StoreTypeOK
  <2>10. ~disturbed' => Calm'
    <3> SUFFICES ASSUME ~disturbed' PROVE Calm'
      OBVIOUS
    <3>1. phase[p] = "open"
      BY <1>2 DEF Truncate
    <3>2. fresh[p] /\ \A r \in Process : r # p => phase[r] = "closed"
      BY <2>9, <3>1 DEF StoreInv, Calm
    <3>3. {r \in Process \ {p} : Saving(r)} = {}
      BY <3>2 DEF Saving
    <3>4. \A r \in Process : phase'[r] = IF r = p THEN "saving" ELSE "closed"
      BY <1>2, <3>2, <3>3 DEF Truncate
    <3>5. fresh'[p]
      BY <2>2, <3>2 DEF OnlyFresh, Fresh
    <3> QED BY <3>4, <3>5 DEF Calm, Saving
  <2> QED BY <2>5, <2>7, <2>8, <2>9, <2>10, FewerFreshKeeps
<1>3. ASSUME NEW p \in Process, WriteRaises(p) PROVE StoreInv'
  <2>1. phase' = [phase EXCEPT ![p] = "open"] /\ file' \in {file, Torn}
        /\ UNCHANGED <<mem, fresh, edits, acked>> /\ disturbed' = TRUE
    BY <1>3 DEF WriteRaises
  <2>2. StoreTypeOK' /\ KeepsWhatWasSaved'
    BY <1>m, <2>1 DEF StoreInv, StoreTypeOK, KeepsWhatWasSaved, Phases
  <2>3. \A r \in Process : Faithful(r)' <=> Faithful(r)
    BY <2>1 DEF Faithful
  <2>4. \A r \in Process : phase'[r] = "closed" => phase[r] = "closed"
    BY <1>m, <2>1
  <2>5. disturbed'
    BY <1>3 DEF WriteRaises
  <2> QED BY <2>1, <2>2, <2>3, <2>4, <2>5 DEF StoreInv, SessionInv, Unedited
<1>4. ASSUME NEW p \in Process, Close(p) PROVE StoreInv'
  <2>1. /\ phase' = [phase EXCEPT ![p] = "closed"]
        /\ mem' = [mem EXCEPT ![p] = Empty]
        /\ OnlyFresh(Fresh \ {p})
        /\ file' \in {file, Torn} /\ UNCHANGED acked
    BY <1>4 DEF Close, Forget
  <2>2. phase' \in [Process -> Phases] /\ mem' \in [Process -> Store]
    BY <1>m, <2>1, StoreFacts DEF Phases
  <2>3. \A r \in Process \ {p} : mem'[r] = mem[r] /\ phase'[r] = phase[r]
    BY <1>m, <2>1
  <2>4. \A r \in Fresh \ {p} : phase'[r] # "closed"
    BY <2>3 DEF StoreInv, SessionInv, Fresh
  <2>5. {p} \subseteq Process /\ {p} \cap (Fresh \ {p}) = {} /\ (Fresh \ {p}) \subseteq Fresh
    OBVIOUS
  <2>6. PICK R \in SUBSET Fresh : R = Fresh \ {p}
    BY <2>5
  <2>7. PICK S \in SUBSET Process : S = {p}
    BY <2>5
  <2>8. OnlyFresh(R)
    BY <2>1, <2>6
  <2>9. disturbed' \in BOOLEAN
    BY <1>4 DEF Close, StoreInv, StoreTypeOK, Saving
  <2>10. ~disturbed' => Calm'
    <3> SUFFICES ASSUME ~disturbed' PROVE Calm'
      OBVIOUS
    <3>1. ~disturbed /\ ~Saving(p) /\ file' = file /\ phase[p] # "closed"
      BY <1>4 DEF Close
    <3>2. \A r \in Process : r # p => phase[r] = "closed"
      BY <3>1 DEF StoreInv, Calm
    <3>3. \A r \in Process : phase'[r] = "closed" /\ ~Saving(r)
      BY <1>m, <2>1, <3>1, <3>2 DEF Saving
    <3>4. file' # Torn
      BY <3>1, <3>3 DEF StoreInv, Calm
    <3> QED BY <3>3, <3>4 DEF Calm
  <2> QED BY <2>1, <2>2, <2>3, <2>4, <2>5, <2>6, <2>7, <2>8, <2>9, <2>10, FewerFreshKeeps
<1>5. CASE UNCHANGED storeVars
  BY <1>5 DEF storeVars, StoreInv, StoreTypeOK, SessionInv, Faithful, KeepsWhatWasSaved, Unedited,
              Calm, Saving
<1> QED BY <1>1, <1>2, <1>3, <1>4, <1>5, OpenKeeps, WriteKeeps DEF StoreNext

LEMMA StoreInvariant == StoreSpec => []StoreInv
BY StoreInitInv, StoreStep, PTL DEF StoreSpec

\* Type correctness of the baseline file and of its sessions' copies.
THEOREM TypeCorrect == StoreSpec => []StoreTypeOK
<1>1. StoreInv => StoreTypeOK
  BY DEF StoreInv
<1> QED BY <1>1, StoreInvariant, PTL

\* For any processes: as long as it can be read, the file holds what the saves
\* were asked to store.
THEOREM SavedIsKept == StoreSpec => []KeepsWhatWasSaved
<1>1. StoreInv => KeepsWhatWasSaved
  BY DEF StoreInv
<1> QED BY <1>1, StoreInvariant, PTL

\* For any processes: before two sessions overlap or a save is cut short the
\* file holds the changes of all saves, and is never taken for an empty one.
THEOREM UndisturbedIsExact == StoreSpec => []UndisturbedLosesNothing
<1>1. StoreInv => UndisturbedLosesNothing
  BY DEF StoreInv, Calm, KeepsWhatWasSaved, UndisturbedLosesNothing
<1> QED BY <1>1, StoreInvariant, PTL

\* What a reader of a readable file works on is what was saved last.
LEMMA LoadedIsSaved == StoreInv /\ file # Torn => Load = acked
BY DEF StoreInv, KeepsWhatWasSaved, Load

\* A gate that passes on a readable file has compared every examined plan with
\* the baseline that was saved last.
THEOREM PassingIsGuarded == StoreSpec => []GateGuardsWhatWasSaved
<1>1. StoreInv => GateGuardsWhatWasSaved
  <2> SUFFICES ASSUME StoreInv, file # Torn, NEW batch \in Batches, NEW failOn \in FailOn,
                      GatePasses(batch, failOn), NEW q \in Examined(batch), acked[q].plan # NoPlan
               PROVE  /\ batch[q].plan.shape = acked[q].plan.shape
                      /\ acked[q].plan.cost > 0 => batch[q].plan.cost <= acked[q].plan.cost
    BY DEF GateGuardsWhatWasSaved
  <2>1. Baseline(q) = acked[q].plan
    BY LoadedIsSaved DEF Baseline
  <2>2. ~IsRegression(q, batch[q].plan)
    BY DEF GatePasses, CheckFailure, Examined
  <2>3. batch[q].plan.cost \in Nat /\ acked[q].plan.cost \in Nat
    <3>1. q \in Query
      BY GateAssumption DEF Examined
    <3>2. acked[q] \in Entry
      BY <3>1 DEF StoreInv, StoreTypeOK, Store
    <3>3. acked[q].plan \in Plan
      BY <3>2, EntryFacts
    <3> QED BY <3>3, GateAssumption DEF Examined
  <2> QED BY <2>1, <2>2, <2>3 DEF IsRegression, HasStructuralChanges, HasCostRegression
<1> QED BY <1>1, StoreInvariant, PTL

\* An upgrade is never called safe when an examined plan differs from a locked
\* baseline that a save has stored.
THEOREM UpgradeIsGuarded == StoreSpec => []UpgradeGuardsLocks
<1>1. StoreInv => UpgradeGuardsLocks
  BY LoadedIsSaved DEF UpgradeGuardsLocks, SafeToUpgrade, Severe, Changed, Baseline
<1> QED BY <1>1, StoreInvariant, PTL
=============================================================================
