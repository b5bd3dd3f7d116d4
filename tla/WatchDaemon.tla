----------------------------- MODULE WatchDaemon -----------------------------
(***************************************************************************)
(* `querysense watch' (watch.py): a loop that polls the statistics of the  *)
(* database, compares each row with the snapshot kept under its queryid,   *)
(* hands every regression to the alert channels one after the other        *)
(* (alerting.py), saves the snapshots and sleeps.  The process can be      *)
(* killed between any two steps, asked to stop by a signal, and started    *)
(* again on the file it left.                                              *)
(*                                                                         *)
(* A measure stands for the numbers and the plan of a row; `mean' is its   *)
(* mean_exec_time.  `at', the number of the poll, stands for a snapshot's  *)
(* timestamp.  The rows of pg_stat_statements belong to a user and a       *)
(* database as well, and pg_stat_monitor's to a time bucket, so one        *)
(* queryid may come in several rows of one poll.                           *)
(***************************************************************************)
EXTENDS Integers, Sequences

CONSTANTS
  Query,      \* queryids
  Measure,    \* what a row may say of a query: records with a field `mean'
  Threshold,  \* time_increase_threshold
  Severe,     \* the pairs of measures whose severity reaches min_severity
  Channels,   \* the configured alert channels, in the order they are called
  MaxRows,    \* top_queries
  MaxPolls,   \* bound on the polls that return rows
  NoSnapshot, \* no snapshot under a queryid
  Torn        \* a file cut off while it was written

Taken == [measure : Measure, at : Nat]
Snapshot == Taken \cup {NoSnapshot}

ASSUME WatchAssumption ==
  /\ \A m \in Measure : m.mean \in Nat
  /\ Threshold \in Nat /\ MaxRows \in Nat /\ MaxPolls \in Nat
  /\ Channels \in Seq(STRING) /\ Channels # <<>>
  /\ NoSnapshot \notin Taken
  /\ Torn \notin [Query -> Snapshot]

VARIABLES
  pc,       \* "off", "poll", "rows", "send", "save", "write" or "sleep"
  running,  \* self._running
  aborted,  \* the connection's transaction has failed
  poll,     \* number of the polls that returned rows
  snaps,    \* self.state._snapshots
  rows,     \* rows of the poll not yet looked at
  events,   \* the regressions found by the poll and not yet dispatched
  next,     \* the channel the first of them goes to
  file,     \* the state file
  \* What the properties are about, not state of the program:
  saved,    \* the snapshots as of the last save that can still be read
  passed,   \* the regressions between two successive saves
  tried,    \* channel -> the alerts it was called with
  lost,     \* the polls whose snapshots were never saved
  mixed     \* the polls with two rows of one queryid

loopVars == <<pc, running, aborted>>
pollVars == <<poll, rows, mixed>>
sendVars == <<events, next, tried>>
fileVars == <<file, saved, passed>>
vars == <<pc, running, aborted, poll, snaps, rows, events, next, file, saved,
          passed, tried, lost, mixed>>

Row == [query : Query, measure : Measure]
Alert == [query : Query, before : Taken, after : Taken]

Channel == {Channels[i] : i \in DOMAIN Channels}

\* No snapshots: no file yet, or one that cannot be parsed.
Nothing == [q \in Query |-> NoSnapshot]

AnAlert(q, before, after) == [query |-> q, before |-> before, after |-> after]

-----------------------------------------------------------------------------
\* poll_query's tests: seen before, a mean to divide by, slower by the
\* threshold, and severe enough.
Regressed(before, after) ==
  /\ before # NoSnapshot
  /\ before.measure.mean # 0
  /\ after.measure.mean >= Threshold * before.measure.mean
  /\ <<before.measure, after.measure>> \in Severe

\* The snapshot of the next row, and the one it is compared with.
After == [measure |-> Head(rows).measure, at |-> poll]
Before == snaps[Head(rows).query]

\* Mistake: the exceptions of json.loads not caught, in effect.
LoadedRaw == file

\* WatchState._load: a file that cannot be parsed is no history.
Loaded == IF file = Torn THEN Nothing ELSE file

Init ==
  /\ pc = "off" /\ running = FALSE /\ aborted = FALSE
  /\ poll = 0 /\ rows = <<>> /\ mixed = {}
  /\ snaps = Nothing
  /\ events = <<>> /\ next = 1 /\ tried = [c \in Channel |-> {}]
  /\ file = Nothing /\ saved = Nothing /\ passed = {}
  /\ lost = {}

\* The command is started, by hand or by a supervisor, and connects.
Start ==
  /\ pc = "off"
  /\ pc' = "poll" /\ running' = TRUE /\ aborted' = FALSE
  /\ snaps' = Loaded
  /\ saved' = snaps'
  /\ UNCHANGED <<pollVars, sendVars, file, passed, lost>>

\* SIGINT, SIGTERM or stop().
Signal ==
  /\ pc # "off" /\ running
  /\ running' = FALSE
  /\ UNCHANGED <<pc, aborted, snaps, pollVars, sendVars, fileVars, lost>>

\* cur.execute and cur.fetchall return.
Poll ==
  /\ pc = "poll" /\ ~aborted /\ poll < MaxPolls
  /\ poll' = poll + 1
  /\ \E n \in 0..MaxRows : rows' \in [1..n -> Row]
  /\ mixed' = IF \E i, j \in DOMAIN rows' : i # j /\ rows'[i].query = rows'[j].query
              THEN mixed \cup {poll'} ELSE mixed
  /\ pc' = "rows"
  /\ UNCHANGED <<running, aborted, snaps, sendVars, fileVars, lost>>

\* Mistake: a failed poll tried again at once.
PollAgain ==
  /\ pc = "poll"
  /\ aborted' = TRUE
  /\ UNCHANGED <<pc, running, snaps, pollVars, sendVars, fileVars, lost>>

\* cur.execute raises: the exception is logged, and nobody rolls back.
PollFails ==
  /\ pc = "poll"
  /\ aborted' = TRUE
  /\ pc' = "save"
  /\ UNCHANGED <<running, snaps, pollVars, sendVars, fileVars, lost>>

\* The loop over the rows ends, with the events so far.
EndOfRows ==
  /\ pc = "rows" /\ rows = <<>>
  /\ pc' = IF events = <<>> THEN "save" ELSE "send"
  /\ UNCHANGED <<running, aborted, snaps, pollVars, sendVars, fileVars, lost>>

\* A row is looked at, and the snapshots become `recorded'.
Look(recorded) ==
  /\ pc = "rows" /\ rows # <<>>
  /\ snaps' = recorded
  /\ events' = IF Regressed(Before, After)
               THEN Append(events, AnAlert(Head(rows).query, Before, After))
               ELSE events
  /\ rows' = Tail(rows)
  /\ UNCHANGED <<loopVars, poll, mixed, next, tried, fileVars, lost>>

\* Mistake: the snapshot that starts a regression stays as the baseline.
PollQueryKeepsBaseline ==
  Look(IF Regressed(Before, After) THEN snaps
       ELSE [snaps EXCEPT ![Head(rows).query] = After])

\* poll_query: the snapshot is recorded before any test.
PollQuery == Look([snaps EXCEPT ![Head(rows).query] = After])

\* A row on which poll_query raises: the rest of the poll is given up, the
\* events so far are returned.  Only a query text that is NULL does it, before
\* anything is recorded; the numbers of the views are never NULL, and the mean
\* that is divided by is tested.
RowRaises ==
  /\ pc = "rows" /\ rows # <<>>
  /\ rows' = <<>>
  /\ UNCHANGED <<loopVars, poll, mixed, snaps, sendVars, fileVars, lost>>

\* A channel is called with the first event; `done' tells if it was the last.
Call(done) ==
  /\ pc = "send"
  /\ tried' = [tried EXCEPT ![Channels[next]] = @ \cup {Head(events)}]
  /\ next' = IF done THEN 1 ELSE next + 1
  /\ events' = IF done THEN Tail(events) ELSE events
  /\ pc' = IF events' = <<>> THEN "save" ELSE "send"
  /\ UNCHANGED <<running, aborted, snaps, pollVars, fileVars, lost>>

\* Mistake: a channel that fails ends the loop over the channels.
SendToFirst == \E ok \in BOOLEAN : Call(~ok \/ next = Len(Channels))

\* AlertDispatcher.send: what a channel returns or raises is logged, and the
\* next one is called.
Send == Call(next = Len(Channels))

\* WatchState.save: write_text opens the file, which empties it ...
Truncate ==
  /\ pc = "save"
  /\ file' = Torn
  /\ pc' = "write"
  /\ UNCHANGED <<running, aborted, snaps, pollVars, sendVars, saved, passed, lost>>

\* ... and writes it.
Write ==
  /\ pc = "write"
  /\ file' = snaps
  /\ saved' = snaps
  /\ passed' = passed \cup
       {AnAlert(q, saved[q], snaps[q]) :
          q \in {r \in Query : snaps[r] # saved[r] /\ Regressed(saved[r], snaps[r])}}
  /\ pc' = IF running THEN "sleep" ELSE "off"
  /\ UNCHANGED <<running, aborted, snaps, pollVars, sendVars, lost>>

\* time.sleep returns, and the loop's condition is tested.
Wake ==
  /\ pc = "sleep"
  /\ pc' = IF running THEN "poll" ELSE "off"
  /\ UNCHANGED <<running, aborted, snaps, pollVars, sendVars, fileVars, lost>>

\* The process ends in the middle of a cycle, and its memory with it.
End ==
  /\ pc' = "off"
  /\ snaps' = Nothing /\ rows' = <<>> /\ events' = <<>> /\ next' = 1
  /\ lost' = IF snaps = saved THEN lost ELSE lost \cup {poll}
  /\ UNCHANGED <<running, aborted, poll, mixed, tried, fileVars>>

\* It is killed.
Crash == pc # "off" /\ End

\* save raises (a full disk, a directory that may not be written): run_sync
\* lets the exception out.
SaveRaises == pc \in {"save", "write"} /\ End

Step == \/ Poll \/ PollFails \/ PollQuery \/ RowRaises \/ EndOfRows
        \/ Send \/ Truncate \/ Write \/ Wake

Next == Start \/ Signal \/ Step \/ Crash \/ SaveRaises

Spec == Init /\ [][Next]_vars

\* The loop goes on: the server answers or refuses, the channels time out.
FairSpec == Spec /\ WF_vars(Step)

-----------------------------------------------------------------------------
\* Types of the daemon's variables.
TypeOK ==
  /\ pc \in {"off", "poll", "rows", "send", "save", "write", "sleep"}
  /\ running \in BOOLEAN /\ aborted \in BOOLEAN
  /\ poll \in Nat /\ mixed \in SUBSET Nat /\ lost \in SUBSET Nat
  /\ snaps \in [Query -> Snapshot] /\ saved \in [Query -> Snapshot]
  /\ rows \in Seq(Row)
  /\ events \in Seq(Alert) /\ next \in 1..Len(Channels)
  /\ file \in [Query -> Snapshot] \cup {Torn}
  /\ passed \in SUBSET Alert
  /\ tried \in [Channel -> SUBSET Alert]

\* The file never moves past a regression nobody was told of: when two
\* successive saves hold a regression, every channel was called with it, in
\* spite of channels that fail, rows that raise, stops and crashes; only in a
\* poll with two rows of one queryid may it be missed.
SavedMeansTried ==
  \A a \in passed : a.after.at \in mixed \/ \A c \in Channel : a \in tried[c]

\* No channel is told of one regression twice: two alerts about a query span
\* different polls, unless the first one's poll was never saved.
ToldOnce ==
  \A c \in Channel : \A a, b \in tried[c] :
    /\ a.query = b.query
    /\ a.after.at < b.after.at
    /\ b.before.at < a.after.at
    => a.after.at \in lost

\* A daemon that is asked to stop does, whatever it was doing.
StopEnds == (pc # "off" /\ ~running) ~> (pc = "off")
=============================================================================
