-------------------------- MODULE WatchDaemonProofs --------------------------
(***************************************************************************)
(* Proofs about the watch daemon, for any queries, measures and channels   *)
(* and any number of polls, stops, crashes and restarts.                   *)
(***************************************************************************)
EXTENDS WatchDaemon, TLAPS

\* Where the rows and the events may be, and what the file holds.
Shape ==
  /\ pc # "rows" => rows = <<>>
  /\ pc \notin {"rows", "send"} => events = <<>>
  /\ pc # "send" => next = 1
  /\ pc = "send" => events # <<>>
  /\ pc \in {"poll", "sleep"} => snaps = saved
  /\ file # Torn => file = saved

\* A snapshot that differs from the saved one is of the running poll, which
\* is later than the saved one.
Times ==
  \A q \in Query :
    /\ snaps[q] # NoSnapshot => snaps[q].at <= poll
    /\ saved[q] # NoSnapshot => saved[q].at <= poll
    /\ pc \in {"rows", "send"} /\ saved[q] # NoSnapshot => saved[q].at < poll
    /\ pc # "off" /\ snaps[q] # saved[q] => snaps[q] # NoSnapshot /\ snaps[q].at = poll

\* The rows to come are of different queries, none looked at yet.
RowsApart ==
  pc = "rows" /\ poll \notin mixed =>
    /\ \A i, j \in DOMAIN rows : i # j => rows[i].query # rows[j].query
    /\ \A i \in DOMAIN rows : snaps[rows[i].query] = saved[rows[i].query]

\* Channel c was called with alert a, or will be.
Due(a, c) ==
  \/ a \in tried[c]
  \/ \E i \in DOMAIN events :
       /\ events[i] = a
       /\ i = 1 => \E j \in next..Len(Channels) : Channels[j] = c

\* What the next save will pass is due on every channel.
Pending ==
  pc # "off" /\ poll \notin mixed =>
    \A q \in Query : snaps[q] # saved[q] /\ Regressed(saved[q], snaps[q]) =>
      \A c \in Channel : Due(AnAlert(q, saved[q], snaps[q]), c)

\* Where an alert about the past leaves the snapshots: they have moved on to
\* its poll, in memory and, unless the poll is lost or not yet saved, on disk.
MovedOn(a, snapshots) ==
  snapshots[a.query] # NoSnapshot => snapshots[a.query].at >= a.after.at

TriedInv ==
  \A c \in Channel : \A a \in tried[c] :
    /\ a.after.at <= poll
    /\ a.after.at \in lost \/ MovedOn(a, snaps) \/ pc = "off"
    /\ \/ a.after.at \in lost \/ MovedOn(a, saved)
       \/ pc # "off" /\ snaps # saved /\ a.after.at = poll

EventsInv ==
  \A i \in DOMAIN events :
    /\ events[i].after.at = poll
    /\ snaps[events[i].query] # NoSnapshot /\ MovedOn(events[i], snaps)
    /\ \A c \in Channel : \A a \in tried[c] :
         a.query = events[i].query /\ a.after.at < poll
           => a.after.at \in lost \/ events[i].before.at >= a.after.at

WatchInv ==
  /\ TypeOK /\ Shape /\ Times /\ RowsApart /\ Pending
  /\ TriedInv /\ EventsInv /\ SavedMeansTried /\ ToldOnce

-----------------------------------------------------------------------------
LEMMA SnapshotFacts ==
  /\ NoSnapshot \in Snapshot /\ Nothing \in [Query -> Snapshot]
  /\ \A q \in Query : Nothing[q] = NoSnapshot
  /\ Torn \notin [Query -> Snapshot]
  /\ \A s \in Snapshot : s # NoSnapshot => s \in Taken /\ s.at \in Nat /\ s.measure \in Measure
  /\ \A a \in Alert : /\ a.query \in Query /\ a.before \in Taken /\ a.after \in Taken
                      /\ a.before.at \in Nat /\ a.after.at \in Nat
  /\ \A q \in Query, b, a \in Taken :
       /\ AnAlert(q, b, a) \in Alert
       /\ AnAlert(q, b, a).query = q /\ AnAlert(q, b, a).before = b /\ AnAlert(q, b, a).after = a
BY WatchAssumption DEF Snapshot, Taken, Nothing, Alert, AnAlert

LEMMA SequenceFacts ==
  /\ <<>> \in Seq(Row) /\ <<>> \in Seq(Alert)
  /\ Len(Channels) \in Nat /\ 1 \in 1..Len(Channels)
  /\ \A i \in 1..Len(Channels) : Channels[i] \in Channel
<1>1. Len(Channels) \in Nat /\ Len(Channels) # 0 /\ DOMAIN Channels = 1..Len(Channels)
  BY WatchAssumption
<1>2. <<>> \in Seq(Row)
  OBVIOUS
<1>3. <<>> \in Seq(Alert)
  OBVIOUS
<1> QED BY <1>1, <1>2, <1>3 DEF Channel

\* Signal and the steps that only move on: RowRaises, EndOfRows, PollFails,
\* Truncate and Wake.
Quiet == Signal \/ RowRaises \/ EndOfRows \/ PollFails \/ Truncate \/ Wake

LEMMA QuietFrame ==
  ASSUME WatchInv, Quiet
  PROVE  /\ UNCHANGED <<poll, mixed, snaps, saved, passed, events, next, tried, lost>>
         /\ pc \in {"poll", "rows", "send", "save", "sleep", "write"}
         /\ rows' = rows \/ rows' = <<>>
         /\ pc' = "off" => pc \in {"off", "sleep"}
         /\ pc' = "rows" => pc = "rows"
         /\ pc' \in {"rows", "send"} => pc \in {"rows", "send"}
         /\ pc' \in {"poll", "rows", "send", "save", "sleep", "write", "off"}
BY DEF WatchInv, TypeOK, Quiet, Signal, RowRaises, EndOfRows, PollFails, Truncate, Wake,
       pollVars, loopVars, sendVars, fileVars

LEMMA QuietStep == WatchInv /\ Quiet => WatchInv'
<1> SUFFICES ASSUME WatchInv, Quiet PROVE WatchInv'
  OBVIOUS
<1> USE SnapshotFacts
<1>0. /\ UNCHANGED <<poll, mixed, snaps, saved, passed, events, next, tried, lost>>
      /\ pc \in {"poll", "rows", "send", "save", "sleep", "write"}
      /\ rows' = rows \/ rows' = <<>>
      /\ pc' = "off" => pc \in {"off", "sleep"}
      /\ pc' = "rows" => pc = "rows"
      /\ pc' \in {"rows", "send"} => pc \in {"rows", "send"}
      /\ pc' \in {"poll", "rows", "send", "save", "sleep", "write", "off"}
  BY QuietFrame
<1>1. TypeOK'
  <2>1. running' \in BOOLEAN /\ aborted' \in BOOLEAN /\ (file' = file \/ file' = Torn)
    BY DEF WatchInv, TypeOK, Quiet, Signal, RowRaises, EndOfRows, PollFails, Truncate, Wake,
           pollVars, loopVars, sendVars, fileVars
  <2>2. rows' \in Seq(Row)
    BY <1>0, SequenceFacts DEF WatchInv, TypeOK
  <2> QED BY <1>0, <2>1, <2>2 DEF WatchInv, TypeOK
<1>2. Shape'
  BY DEF WatchInv, TypeOK, Shape, Quiet, Signal, RowRaises, EndOfRows, PollFails, Truncate,
         Wake, pollVars, loopVars, sendVars, fileVars
<1>3. Times'
  BY <1>0 DEF WatchInv, Times
<1>4. RowsApart'
  BY <1>0 DEF WatchInv, RowsApart
<1>5. Pending'
  BY <1>0 DEF WatchInv, Pending, Due
<1>6. TriedInv'
  <2>1. pc' = "off" => snaps = saved
    BY <1>0 DEF WatchInv, Shape
  <2> QED BY <1>0, <2>1 DEF WatchInv, TriedInv, MovedOn
<1>7. EventsInv'
  BY <1>0 DEF WatchInv, EventsInv, MovedOn
<1>8. SavedMeansTried' /\ ToldOnce'
  BY <1>0 DEF WatchInv, SavedMeansTried, ToldOnce
<1> QED BY <1>1, <1>2, <1>3, <1>4, <1>5, <1>6, <1>7, <1>8 DEF WatchInv

LEMMA InitStep == Init => WatchInv
<1> SUFFICES ASSUME Init PROVE WatchInv
  OBVIOUS
<1> USE SnapshotFacts
<1>1. TypeOK
  <2>1. tried \in [Channel -> SUBSET Alert]
    BY DEF Init
  <2> QED BY <2>1, SequenceFacts DEF Init, TypeOK
<1>2. Shape /\ RowsApart /\ Pending
  BY DEF Init, Shape, RowsApart, Pending
<1>3. Times
  BY DEF Init, Times
<1>4. TriedInv /\ EventsInv /\ SavedMeansTried /\ ToldOnce
  BY DEF Init, TriedInv, EventsInv, SavedMeansTried, ToldOnce
<1> QED BY <1>1, <1>2, <1>3, <1>4 DEF WatchInv

LEMMA StartStep == WatchInv /\ Start => WatchInv'
<1> SUFFICES ASSUME WatchInv, Start PROVE WatchInv'
  OBVIOUS
<1> USE SnapshotFacts
<1>0. /\ UNCHANGED <<poll, rows, mixed, events, next, tried, file, passed, lost>>
      /\ pc = "off" /\ pc' = "poll" /\ saved' = snaps'
      /\ snaps' = Nothing \/ snaps' = saved
      /\ file # Torn => snaps' = saved /\ file = saved
      /\ rows = <<>> /\ events = <<>>
  BY DEF WatchInv, Shape, Start, Loaded, pollVars, sendVars
<1>1. TypeOK'
  <2>1. running' = TRUE /\ aborted' = FALSE
    BY DEF Start
  <2>2. snaps' \in [Query -> Snapshot] /\ saved' \in [Query -> Snapshot]
    BY <1>0 DEF WatchInv, TypeOK
  <2> QED BY <1>0, <2>1, <2>2 DEF WatchInv, TypeOK
<1>2. Shape' /\ RowsApart' /\ Pending'
  BY <1>0 DEF WatchInv, Shape, RowsApart, Pending
<1>3. Times'
  BY <1>0 DEF WatchInv, Times
<1>4. TriedInv'
  <2> SUFFICES ASSUME NEW c \in Channel, NEW a \in tried[c]
               PROVE  a.after.at <= poll /\ (a.after.at \in lost \/ MovedOn(a, snaps'))
    BY <1>0 DEF TriedInv, MovedOn
  <2>1. a.after.at <= poll /\ (a.after.at \in lost \/ MovedOn(a, saved))
    BY <1>0 DEF WatchInv, TriedInv
  <2>2. a \in Alert
    BY DEF WatchInv, TypeOK
  <2> QED BY <1>0, <2>1, <2>2 DEF MovedOn
<1>5. EventsInv' /\ SavedMeansTried' /\ ToldOnce'
  BY <1>0 DEF WatchInv, EventsInv, SavedMeansTried, ToldOnce
<1> QED BY <1>1, <1>2, <1>3, <1>4, <1>5 DEF WatchInv

LEMMA PollStep == WatchInv /\ Poll => WatchInv'
<1> SUFFICES ASSUME WatchInv, Poll PROVE WatchInv'
  OBVIOUS
<1> USE SnapshotFacts
<1>0. /\ UNCHANGED <<snaps, events, next, tried, file, saved, passed, lost>>
      /\ pc = "poll" /\ pc' = "rows" /\ poll' = poll + 1 /\ poll \in Nat
      /\ events = <<>> /\ snaps = saved
      /\ mixed \subseteq mixed'
  BY DEF WatchInv, Shape, TypeOK, Poll, sendVars, fileVars
<1>1. rows' \in Seq(Row)
  <2>1. PICK n \in 0..MaxRows : rows' \in [1..n -> Row]
    BY DEF Poll
  <2> QED BY <2>1, WatchAssumption
<1>2. TypeOK'
  <2>1. running' = running /\ aborted' = aborted /\ mixed' \subseteq mixed \cup {poll'}
    BY DEF Poll
  <2> QED BY <1>0, <1>1, <2>1 DEF WatchInv, TypeOK
<1>3. Shape'
  BY <1>0 DEF WatchInv, Shape
<1>4. Times'
  <2> SUFFICES ASSUME NEW q \in Query
               PROVE  snaps[q] # NoSnapshot => snaps[q].at <= poll + 1 /\ snaps[q].at < poll + 1
    BY <1>0 DEF Times
  <2>1. snaps[q] \in Snapshot /\ (snaps[q] # NoSnapshot => snaps[q].at <= poll)
    BY DEF WatchInv, TypeOK, Times
  <2> QED BY <1>0, <2>1
<1>5. RowsApart'
  <2>1. poll' \notin mixed' =>
          \A i, j \in DOMAIN rows' : i # j => rows'[i].query # rows'[j].query
    BY DEF Poll
  <2>2. \A i \in DOMAIN rows' : rows'[i] \in Row
    BY <1>1
  <2> QED BY <1>0, <2>1 DEF RowsApart
<1>6. Pending' /\ SavedMeansTried' /\ ToldOnce'
  BY <1>0 DEF WatchInv, Pending, SavedMeansTried, ToldOnce
<1>7. TriedInv'
  <2> SUFFICES ASSUME NEW c \in Channel, NEW a \in tried[c]
               PROVE  a.after.at <= poll + 1 /\ (a.after.at \in lost \/ MovedOn(a, saved))
    BY <1>0 DEF TriedInv, MovedOn
  <2>1. a.after.at <= poll /\ (a.after.at \in lost \/ MovedOn(a, saved))
    BY <1>0 DEF WatchInv, TriedInv
  <2>2. a \in Alert
    BY DEF WatchInv, TypeOK
  <2> QED BY <1>0, <2>1, <2>2
<1>8. EventsInv'
  BY <1>0 DEF EventsInv
<1> QED BY <1>2, <1>3, <1>4, <1>5, <1>6, <1>7, <1>8 DEF WatchInv

LEMMA EndStep == WatchInv /\ pc # "off" /\ End => WatchInv'
<1> SUFFICES ASSUME WatchInv, pc # "off", End PROVE WatchInv'
  OBVIOUS
<1> USE SnapshotFacts
<1>0. /\ UNCHANGED <<poll, mixed, tried, file, saved, passed>>
      /\ pc' = "off" /\ snaps' = Nothing /\ rows' = <<>> /\ events' = <<>> /\ next' = 1
      /\ lost \subseteq lost' /\ (snaps # saved => poll \in lost')
  BY DEF End, fileVars
<1>1. TypeOK'
  <2>1. running' = running /\ aborted' = aborted /\ lost' \subseteq lost \cup {poll}
    BY DEF End
  <2> QED BY <1>0, <2>1, SequenceFacts DEF WatchInv, TypeOK
<1>2. Shape' /\ RowsApart' /\ Pending'
  BY <1>0 DEF WatchInv, Shape, RowsApart, Pending
<1>3. Times'
  BY <1>0 DEF WatchInv, Times
<1>4. TriedInv'
  BY <1>0 DEF WatchInv, TriedInv, MovedOn
<1>5. EventsInv' /\ SavedMeansTried'
  BY <1>0 DEF WatchInv, EventsInv, SavedMeansTried
<1>6. ToldOnce'
  BY <1>0 DEF WatchInv, ToldOnce
<1> QED BY <1>1, <1>2, <1>3, <1>4, <1>5, <1>6 DEF WatchInv

\* What a save passes has been tried, as nothing is left to send.
LEMMA WriteStep == WatchInv /\ Write => WatchInv'
<1> SUFFICES ASSUME WatchInv, Write PROVE WatchInv'
  OBVIOUS
<1> USE SnapshotFacts
<1>0. /\ UNCHANGED <<poll, mixed, snaps, rows, events, next, tried, lost>>
      /\ pc = "write" /\ pc' \in {"sleep", "off"} /\ file' = snaps /\ saved' = snaps
      /\ rows = <<>> /\ events = <<>> /\ next = 1
  BY DEF WatchInv, Shape, Write, pollVars, sendVars
<1>1. ASSUME NEW a \in passed', a \notin passed
      PROVE  /\ a \in Alert
             /\ a.after.at \in mixed \/ \A c \in Channel : a \in tried[c]
  <2>1. PICK q \in Query : /\ snaps[q] # saved[q] /\ Regressed(saved[q], snaps[q])
                           /\ a = AnAlert(q, saved[q], snaps[q])
    BY <1>1 DEF Write
  <2>2. saved[q] \in Taken /\ snaps[q] \in Taken /\ snaps[q].at = poll
    BY <1>0, <2>1 DEF WatchInv, TypeOK, Times, Regressed
  <2>3. a \in Alert /\ a.after.at = poll
    BY <2>1, <2>2
  <2>4. poll \notin mixed => \A c \in Channel : a \in tried[c]
    BY <1>0, <2>1 DEF WatchInv, Pending, Due
  <2> QED BY <2>3, <2>4
<1>2. TypeOK'
  <2>1. running' = running /\ aborted' = aborted
    BY DEF Write
  <2>2. passed' \in SUBSET Alert
    BY <1>1 DEF WatchInv, TypeOK
  <2> QED BY <1>0, <2>1, <2>2 DEF WatchInv, TypeOK
<1>3. Shape' /\ RowsApart' /\ Pending'
  BY <1>0 DEF WatchInv, Shape, RowsApart, Pending
<1>4. Times'
  BY <1>0 DEF WatchInv, Times
<1>5. TriedInv'
  BY <1>0 DEF WatchInv, TriedInv, MovedOn
<1>6. EventsInv' /\ ToldOnce'
  BY <1>0 DEF WatchInv, EventsInv, ToldOnce
<1>7. SavedMeansTried'
  <2> SUFFICES ASSUME NEW a \in passed'
               PROVE  a.after.at \in mixed \/ \A c \in Channel : a \in tried[c]
    BY <1>0 DEF SavedMeansTried
  <2> QED BY <1>1 DEF WatchInv, SavedMeansTried
<1> QED BY <1>2, <1>3, <1>4, <1>5, <1>6, <1>7 DEF WatchInv

LEMMA PollQueryStep == WatchInv /\ PollQuery => WatchInv'
<1> SUFFICES ASSUME WatchInv, PollQuery PROVE WatchInv'
  OBVIOUS
<1> USE SnapshotFacts
<1>a. /\ UNCHANGED <<pc, running, aborted, poll, mixed, next, tried, file, saved, passed, lost>>
      /\ pc = "rows" /\ rows # <<>> /\ next = 1 /\ rows' = Tail(rows)
  BY DEF WatchInv, Shape, PollQuery, Look, loopVars, fileVars
<1>b. PICK q \in Query, m \in Measure : q = Head(rows).query /\ m = Head(rows).measure
  <2>1. Head(rows) \in Row
    BY <1>a DEF WatchInv, TypeOK
  <2> QED BY <2>1 DEF Row
<1>c. PICK after : after = [measure |-> m, at |-> poll]
  OBVIOUS
<1>d. PICK before : before = snaps[q]
  OBVIOUS
<1>e. PICK alert : alert = AnAlert(q, before, after)
  OBVIOUS
<1>f. /\ after \in Taken /\ after.at = poll /\ after \in Snapshot /\ after # NoSnapshot
      /\ before \in Snapshot /\ poll \in Nat
  <2>1. after \in Taken /\ after.at = poll /\ poll \in Nat
    BY <1>b, <1>c DEF WatchInv, TypeOK, Taken
  <2> QED BY <1>d, <2>1, WatchAssumption DEF WatchInv, TypeOK, Snapshot
<1>g. /\ snaps' = [snaps EXCEPT ![q] = after]
      /\ events' = IF Regressed(before, after) THEN Append(events, alert) ELSE events
  BY <1>b, <1>c, <1>d, <1>e DEF PollQuery, Look, Before, After
<1>h. \A r \in Query : snaps'[r] = IF r = q THEN after ELSE snaps[r]
  BY <1>g DEF WatchInv, TypeOK
<1>i. Regressed(before, after) =>
        /\ before \in Taken /\ alert \in Alert
        /\ alert.query = q /\ alert.before = before /\ alert.after = after
  BY <1>e, <1>f DEF Regressed
<1>j. /\ events \in Seq(Alert) /\ events' \in Seq(Alert)
      /\ \A i \in DOMAIN events : i \in DOMAIN events' /\ events'[i] = events[i]
      /\ \A i \in DOMAIN events' : i \in DOMAIN events \/ (Regressed(before, after) /\ events'[i] = alert)
      /\ Regressed(before, after) => \E i \in DOMAIN events' : events'[i] = alert
  <2>1. events \in Seq(Alert)
    BY DEF WatchInv, TypeOK
  <2>2. CASE Regressed(before, after)
    <3>1. events' = Append(events, alert) /\ alert \in Alert
      BY <1>g, <1>i, <2>2
    <3> QED BY <2>1, <2>2, <3>1
  <2>3. CASE ~Regressed(before, after)
    BY <1>g, <2>1, <2>3
  <2> QED BY <2>2, <2>3
<1>k. /\ rows' \in Seq(Row)
      /\ \A i \in DOMAIN rows' : i + 1 \in DOMAIN rows /\ i + 1 # 1 /\ rows'[i] = rows[i + 1]
      /\ 1 \in DOMAIN rows /\ rows[1] = Head(rows)
      /\ \A i \in DOMAIN rows' : i \in Nat
  <2>1. rows \in Seq(Row)
    BY DEF WatchInv, TypeOK
  <2> QED BY <1>a, <2>1
<1>1. TypeOK'
  BY <1>a, <1>f, <1>g, <1>j, <1>k DEF WatchInv, TypeOK
<1>2. Shape'
  BY <1>a DEF WatchInv, Shape
<1>3. Times'
  BY <1>a, <1>f, <1>h DEF WatchInv, Times
<1>4. RowsApart'
  <2> SUFFICES ASSUME poll \notin mixed
               PROVE  /\ \A i, j \in DOMAIN rows' : i # j => rows'[i].query # rows'[j].query
                      /\ \A i \in DOMAIN rows' : snaps'[rows'[i].query] = saved[rows'[i].query]
    BY <1>a DEF RowsApart
  <2>1. /\ \A i, j \in DOMAIN rows : i # j => rows[i].query # rows[j].query
        /\ \A i \in DOMAIN rows : snaps[rows[i].query] = saved[rows[i].query]
    BY <1>a DEF WatchInv, RowsApart
  <2>2. \A i, j \in DOMAIN rows' : i # j => rows'[i].query # rows'[j].query
    BY <1>k, <2>1
  <2>3. ASSUME NEW i \in DOMAIN rows'
        PROVE  snaps'[rows'[i].query] = saved[rows'[i].query]
    <3>1. rows'[i].query # q
      BY <1>b, <1>k, <2>1
    <3>2. rows'[i] \in Row
      BY <1>k
    <3>3. rows'[i].query \in Query
      BY <3>2 DEF Row
    <3> QED BY <1>h, <1>k, <2>1, <3>1, <3>3
  <2> QED BY <2>2, <2>3
<1>5. Pending'
  <2> SUFFICES ASSUME poll \notin mixed, NEW r \in Query, snaps'[r] # saved[r],
                      Regressed(saved[r], snaps'[r]), NEW c \in Channel
               PROVE  \/ AnAlert(r, saved[r], snaps'[r]) \in tried[c]
                      \/ \E i \in DOMAIN events' :
                           /\ events'[i] = AnAlert(r, saved[r], snaps'[r])
                           /\ i = 1 => \E j \in next..Len(Channels) : Channels[j] = c
    BY <1>a DEF Pending, Due
  <2>1. CASE r = q
    <3>1. before = saved[q]
      BY <1>a, <1>b, <1>d, <1>k DEF WatchInv, RowsApart
    <3>2. snaps'[r] = after /\ Regressed(before, after) /\ AnAlert(r, saved[r], snaps'[r]) = alert
      BY <1>e, <1>h, <2>1, <3>1
    <3>3. \E j \in next..Len(Channels) : Channels[j] = c
      BY <1>a, SequenceFacts, WatchAssumption DEF Channel
    <3> QED BY <1>j, <3>2, <3>3
  <2>2. CASE r # q
    <3>1. snaps'[r] = snaps[r]
      BY <1>h, <2>2
    <3>2. Due(AnAlert(r, saved[r], snaps[r]), c)
      BY <1>a, <3>1 DEF WatchInv, Pending
    <3> QED BY <1>j, <3>1, <3>2 DEF Due
  <2> QED BY <2>1, <2>2
<1>6. TriedInv'
  <2> SUFFICES ASSUME NEW c \in Channel, NEW a \in tried[c]
               PROVE  /\ a.after.at <= poll
                      /\ a.after.at \in lost \/ MovedOn(a, snaps')
                      /\ \/ a.after.at \in lost \/ MovedOn(a, saved)
                         \/ snaps' # saved /\ a.after.at = poll
    BY <1>a DEF TriedInv
  <2>1. /\ a.after.at <= poll
        /\ a.after.at \in lost \/ MovedOn(a, snaps)
        /\ \/ a.after.at \in lost \/ MovedOn(a, saved)
           \/ a.after.at = poll
    BY <1>a DEF WatchInv, TriedInv
  <2>2. a \in Alert /\ a.query \in Query
    BY DEF WatchInv, TypeOK
  <2>3. a.after.at \in lost \/ MovedOn(a, snaps')
    BY <1>f, <1>h, <2>1, <2>2 DEF MovedOn
  <2>4. snaps' # saved
    <3>1. saved[q] # NoSnapshot => saved[q].at < poll
      BY <1>a DEF WatchInv, Times
    <3>2. saved[q] \in Snapshot /\ snaps'[q] = after
      BY <1>h DEF WatchInv, TypeOK
    <3> QED BY <1>f, <3>1, <3>2
  <2> QED BY <2>1, <2>3, <2>4
<1>7. EventsInv'
  <2> SUFFICES ASSUME NEW i \in DOMAIN events'
               PROVE  /\ events'[i].after.at = poll
                      /\ snaps'[events'[i].query] # NoSnapshot /\ MovedOn(events'[i], snaps')
                      /\ \A c \in Channel : \A a \in tried[c] :
                           a.query = events'[i].query /\ a.after.at < poll
                             => a.after.at \in lost \/ events'[i].before.at >= a.after.at
    BY <1>a DEF EventsInv
  <2>1. CASE i \in DOMAIN events
    <3>1. events'[i] = events[i] /\ events[i] \in Alert /\ events[i].query \in Query
      BY <1>j, <2>1
    <3>2. /\ events[i].after.at = poll /\ MovedOn(events[i], snaps)
          /\ snaps[events[i].query] # NoSnapshot
      BY <2>1 DEF WatchInv, EventsInv
    <3>3. PICK e \in Alert : e = events[i]
      BY <3>1
    <3>4. e.after.at = poll /\ MovedOn(e, snaps) /\ e.query \in Query
          /\ snaps[e.query] # NoSnapshot
      BY <3>1, <3>2, <3>3
    <3>5. snaps'[e.query] # NoSnapshot /\ MovedOn(e, snaps')
      BY <1>f, <1>h, <3>4 DEF MovedOn
    <3> QED BY <2>1, <3>1, <3>2, <3>3, <3>5 DEF WatchInv, EventsInv
  <2>2. CASE i \notin DOMAIN events
    <3>1. Regressed(before, after) /\ events'[i] = alert
      BY <1>j, <2>2
    <3>2. events'[i].query = q /\ events'[i].before = before /\ events'[i].after = after
          /\ before # NoSnapshot
      BY <1>i, <3>1 DEF Regressed
    <3>3. snaps'[events'[i].query] # NoSnapshot /\ MovedOn(events'[i], snaps')
      BY <1>f, <1>h, <3>2 DEF MovedOn
    <3>4. ASSUME NEW c \in Channel, NEW a \in tried[c], a.query = q
          PROVE  a.after.at \in lost \/ before.at >= a.after.at
      BY <1>a, <1>d, <3>2, <3>4 DEF WatchInv, TriedInv, MovedOn
    <3> QED BY <1>f, <3>2, <3>3, <3>4
  <2> QED BY <2>1, <2>2
<1>8. SavedMeansTried' /\ ToldOnce'
  BY <1>a DEF WatchInv, SavedMeansTried, ToldOnce
<1> QED BY <1>1, <1>2, <1>3, <1>4, <1>5, <1>6, <1>7, <1>8 DEF WatchInv

LEMMA SendStep == WatchInv /\ Send => WatchInv'
<1> SUFFICES ASSUME WatchInv, Send PROVE WatchInv'
  OBVIOUS
<1> USE SnapshotFacts
<1>a. /\ UNCHANGED <<running, aborted, snaps, poll, rows, mixed, file, saved, passed, lost>>
      /\ pc = "send" /\ pc' \in {"send", "save"} /\ rows = <<>>
      /\ events # <<>> /\ (pc' = "send" <=> events' # <<>>)
  BY DEF WatchInv, Shape, Send, Call, pollVars, fileVars
<1>b. PICK a0 \in Alert : a0 = Head(events)
  BY <1>a DEF WatchInv, TypeOK
<1>c. PICK c0 \in Channel : c0 = Channels[next]
  BY SequenceFacts DEF WatchInv, TypeOK
<1>d. /\ tried \in [Channel -> SUBSET Alert]
      /\ tried' = [tried EXCEPT ![c0] = @ \cup {a0}]
  BY <1>b, <1>c DEF Send, Call, WatchInv, TypeOK
<1>e. /\ \A c \in Channel : tried[c] \subseteq tried'[c]
      /\ \A c \in Channel : \A a \in tried'[c] : a \in tried[c] \/ (a = a0 /\ c = c0)
      /\ a0 \in tried'[c0]
  BY <1>d
<1>f. /\ events \in Seq(Alert) /\ 1 \in DOMAIN events /\ events[1] = a0
      /\ next \in 1..Len(Channels) /\ Len(Channels) \in Nat
      /\ \A i \in DOMAIN events : i \in Nat /\ i >= 1
  BY <1>a, <1>b, SequenceFacts DEF WatchInv, TypeOK
<1>g. \/ next < Len(Channels) /\ next' = next + 1 /\ events' = events
      \/ next = Len(Channels) /\ next' = 1 /\ events' = Tail(events)
  BY <1>f DEF Send, Call
<1>h. /\ events' \in Seq(Alert)
      /\ \A i \in DOMAIN events' : \E j \in DOMAIN events : events'[i] = events[j]
  <2>1. CASE events' = events
    BY <1>f, <2>1
  <2>2. CASE events' = Tail(events)
    <3>1. \A i \in DOMAIN events' : i + 1 \in DOMAIN events /\ events'[i] = events[i + 1]
      BY <1>a, <1>f, <2>2
    <3> QED BY <1>a, <1>f, <2>2, <3>1
  <2> QED BY <1>g, <2>1, <2>2
<1>i. next' \in 1..Len(Channels)
  BY <1>f, <1>g
<1>j. /\ a0.after.at = poll /\ poll \in Nat
      /\ snaps[a0.query] # NoSnapshot /\ MovedOn(a0, snaps)
      /\ \A c \in Channel : \A a \in tried[c] :
           a.query = a0.query /\ a.after.at < poll
             => a.after.at \in lost \/ a0.before.at >= a.after.at
  BY <1>f DEF WatchInv, TypeOK, EventsInv
<1>1. TypeOK'
  <2>1. tried' \in [Channel -> SUBSET Alert]
    BY <1>d
  <2> QED BY <1>a, <1>h, <1>i, <2>1 DEF WatchInv, TypeOK
<1>2. Shape'
  <2>1. pc' = "save" => next' = 1
    BY <1>a, <1>g
  <2> QED BY <1>a, <2>1 DEF WatchInv, Shape
<1>3. Times' /\ RowsApart'
  BY <1>a DEF WatchInv, Times, RowsApart
<1>4. Pending'
  <2> SUFFICES ASSUME poll \notin mixed, NEW r \in Query, snaps[r] # saved[r],
                      Regressed(saved[r], snaps[r]), NEW c \in Channel, NEW a,
                      a = AnAlert(r, saved[r], snaps[r])
               PROVE  \/ a \in tried'[c]
                      \/ \E i \in DOMAIN events' :
                           /\ events'[i] = a
                           /\ i = 1 => \E j \in next'..Len(Channels) : Channels[j] = c
    BY <1>a DEF Pending, Due
  <2>1. Due(a, c)
    BY <1>a DEF WatchInv, Pending
  <2>2. CASE a \in tried[c]
    BY <1>e, <2>2
  <2>3. CASE a = a0 /\ c = c0
    BY <1>e, <2>3
  <2>4. ASSUME NEW i \in DOMAIN events, events[i] = a, a # a0 \/ c # c0,
               i = 1 => \E j \in next..Len(Channels) : Channels[j] = c
        PROVE  \E k \in DOMAIN events' :
                 /\ events'[k] = a
                 /\ k = 1 => \E j \in next'..Len(Channels) : Channels[j] = c
    <3>1. CASE next < Len(Channels)
      <4>1. next' = next + 1 /\ events' = events
        BY <1>g, <3>1
      <4>2. ASSUME i = 1 PROVE \E j \in next'..Len(Channels) : Channels[j] = c
        <5>1. PICK j \in next..Len(Channels) : Channels[j] = c
          BY <2>4, <4>2
        <5>2. j # next
          BY <1>c, <1>f, <2>4, <4>2, <5>1
        <5> QED BY <1>f, <4>1, <5>1, <5>2
      <4> QED BY <2>4, <4>1, <4>2
    <3>2. CASE next = Len(Channels)
      <4>1. next' = 1 /\ events' = Tail(events)
        BY <1>f, <1>g, <3>2
      <4>2. i # 1
        <5> SUFFICES ASSUME i = 1 PROVE FALSE
          OBVIOUS
        <5>1. PICK j \in next..Len(Channels) : Channels[j] = c
          BY <2>4
        <5> QED BY <1>c, <1>f, <2>4, <3>2, <5>1
      <4>3. i - 1 \in DOMAIN events' /\ events'[i - 1] = a
        BY <1>a, <1>f, <2>4, <4>1, <4>2
      <4>4. \E j \in 1..Len(Channels) : Channels[j] = c
        BY WatchAssumption DEF Channel
      <4> QED BY <4>1, <4>3, <4>4
    <3> QED BY <1>f, <3>1, <3>2
  <2> QED BY <2>1, <2>2, <2>3, <2>4 DEF Due
<1>5. TriedInv'
  <2> SUFFICES ASSUME NEW c \in Channel, NEW a \in tried'[c]
               PROVE  /\ a.after.at <= poll
                      /\ a.after.at \in lost \/ MovedOn(a, snaps)
                      /\ \/ a.after.at \in lost \/ MovedOn(a, saved)
                         \/ snaps # saved /\ a.after.at = poll
    BY <1>a DEF TriedInv
  <2>1. CASE a \in tried[c]
    BY <1>a, <2>1 DEF WatchInv, TriedInv
  <2>2. CASE a = a0
    <3>1. /\ saved[a0.query] # NoSnapshot => saved[a0.query].at < poll
          /\ saved[a0.query] \in Snapshot
      BY <1>a DEF WatchInv, TypeOK, Times
    <3>2. snaps[a0.query] # NoSnapshot /\ snaps[a0.query].at >= poll
      BY <1>j DEF MovedOn
    <3>3. snaps # saved
      BY <1>j, <3>1, <3>2
    <3> QED BY <1>j, <2>2, <3>3
  <2> QED BY <1>e, <2>1, <2>2
<1>6. EventsInv'
  <2> SUFFICES ASSUME NEW i \in DOMAIN events, NEW c \in Channel, NEW a \in tried'[c],
                      a.query = events[i].query, a.after.at < poll
               PROVE  a.after.at \in lost \/ events[i].before.at >= a.after.at
    BY <1>a, <1>h DEF WatchInv, EventsInv
  <2>1. a \in tried[c]
    BY <1>e, <1>j
  <2> QED BY <2>1 DEF WatchInv, EventsInv
<1>7. SavedMeansTried'
  BY <1>a, <1>e DEF WatchInv, SavedMeansTried
<1>8. ToldOnce'
  <2> SUFFICES ASSUME NEW c \in Channel, NEW a \in tried'[c], NEW b \in tried'[c],
                      a.query = b.query, a.after.at < b.after.at, b.before.at < a.after.at
               PROVE  a.after.at \in lost
    BY <1>a DEF ToldOnce
  <2>0. a \in Alert /\ b \in Alert
    BY <1>b, <1>d
  <2>1. CASE a \in tried[c] /\ b \in tried[c]
    BY <2>1 DEF WatchInv, ToldOnce
  <2>2. CASE a = a0
    <3>1. b.after.at <= poll
      BY <1>e, <1>j DEF WatchInv, TriedInv
    <3> QED BY <1>j, <2>0, <2>2, <3>1
  <2>3. CASE b = a0 /\ a \in tried[c]
    <3>1. a.after.at \in lost \/ b.before.at >= a.after.at
      BY <1>j, <2>3
    <3> QED BY <2>0, <3>1
  <2> QED BY <1>e, <2>1, <2>2, <2>3
<1> QED BY <1>1, <1>2, <1>3, <1>4, <1>5, <1>6, <1>7, <1>8 DEF WatchInv

LEMMA NextStep == WatchInv /\ [Next]_vars => WatchInv'
<1> SUFFICES ASSUME WatchInv, [Next]_vars PROVE WatchInv'
  OBVIOUS
<1>1. CASE Start
  BY <1>1, StartStep
<1>2. CASE Quiet
  BY <1>2, QuietStep
<1>3. CASE Poll
  BY <1>3, PollStep
<1>4. CASE PollQuery
  BY <1>4, PollQueryStep
<1>5. CASE Send
  BY <1>5, SendStep
<1>6. CASE Write
  BY <1>6, WriteStep
<1>7. CASE Crash \/ SaveRaises
  BY <1>7, EndStep DEF Crash, SaveRaises
<1>8. CASE UNCHANGED vars
  <2>1. TypeOK' /\ Shape' /\ Times' /\ RowsApart'
    BY <1>8 DEF vars, WatchInv, TypeOK, Shape, Times, RowsApart
  <2>2. Pending' /\ TriedInv' /\ EventsInv'
    BY <1>8 DEF vars, WatchInv, Pending, Due, TriedInv, EventsInv, MovedOn
  <2>3. SavedMeansTried' /\ ToldOnce'
    BY <1>8 DEF vars, WatchInv, SavedMeansTried, ToldOnce
  <2> QED BY <2>1, <2>2, <2>3 DEF WatchInv
<1> QED BY <1>1, <1>2, <1>3, <1>4, <1>5, <1>6, <1>7, <1>8 DEF Next, Step, Quiet

THEOREM WatchInvariant == Spec => []WatchInv
BY InitStep, NextStep, PTL DEF Spec

\* The variables keep their types, whatever stops, fails or is killed.
THEOREM TypeCorrect == Spec => []TypeOK
<1>1. WatchInv => TypeOK
  BY DEF WatchInv
<1> QED BY <1>1, WatchInvariant, PTL

\* At least once: no save ever passes a regression that some channel was not
\* called with.
THEOREM NoneIsPassedOver == Spec => []SavedMeansTried
<1>1. WatchInv => SavedMeansTried
  BY DEF WatchInv
<1> QED BY <1>1, WatchInvariant, PTL

\* At most once, as long as the poll gets saved: two alerts about a query
\* never overlap on a channel.
THEOREM NoneIsToldTwice == Spec => []ToldOnce
<1>1. WatchInv => ToldOnce
  BY DEF WatchInv
<1> QED BY <1>1, WatchInvariant, PTL

-----------------------------------------------------------------------------
\* What is left of a cycle that is the last: the rows to look at, the calls of
\* the channels with what was found and may still be found, and the save.
CycleLeft ==
  CASE pc = "poll" -> MaxRows * Len(Channels) + MaxRows + 4
    [] pc = "rows" -> (Len(rows) + Len(events)) * Len(Channels) + Len(rows) + 3
    [] pc = "send" -> Len(events) * Len(Channels) - next + 3
    [] pc = "save" -> 2
    [] pc = "off"  -> 0
    [] OTHER       -> 1

\* Once the daemon was asked to stop, every step brings it closer to its end,
\* and none takes the request back.
StopComesCloser ==
  pc # "off" /\ ~running =>
    /\ CycleLeft \in Nat /\ CycleLeft' \in Nat /\ CycleLeft' < CycleLeft
    /\ ~running'

\* The arithmetic of the calls: each event goes to each channel.
LEMMA CallsArithmetic ==
  \A e, l \in Nat :
    /\ e * l \in Nat
    /\ (e + 1) * l = e * l + l
    /\ \A d \in Nat : (e + d) * l \in Nat /\ e * l <= (e + d) * l
<1> TAKE e, l \in Nat
<1>1. e * l \in Nat /\ (e + 1) * l = e * l + l
  OBVIOUS
<1>2. ASSUME NEW d \in Nat PROVE (e + d) * l \in Nat /\ e * l <= (e + d) * l
  <2>1. d * l \in Nat /\ (e + d) * l = e * l + d * l
    OBVIOUS
  <2>2. QED  BY <1>1, <2>1
<1>3. QED  BY <1>1, <1>2

LEMMA StepComesCloser == WatchInv /\ [Next]_vars => [StopComesCloser]_vars
<1> SUFFICES ASSUME WatchInv, Next, pc # "off", ~running
             PROVE  /\ CycleLeft \in Nat /\ CycleLeft' \in Nat /\ CycleLeft' < CycleLeft
                    /\ ~running'
  BY DEF StopComesCloser
<1>0. ~running'
  BY DEF Next, Start, Signal, Step, Poll, PollFails, PollQuery, Look, RowRaises, EndOfRows,
         Send, Call, Truncate, Write, Wake, Crash, SaveRaises, End, loopVars
<1>1. PICK l, m \in Nat : l = Len(Channels) /\ m = MaxRows
  BY SequenceFacts, WatchAssumption
<1>2. PICK e, k \in Nat : e = Len(events) /\ k = Len(rows)
  BY DEF WatchInv, TypeOK
<1>3. /\ next \in 1..l
      /\ pc \in {"poll", "rows", "send", "save", "write", "sleep"}
      /\ rows \in Seq(Row) /\ events \in Seq(Alert)
  BY <1>1 DEF WatchInv, TypeOK
<1>4. e * l \in Nat /\ m * l \in Nat /\ (e + k) * l \in Nat /\ e * l <= (e + k) * l
  BY CallsArithmetic
<1>5. /\ pc = "poll" => CycleLeft = m * l + m + 4
      /\ pc = "rows" => CycleLeft = (k + e) * l + k + 3
      /\ pc = "send" => CycleLeft = e * l - next + 3
      /\ pc = "save" => CycleLeft = 2
      /\ pc \in {"write", "sleep"} => CycleLeft = 1
  BY <1>1, <1>2 DEF CycleLeft
<1>6. pc = "send" => e # 0 /\ l <= e * l
  <2> SUFFICES ASSUME pc = "send" PROVE e # 0 /\ l <= e * l
    OBVIOUS
  <2>1. e # 0  BY <1>2, <1>3 DEF WatchInv, Shape
  <2>2. \A a, b \in Nat : a # 0 => b <= a * b
    <3> TAKE a, b \in Nat
    <3>1. ASSUME a # 0 PROVE b <= a * b
      <4>1. a - 1 \in Nat /\ (a - 1) + 1 = a  BY <3>1
      <4>2. (a - 1) * b \in Nat /\ a * b = (a - 1) * b + b  BY <4>1, CallsArithmetic
      <4>3. QED  BY <4>2
    <3>2. QED  BY <3>1
  <2>3. QED  BY <2>1, <2>2
<1>7. CycleLeft \in Nat /\ CycleLeft > 0
  <2>1. CASE pc = "send"  BY <1>3, <1>4, <1>5, <1>6, <2>1
  <2>2. CASE pc = "rows"
    <3>1. (k + e) * l \in Nat  BY CallsArithmetic
    <3>2. QED  BY <1>5, <2>2, <3>1
  <2>3. CASE pc = "poll"  BY <1>4, <1>5, <2>3
  <2>4. QED  BY <1>3, <1>5, <2>1, <2>2, <2>3
<1>8. CASE pc' = "off"
  <2>1. CycleLeft' = 0  BY <1>8 DEF CycleLeft
  <2>2. QED  BY <1>0, <1>7, <2>1
<1>9. CASE Poll
  <2>1. PICK n \in 0..m : rows' \in [1..n -> Row]  BY <1>1, <1>9 DEF Poll
  <2>2. pc = "poll" /\ pc' = "rows" /\ events' = <<>>
    BY <1>9 DEF Poll, sendVars, WatchInv, Shape
  <2>3. n \in Nat /\ n <= m /\ Len(rows') = n /\ Len(events') = 0  BY <2>1, <2>2
  <2>4. CycleLeft' = (n + 0) * l + n + 3  BY <1>1, <2>2, <2>3 DEF CycleLeft
  <2>5. n * l \in Nat /\ n * l <= m * l
    <3>1. m - n \in Nat /\ n + (m - n) = m  BY <2>3
    <3>2. QED  BY <2>3, <3>1, CallsArithmetic
  <2>6. CycleLeft' = n * l + n + 3  BY <2>3, <2>4
  <2>7. CycleLeft = m * l + m + 4  BY <1>5, <2>2
  <2>8. QED  BY <1>0, <1>4, <2>3, <2>5, <2>6, <2>7
<1>10. CASE PollFails \/ Truncate
  <2>1. \/ pc = "poll" /\ CycleLeft' = 2
        \/ pc = "save" /\ CycleLeft' = 1
    BY <1>10 DEF PollFails, Truncate, CycleLeft
  <2>2. QED  BY <1>0, <1>4, <1>5, <1>7, <2>1
<1>11. CASE PollQuery \/ RowRaises
  <2>1. pc = "rows" /\ pc' = "rows" /\ k # 0
    BY <1>2, <1>3, <1>11 DEF PollQuery, Look, RowRaises, loopVars
  <2>2. PICK d, f \in Nat : /\ d = Len(rows') /\ f = Len(events')
                            /\ d < k /\ d + f <= k + e
    <3>1. CASE RowRaises
      <4>1. Len(rows') = 0 /\ Len(events') = e
        BY <1>2, <3>1 DEF RowRaises, sendVars
      <4>2. QED  BY <2>1, <4>1
    <3>2. CASE PollQuery
      <4>1. Len(rows') = k - 1  BY <1>2, <1>3, <2>1, <3>2 DEF PollQuery, Look
      <4>2. Len(events') \in {e, e + 1}  BY <1>2, <1>3, <3>2 DEF PollQuery, Look
      <4>3. QED  BY <2>1, <4>1, <4>2
    <3>3. QED  BY <1>11, <3>1, <3>2
  <2>3. CycleLeft' = (d + f) * l + d + 3  BY <1>1, <2>1, <2>2 DEF CycleLeft
  <2>4. (d + f) * l \in Nat /\ (d + f) * l <= (k + e) * l
    <3>1. PICK g \in Nat : (d + f) + g = k + e
      <4>1. (k + e) - (d + f) \in Nat /\ (d + f) + ((k + e) - (d + f)) = k + e  BY <2>2
      <4>2. QED  BY <4>1
    <3>2. d + f \in Nat
      OBVIOUS
    <3>3. QED  BY <3>1, <3>2, CallsArithmetic
  <2>5. (k + e) * l \in Nat  BY CallsArithmetic
  <2>6. QED  BY <1>0, <1>5, <2>1, <2>2, <2>3, <2>4, <2>5
<1>12. CASE EndOfRows
  <2>1. pc = "rows" /\ k = 0 /\ next = 1 /\ UNCHANGED <<events, next>>
    BY <1>2, <1>12 DEF EndOfRows, sendVars, WatchInv, Shape
  <2>2. CycleLeft = e * l + 3  BY <1>5, <2>1
  <2>3. \/ pc' = "save" /\ CycleLeft' = 2
        \/ pc' = "send" /\ CycleLeft' = e * l - 1 + 3
    BY <1>1, <1>2, <1>12, <2>1 DEF EndOfRows, CycleLeft
  <2>4. QED  BY <1>0, <1>4, <2>2, <2>3
<1>13. CASE Send
  <2>1. /\ pc = "send"
        /\ next' = IF next = l THEN 1 ELSE next + 1
        /\ events' = IF next = l THEN Tail(events) ELSE events
        /\ pc' = IF events' = <<>> THEN "save" ELSE "send"
    BY <1>1, <1>13 DEF Send, Call
  <2>2. CycleLeft = e * l - next + 3  BY <1>5, <2>1
  <2>3. CASE pc' = "save"
    <3>1. CycleLeft' = 2  BY <2>3 DEF CycleLeft
    <3>2. \A p, x, y \in Nat : x <= y /\ y <= p => 2 < p - x + 3
      OBVIOUS
    <3>3. next \in Nat /\ next <= l  BY <1>3
    <3>4. 2 < CycleLeft  BY <1>4, <1>6, <2>1, <2>2, <3>2, <3>3
    <3>5. QED  BY <1>0, <1>7, <3>1, <3>4
  <2>4. CASE pc' = "send" /\ next # l
    <3>1. CycleLeft' = e * l - (next + 1) + 3  BY <1>1, <1>2, <2>1, <2>4 DEF CycleLeft
    <3>2. QED  BY <1>0, <1>3, <1>4, <1>6, <2>1, <2>2, <2>4, <3>1
  <2>5. CASE pc' = "send" /\ next = l
    <3>1. PICK d \in Nat : e = d + 1 /\ Len(events') = d
      <4>1. Len(events') = e - 1  BY <1>2, <1>3, <1>6, <2>1, <2>5
      <4>2. QED  BY <1>6, <2>1, <4>1
    <3>2. CycleLeft' = d * l - 1 + 3  BY <1>1, <2>1, <2>5, <3>1 DEF CycleLeft
    <3>3. e * l = d * l + l /\ d * l \in Nat  BY <3>1, CallsArithmetic
    <3>4. QED  BY <1>0, <2>2, <2>5, <3>2, <3>3
  <2>6. QED  BY <2>1, <2>3, <2>4, <2>5
<1>14. ~Start /\ ~Signal  BY DEF Start, Signal
<1>15. Write \/ Wake \/ Crash \/ SaveRaises => pc' = "off"
  BY DEF Write, Wake, Crash, SaveRaises, End
<1>16. QED
  BY <1>8, <1>9, <1>10, <1>11, <1>12, <1>13, <1>14, <1>15 DEF Next, Step

\* A daemon that was asked to stop takes a bounded number of steps more, one
\* poll of top_queries rows and their alerts at the most.
THEOREM StopIsBounded == Spec => [][StopComesCloser]_vars
BY WatchInvariant, StepComesCloser, PTL DEF Spec
=============================================================================
