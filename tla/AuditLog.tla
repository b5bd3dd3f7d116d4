------------------------------ MODULE AuditLog ------------------------------
(***************************************************************************)
(* The audit trail of audit/logger.py: AuditLogger objects, each in a      *)
(* process of its own, that append hash-linked events to one file; their   *)
(* restarts, and writes that are cut short by a crash or a full disk.      *)
(*                                                                         *)
(* The HMAC of an event is modelled as a number no other event has: it     *)
(* covers the event's time and the hash before it.  What an event says is  *)
(* left out, and so are the logging sink and the callback, whose errors    *)
(* are swallowed.                                                          *)
(***************************************************************************)
EXTENDS Integers, FiniteSets, Sequences

CONSTANTS
  Logger,    \* processes with an AuditLogger on the file
  Outcomes,  \* how a write to the file may come out
  MaxEvents  \* bound on the events, for model checking

WriteOutcomes == {"whole", "unterminated", "part", "none"}

ASSUME AuditAssumption ==
  /\ Outcomes \subseteq WriteOutcomes
  /\ MaxEvents \in Nat

Genesis == 0
Junk == [hash |-> -1, prev |-> -1]  \* a line that is not JSON
Idle == [hash |-> -2, prev |-> -2]  \* no event under way

VARIABLES
  file,        \* the lines of _log_file
  terminated,  \* whether the file ends in a newline (or is empty)
  up,          \* logger -> whether its process runs
  last,        \* logger -> _last_hash
  events,      \* logger -> _events
  pending,     \* logger -> the event linked and not yet written
  returned,    \* hashes of the events whose _emit returned
  made,        \* hashes handed out so far
  calm         \* history: no write was cut short, no two processes ran at once

vars == <<file, terminated, up, last, events, pending, returned, made, calm>>

-----------------------------------------------------------------------------
\* Mistake: an unreadable last line not handled.
ReadLastHashBlindly == IF file = <<>> THEN Genesis ELSE file[Len(file)].hash

\* _read_last_hash: an empty file and an unreadable last line start a chain.
ReadLastHash ==
  IF file = <<>> \/ file[Len(file)] = Junk THEN Genesis ELSE file[Len(file)].hash

\* The file after a line was written with an outcome.  What is appended to an
\* unterminated line makes one line with it, which is not JSON.
AfterWrite(line, outcome) ==
  IF outcome = "none" THEN UNCHANGED <<file, terminated>>
  ELSE /\ file' = IF terminated
                    THEN Append(file, IF outcome = "part" THEN Junk ELSE line)
                    ELSE [file EXCEPT ![Len(file)] = Junk]
       /\ terminated' = (outcome = "whole")

\* Mistake: the file opened for writing, not for appending.
Overwrite(line, outcome) ==
  IF outcome = "none" THEN UNCHANGED <<file, terminated>>
  ELSE /\ file' = <<IF outcome = "part" THEN Junk ELSE line>>
       /\ terminated' = (outcome = "whole")

WriteLine(line, outcome) == AfterWrite(line, outcome)

Init ==
  /\ file = <<>> /\ terminated = TRUE
  /\ up = [l \in Logger |-> FALSE]
  /\ last = [l \in Logger |-> Genesis]
  /\ events = [l \in Logger |-> <<>>]
  /\ pending = [l \in Logger |-> Idle]
  /\ returned = {}
  /\ made = 0
  /\ calm = TRUE

\* Whether the trail is calm still when l starts.
CalmWith(l) == calm /\ \A other \in Logger \ {l} : ~up[other]

\* Mistake: a chain begun anew by every process.
OpenAfresh(l) ==
  /\ ~up[l]
  /\ up' = [up EXCEPT ![l] = TRUE]
  /\ last' = [last EXCEPT ![l] = Genesis]
  /\ events' = [events EXCEPT ![l] = <<>>]
  /\ calm' = CalmWith(l)
  /\ UNCHANGED <<file, terminated, pending, returned, made>>

\* AuditLogger(log_file=...) in a new process.
Open(l) ==
  /\ ~up[l]
  /\ up' = [up EXCEPT ![l] = TRUE]
  /\ last' = [last EXCEPT ![l] = ReadLastHash]
  /\ events' = [events EXCEPT ![l] = <<>>]
  /\ calm' = CalmWith(l)
  /\ UNCHANGED <<file, terminated, pending, returned, made>>

\* _emit up to the file: the event is linked, and the chain moves on.
Link(l) ==
  /\ up[l] /\ pending[l] = Idle
  /\ made < MaxEvents
  /\ made' = made + 1
  /\ LET event == [hash |-> made + 1, prev |-> last[l]] IN
       /\ pending' = [pending EXCEPT ![l] = event]
       /\ events' = [events EXCEPT ![l] = Append(@, event)]
       /\ last' = [last EXCEPT ![l] = made + 1]
  /\ UNCHANGED <<file, terminated, up, returned, calm>>

\* _emit from the file on: the whole line is written and the call returns.
Write(l) ==
  /\ pending[l] # Idle /\ "whole" \in Outcomes
  /\ WriteLine(pending[l], "whole")
  /\ pending' = [pending EXCEPT ![l] = Idle]
  /\ returned' = returned \cup {pending[l].hash}
  /\ UNCHANGED <<up, last, events, made, calm>>

\* The write raises: the caller gets the OSError, and the logger goes on from
\* the hash of the event that is not, or not whole, in the file.
WriteRaises(l) ==
  /\ pending[l] # Idle
  /\ \E outcome \in Outcomes \ {"whole"} : WriteLine(pending[l], outcome)
  /\ pending' = [pending EXCEPT ![l] = Idle]
  /\ calm' = FALSE
  /\ UNCHANGED <<up, last, events, returned, made>>

\* The process ends, in the middle of a write or outside of it.
Stop(l) ==
  /\ up[l]
  /\ up' = [up EXCEPT ![l] = FALSE]
  /\ IF pending[l] = Idle THEN UNCHANGED <<file, terminated, calm>>
     ELSE \E outcome \in Outcomes \cup {"none"} :
            /\ WriteLine(pending[l], outcome)
            /\ calm' = (calm /\ outcome \in {"whole", "none"})
  /\ pending' = [pending EXCEPT ![l] = Idle]
  /\ UNCHANGED <<last, events, returned, made>>

Next == \E l \in Logger : Open(l) \/ Link(l) \/ Write(l) \/ WriteRaises(l) \/ Stop(l)

Spec == Init /\ [][Next]_vars

-----------------------------------------------------------------------------
\* The hash verify_file_chain expects before line i, when no line before it
\* is damaged.
Expected(i) == IF i = 1 THEN Genesis ELSE file[i - 1].hash

\* Mistake: damaged lines skipped like blank ones.
VerifyReadable ==
  \A i \in DOMAIN file : file[i] # Junk =>
    \/ file[i].prev = Expected(i)
    \/ i > 1 /\ file[i - 1] = Junk

\* Mistake: a chain may begin anew in any line.
VerifyRestarts ==
  \A i \in DOMAIN file : file[i] # Junk /\ file[i].prev \in {Genesis, Expected(i)}

\* A damaged line is an error by itself.
Links(i) == file[i] # Junk /\ file[i].prev = Expected(i)

\* verify_file_chain: its first result.
VerifyFileChain == \A i \in DOMAIN file : Links(i)

\* verify_chain of the events in memory: its first result.
VerifyChain(l) ==
  \A i \in DOMAIN events[l] :
    events[l][i].prev = IF i = 1 THEN Genesis ELSE events[l][i - 1].hash

InFile(hash) == \E i \in DOMAIN file : file[i] # Junk /\ file[i].hash = hash

-----------------------------------------------------------------------------
Event == [hash : 1 .. MaxEvents, prev : 0 .. MaxEvents]

\* Types of the variables.
TypeOK ==
  /\ file \in Seq(Event \cup {Junk})
  /\ terminated \in BOOLEAN /\ (file = <<>> => terminated)
  /\ up \in [Logger -> BOOLEAN]
  /\ last \in [Logger -> 0 .. MaxEvents]
  /\ events \in [Logger -> Seq(Event)]
  /\ pending \in [Logger -> Event \cup {Idle}]
  /\ returned \subseteq 1 .. MaxEvents
  /\ made \in 0 .. MaxEvents
  /\ calm \in BOOLEAN

\* A file that verifies holds every event whose call returned: whatever the
\* writers, crashes and failed writes did, loss is reported.
LossIsReported == VerifyFileChain => \A h \in returned : InFile(h)

\* A file that verifies lists the events in the order in which they were made.
VerifiedIsOrdered ==
  VerifyFileChain => \A i, j \in DOMAIN file : i < j => file[i].hash < file[j].hash

\* A line that is complete is never changed, moved or removed.
LinesStay ==
  [][\A i \in DOMAIN file : i < Len(file) \/ terminated =>
       i \in DOMAIN file' /\ file'[i] = file[i]]_vars

\* "an immutable, tamper-evident chain": the file verifies at every moment, over
\* any number of restarts and crashes outside the write, until a write is cut
\* short or two processes have the file open at once.
ChainUnbroken == calm => VerifyFileChain

\* "Verify the integrity of the entire event chain": nothing was tampered
\* with, so the events in memory verify.
MemoryVerifies == \A l \in Logger : VerifyChain(l)

\* The complete lines before the first one that does not link.
Trusts(k) ==
  /\ k \in 0 .. Len(file)
  /\ \A i \in 1 .. k : Links(i) /\ (i < Len(file) \/ terminated)
  /\ k < Len(file) => ~(Links(k + 1) /\ (k + 1 < Len(file) \/ terminated))

Trusted == SubSeq(file, 1, CHOOSE k \in 0 .. Len(file) : Trusts(k))

Trail == INSTANCE AuditTrail WITH trail <- Trusted, Hash <- 1 .. MaxEvents

\* Whatever the writers, crashes and short writes do, the verified prefix of the
\* file keeps the promise of AuditTrail: it only grows, by one linked event.
ImplementsTrail == Trail!TrailSpec
=============================================================================
