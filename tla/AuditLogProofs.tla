--------------------------- MODULE AuditLogProofs ---------------------------
(***************************************************************************)
(* For any number of loggers, events and restarts: the verification of the *)
(* audit file reports every loss, the chain is unbroken as long as nothing *)
(* but restarts happens to it, and its verified prefix always implements   *)
(* AuditTrail.                                                             *)
(***************************************************************************)
EXTENDS AuditLog, SequenceTheorems, TLAPS

Damaged == \E i \in DOMAIN file : file[i] = Junk

\* Loss and damage go together: the invariant behind LossIsReported.
LossInv == Damaged \/ \A h \in returned : InFile(h)

-----------------------------------------------------------------------------
LEMMA NoEventIsJunk == \A e \in Event : e # Junk /\ e # Idle /\ e.hash \in 1 .. MaxEvents
BY AuditAssumption DEF Event, Junk, Idle

\* The two ways a line gets into the file.
LEMMA AppendFacts ==
  \A S, s, e : s \in Seq(S) /\ e \in S =>
    /\ Append(s, e) \in Seq(S) /\ Append(s, e) # <<>>
    /\ Len(s) \in Nat /\ DOMAIN s = 1 .. Len(s)
    /\ DOMAIN Append(s, e) = 1 .. Len(s) + 1
    /\ Len(Append(s, e)) = Len(s) + 1
    /\ Append(s, e)[Len(s) + 1] = e
    /\ \A i \in 1 .. Len(s) : Append(s, e)[i] = s[i]
OBVIOUS

LEMMA DamageFacts ==
  ASSUME NEW S, NEW s \in Seq(S), NEW e \in S, s # <<>>
  PROVE  LET d == [s EXCEPT ![Len(s)] = e] IN
           /\ d \in Seq(S) /\ d # <<>>
           /\ Len(s) \in DOMAIN d /\ d[Len(s)] = e
<1>1. Len(s) \in Nat \ {0} /\ DOMAIN s = 1 .. Len(s) /\ s \in [1 .. Len(s) -> S]
  OBVIOUS
<1> DEFINE d == [s EXCEPT ![Len(s)] = e]
<1>2. d \in [1 .. Len(s) -> S] /\ d[Len(s)] = e
  BY <1>1
<1>3. d \in Seq(S) /\ DOMAIN d = 1 .. Len(s)
  BY <1>1, <1>2
<1> QED BY <1>1, <1>2, <1>3

Lines == Event \cup {Junk}

\* What a write does to the file: nothing, one more line, or a damaged end.
LEMMA WriteCases ==
  ASSUME TypeOK, NEW line \in Event, NEW outcome \in WriteOutcomes, WriteLine(line, outcome)
  PROVE  \/ outcome = "none" /\ UNCHANGED <<file, terminated>>
         \/ /\ \E e \in Lines : file' = Append(file, e) /\ (outcome = "whole" => e = line)
            /\ terminated /\ terminated' = (outcome = "whole")
         \/ /\ file # <<>> /\ file' = [file EXCEPT ![Len(file)] = Junk]
            /\ ~terminated /\ terminated' = (outcome = "whole")
BY DEF WriteLine, AfterWrite, TypeOK, Lines

\* Writing keeps the type of the file, and never shortens it.
LEMMA WriteType ==
  ASSUME TypeOK, NEW line \in Event, NEW outcome \in WriteOutcomes, WriteLine(line, outcome)
  PROVE  /\ file' \in Seq(Lines)
         /\ terminated' \in BOOLEAN /\ (file' = <<>> => terminated')
<1>1. file \in Seq(Lines) /\ Junk \in Lines
  BY DEF TypeOK, Lines
<1>2. CASE UNCHANGED <<file, terminated>>
  BY <1>1, <1>2 DEF TypeOK
<1>3. ASSUME NEW e \in Lines, file' = Append(file, e), terminated' = (outcome = "whole")
      PROVE  file' \in Seq(Lines) /\ terminated' \in BOOLEAN /\ file' # <<>>
  <2>1. Append(file, e) \in Seq(Lines) /\ Append(file, e) # <<>>
    BY <1>1, AppendFacts
  <2> QED BY <2>1, <1>3
<1>4. CASE /\ file # <<>> /\ file' = [file EXCEPT ![Len(file)] = Junk]
           /\ terminated' = (outcome = "whole")
  <2>1. file' \in Seq(Lines) /\ file' # <<>>
    BY <1>1, <1>4, DamageFacts
  <2> QED BY <2>1, <1>4
<1> QED BY <1>2, <1>3, <1>4, WriteCases

\* Typing: every step.
LEMMA TypeStep == TypeOK /\ [Next]_vars => TypeOK'
<1> SUFFICES ASSUME TypeOK, [Next]_vars PROVE TypeOK'
  OBVIOUS
<1>0. MaxEvents \in Nat /\ Outcomes \subseteq WriteOutcomes /\ {"whole", "none"} \subseteq WriteOutcomes
  BY AuditAssumption DEF WriteOutcomes
<1>p. \A l \in Logger : pending[l] # Idle => pending[l] \in Event
  BY DEF TypeOK
<1>1. ASSUME NEW l \in Logger, Open(l) PROVE TypeOK'
  <2>1. ReadLastHash \in 0 .. MaxEvents
    <3>1. CASE file = <<>>
      BY <3>1, <1>0 DEF ReadLastHash, Genesis
    <3>2. CASE file # <<>>
      <4>1. file[Len(file)] \in Event \cup {Junk}
        BY <3>2 DEF TypeOK
      <4> QED BY <4>1, <1>0 DEF ReadLastHash, Event, Genesis
    <3> QED BY <3>1, <3>2
  <2>2. calm' \in BOOLEAN
    BY <1>1 DEF Open, CalmWith, TypeOK
  <2> QED BY <1>1, <2>1, <2>2 DEF Open, TypeOK
<1>2. ASSUME NEW l \in Logger, Link(l) PROVE TypeOK'
  <2> DEFINE event == [hash |-> made + 1, prev |-> last[l]]
  <2>1. event \in Event /\ made + 1 \in 0 .. MaxEvents
    BY <1>0, <1>2 DEF Link, TypeOK, Event
  <2>2. Append(events[l], event) \in Seq(Event)
    BY <2>1 DEF TypeOK
  <2>3. /\ pending' = [pending EXCEPT ![l] = event]
        /\ events' = [events EXCEPT ![l] = Append(events[l], event)]
        /\ last' = [last EXCEPT ![l] = made + 1]
        /\ made' = made + 1
        /\ UNCHANGED <<file, terminated, up, returned, calm>>
    BY <1>2 DEF Link
  <2> HIDE DEF event
  <2> QED BY <2>1, <2>2, <2>3 DEF TypeOK
<1>3. ASSUME NEW l \in Logger, Write(l) \/ WriteRaises(l) \/ Stop(l) PROVE TypeOK'
  <2>1. /\ pending' = [pending EXCEPT ![l] = Idle]
        /\ UNCHANGED <<last, events, made>>
        /\ up' \in [Logger -> BOOLEAN] /\ calm' \in BOOLEAN
    BY <1>3 DEF Write, WriteRaises, Stop, TypeOK
  <2>2. returned' \subseteq 1 .. MaxEvents
    <3>1. CASE Write(l)
      BY <3>1, <1>p, NoEventIsJunk DEF Write, TypeOK
    <3> QED BY <3>1, <1>3 DEF WriteRaises, Stop, TypeOK
  <2>3. \/ UNCHANGED <<file, terminated>>
        \/ pending[l] # Idle /\ \E outcome \in WriteOutcomes : WriteLine(pending[l], outcome)
    BY <1>0, <1>3 DEF Write, WriteRaises, Stop
  <2>4. /\ file' \in Seq(Lines)
        /\ terminated' \in BOOLEAN /\ (file' = <<>> => terminated')
    <3>1. CASE UNCHANGED <<file, terminated>>
      BY <3>1 DEF TypeOK, Lines
    <3> QED BY <3>1, <2>3, <1>p, WriteType
  <2> QED BY <2>1, <2>2, <2>4 DEF TypeOK, Lines
<1>4. CASE UNCHANGED vars
  BY <1>4 DEF vars, TypeOK
<1> QED BY <1>1, <1>2, <1>3, <1>4 DEF Next

LEMMA TypeInit == Init => TypeOK
BY AuditAssumption DEF Init, TypeOK, Genesis

-----------------------------------------------------------------------------
\* A write keeps damage, and destroys an event only by damaging the file.
LEMMA WriteLoses ==
  ASSUME TypeOK, NEW line \in Event, NEW outcome \in WriteOutcomes, WriteLine(line, outcome)
  PROVE  /\ Damaged => Damaged'
         /\ ~Damaged' => /\ \A h : InFile(h) => InFile(h)'
                         /\ outcome = "whole" => InFile(line.hash)'
<1>0. file \in Seq(Lines) /\ Junk \in Lines
  BY DEF TypeOK, Lines
<1>1. CASE outcome = "none" /\ UNCHANGED file
  BY <1>1 DEF Damaged, InFile
<1>2. ASSUME NEW e \in Lines, file' = Append(file, e), outcome = "whole" => e = line
      PROVE  /\ Damaged => Damaged'
             /\ \A h : InFile(h) => InFile(h)'
             /\ outcome = "whole" => InFile(line.hash)'
  <2> DEFINE n == Len(file)
  <2>1. /\ n \in Nat /\ DOMAIN file = 1 .. n
        /\ DOMAIN file' = 1 .. n + 1 /\ file'[n + 1] = e
        /\ \A i \in 1 .. n : file'[i] = file[i]
    BY <1>0, <1>2, AppendFacts
  <2> HIDE DEF n
  <2>2. \A i \in DOMAIN file : i \in DOMAIN file' /\ file'[i] = file[i]
    BY <2>1
  <2>3. Damaged => Damaged'
    BY <2>2 DEF Damaged
  <2>4. \A h : InFile(h) => InFile(h)'
    BY <2>2 DEF InFile
  <2>5. ASSUME outcome = "whole" PROVE InFile(line.hash)'
    <3>1. e = line /\ line # Junk
      BY <2>5, <1>2, NoEventIsJunk
    <3>2. n + 1 \in DOMAIN file'
      BY <2>1
    <3> QED BY <2>1, <3>1, <3>2 DEF InFile
  <2> QED BY <2>3, <2>4, <2>5
<1>3. ASSUME file # <<>>, file' = [file EXCEPT ![Len(file)] = Junk] PROVE Damaged'
  <2>1. Len(file) \in DOMAIN file' /\ file'[Len(file)] = Junk
    BY <1>0, <1>3, DamageFacts
  <2> QED BY <2>1 DEF Damaged
<1>4. \/ outcome = "none" /\ UNCHANGED file
      \/ \E e \in Lines : file' = Append(file, e) /\ (outcome = "whole" => e = line)
      \/ file # <<>> /\ file' = [file EXCEPT ![Len(file)] = Junk]
  BY WriteCases
<1> QED BY <1>1, <1>2, <1>3, <1>4

LEMMA LossStep == TypeOK /\ LossInv /\ [Next]_vars => LossInv'
<1> SUFFICES ASSUME TypeOK, LossInv, [Next]_vars PROVE LossInv'
  OBVIOUS
<1>0. Outcomes \subseteq WriteOutcomes /\ {"whole", "none"} \subseteq WriteOutcomes
  BY AuditAssumption DEF WriteOutcomes
<1>p. \A l \in Logger : pending[l] # Idle => pending[l] \in Event
  BY DEF TypeOK
<1>1. ASSUME NEW l \in Logger, Write(l) PROVE LossInv'
  <2>1. PICK line \in Event : line = pending[l]
    BY <1>1, <1>p DEF Write
  <2>2. WriteLine(line, "whole") /\ returned' = returned \cup {line.hash}
    BY <1>1, <2>1 DEF Write
  <2>3. /\ Damaged => Damaged'
        /\ ~Damaged' => /\ \A h : InFile(h) => InFile(h)'
                        /\ InFile(line.hash)'
    BY <1>0, <2>2, WriteLoses
  <2>4. ASSUME ~Damaged' PROVE \A h \in returned' : InFile(h)'
    BY <2>2, <2>3, <2>4 DEF LossInv
  <2> QED BY <2>4 DEF LossInv
<1>2. ASSUME NEW l \in Logger, WriteRaises(l) \/ Stop(l) PROVE LossInv'
  <2>1. returned' = returned
    BY <1>2 DEF WriteRaises, Stop
  <2>2. CASE UNCHANGED file
    BY <2>1, <2>2 DEF LossInv, Damaged, InFile
  <2>3. CASE pending[l] # Idle /\ \E outcome \in WriteOutcomes : WriteLine(pending[l], outcome)
    <3>1. /\ Damaged => Damaged'
          /\ ~Damaged' => \A h : InFile(h) => InFile(h)'
      BY <2>3, <1>p, WriteLoses
    <3> QED BY <2>1, <3>1 DEF LossInv
  <2> QED BY <1>0, <1>2, <2>2, <2>3 DEF WriteRaises, Stop
<1>3. CASE UNCHANGED <<file, returned>>
  BY <1>3 DEF LossInv, Damaged, InFile
<1> QED BY <1>1, <1>2, <1>3 DEF Next, Open, Link, vars

\* verify_file_chain never calls a file valid that misses an event whose
\* _emit returned: every way to lose one leaves a damaged line.
THEOREM LossReported == Spec => []LossIsReported
<1>1. Init => LossInv
  BY DEF Init, LossInv
<1>2. LossInv => LossIsReported
  BY DEF LossInv, LossIsReported, Damaged, VerifyFileChain, Links
<1> QED BY <1>1, <1>2, TypeInit, TypeStep, LossStep, PTL DEF Spec

-----------------------------------------------------------------------------
\* The writer's hash is that of the last line, and the event under way, if
\* there is one, names it.
Follows(l) ==
  IF pending[l] = Idle THEN up[l] => last[l] = ReadLastHash
  ELSE up[l] /\ pending[l].prev = ReadLastHash /\ last[l] = pending[l].hash

ChainInv ==
  /\ VerifyFileChain /\ terminated
  /\ \A l \in Logger : Follows(l)
  /\ \A l, other \in Logger : up[l] /\ up[other] => l = other

\* A line that names the last hash extends the chain by one.
LEMMA LineExtends ==
  ASSUME TypeOK, VerifyFileChain, terminated, NEW line \in Event, line.prev = ReadLastHash,
         WriteLine(line, "whole")
  PROVE  VerifyFileChain' /\ terminated' /\ ReadLastHash' = line.hash
<1> DEFINE n == Len(file)
<1>1. file' = Append(file, line) /\ terminated'
  BY DEF WriteLine, AfterWrite
<1>2. file \in Seq(Lines) /\ line \in Lines /\ line # Junk
  BY NoEventIsJunk DEF TypeOK, Lines
<1>3. /\ n \in Nat /\ DOMAIN file = 1 .. n
      /\ DOMAIN file' = 1 .. n + 1 /\ Len(file') = n + 1 /\ file' # <<>>
      /\ file'[n + 1] = line
      /\ \A i \in 1 .. n : file'[i] = file[i]
  BY <1>1, <1>2, AppendFacts
<1>4. file = <<>> <=> n = 0
  BY <1>2
<1>5. ReadLastHash = IF n = 0 THEN Genesis ELSE file[n].hash
  BY <1>3, <1>4 DEF ReadLastHash, VerifyFileChain, Links
<1>6. ReadLastHash' = line.hash
  BY <1>2, <1>3 DEF ReadLastHash
<1>7. \A i \in 1 .. n : file[i] # Junk /\ file[i].prev = IF i = 1 THEN Genesis ELSE file[i - 1].hash
  BY <1>3 DEF VerifyFileChain, Links, Expected
<1> HIDE DEF n
<1>8. ASSUME NEW i \in 1 .. n + 1
      PROVE  file'[i] # Junk /\ file'[i].prev = IF i = 1 THEN Genesis ELSE file'[i - 1].hash
  <2>1. CASE i \in 1 .. n
    <3>1. i = 1 \/ i - 1 \in 1 .. n
      BY <1>3, <2>1
    <3> QED BY <1>3, <1>7, <2>1, <3>1
  <2>2. CASE i = n + 1
    <3>1. n = 0 \/ (n \in 1 .. n /\ i - 1 = n /\ i # 1)
      BY <1>3, <2>2
    <3> QED BY <1>2, <1>3, <1>5, <2>2, <3>1
  <2> QED BY <1>3, <2>1, <2>2
<1>9. VerifyFileChain'
  BY <1>3, <1>8 DEF VerifyFileChain, Links, Expected
<1> QED BY <1>1, <1>6, <1>9

LEMMA ChainStep ==
  ASSUME TypeOK, calm => ChainInv, [Next]_vars
  PROVE  (calm => ChainInv)'
<1> SUFFICES ASSUME calm' PROVE ChainInv'
  OBVIOUS
<1>0. \A l \in Logger : pending[l] # Idle => pending[l] \in Event
  BY DEF TypeOK
<1>f. ASSUME UNCHANGED file PROVE ReadLastHash' = ReadLastHash /\ (VerifyFileChain => VerifyFileChain')
  BY <1>f DEF ReadLastHash, VerifyFileChain, Links, Expected
\* Only one process is up, so the others have nothing under way.
<1>a. ASSUME calm, NEW l \in Logger, up[l], NEW other \in Logger, other # l
      PROVE  ~up[other] /\ pending[other] = Idle
  BY <1>a DEF ChainInv, Follows
<1>1. ASSUME NEW l \in Logger, Open(l) PROVE ChainInv'
  <2>1. /\ calm /\ UNCHANGED <<file, terminated, pending>>
        /\ up' = [up EXCEPT ![l] = TRUE] /\ last' = [last EXCEPT ![l] = ReadLastHash]
        /\ \A other \in Logger : ~up[other]
    BY <1>1 DEF Open, CalmWith
  <2>2. \A other \in Logger : pending[other] = Idle
    BY <2>1 DEF ChainInv, Follows
  <2>3. /\ up'[l] /\ last'[l] = ReadLastHash
        /\ \A other \in Logger \ {l} : ~up'[other]
    BY <2>1 DEF TypeOK
  <2> QED BY <1>f, <2>1, <2>2, <2>3 DEF ChainInv, Follows
<1>2. ASSUME NEW l \in Logger, Link(l) PROVE ChainInv'
  <2>1. calm /\ last[l] = ReadLastHash /\ up[l] /\ pending[l] = Idle
    BY <1>2 DEF Link, ChainInv, Follows
  <2>2. /\ pending'[l] = [hash |-> made + 1, prev |-> last[l]]
        /\ last'[l] = made + 1 /\ up' = up
        /\ \A other \in Logger \ {l} : pending'[other] = pending[other]
        /\ UNCHANGED <<file, terminated>>
    BY <1>2 DEF Link, TypeOK
  <2>3. pending'[l].prev = ReadLastHash /\ pending'[l].hash = last'[l] /\ pending'[l] # Idle
    <3>1. made + 1 # -2
      BY AuditAssumption DEF TypeOK
    <3> QED BY <2>1, <2>2, <3>1 DEF Idle
  <2> QED BY <1>a, <1>f, <2>1, <2>2, <2>3 DEF ChainInv, Follows
\* A whole line, by the process that is up.
<1>3. ASSUME calm, NEW l \in Logger, pending[l] # Idle, WriteLine(pending[l], "whole"),
             pending' = [pending EXCEPT ![l] = Idle], UNCHANGED last,
             \A other \in Logger : up'[other] => up[other]
      PROVE  ChainInv'
  <2>1. PICK line \in Event : line = pending[l]
    BY <1>0, <1>3
  <2>2. line.prev = ReadLastHash /\ last[l] = line.hash /\ up[l]
    BY <1>3, <2>1 DEF ChainInv, Follows
  <2>3. VerifyFileChain' /\ terminated' /\ ReadLastHash' = line.hash
    BY <1>3, <2>1, <2>2, LineExtends DEF ChainInv
  <2>4. pending'[l] = Idle /\ \A other \in Logger \ {l} : pending'[other] = pending[other]
    BY <1>3 DEF TypeOK
  <2> QED BY <1>3, <1>a, <2>2, <2>3, <2>4 DEF ChainInv, Follows
<1>4. ASSUME NEW l \in Logger, Write(l) PROVE ChainInv'
  BY <1>3, <1>4 DEF Write
<1>5. ASSUME NEW l \in Logger, WriteRaises(l) PROVE FALSE
  BY <1>5 DEF WriteRaises
<1>6. ASSUME NEW l \in Logger, Stop(l) PROVE ChainInv'
  <2>1. /\ pending' = [pending EXCEPT ![l] = Idle] /\ up' = [up EXCEPT ![l] = FALSE]
        /\ up[l] /\ UNCHANGED last
    BY <1>6 DEF Stop
  <2>2. /\ pending'[l] = Idle /\ ~up'[l]
        /\ \A other \in Logger \ {l} : pending'[other] = pending[other] /\ up'[other] = up[other]
    BY <2>1 DEF TypeOK
  <2>3. CASE calm /\ UNCHANGED <<file, terminated>>
    BY <1>a, <1>f, <2>1, <2>2, <2>3 DEF ChainInv, Follows
  <2>4. CASE calm /\ pending[l] # Idle /\ WriteLine(pending[l], "whole")
    BY <1>3, <2>1, <2>2, <2>4
  <2>5. ASSUME WriteLine(pending[l], "none") PROVE UNCHANGED <<file, terminated>>
    BY <2>5 DEF WriteLine, AfterWrite
  <2> QED BY <1>6, <2>3, <2>4, <2>5 DEF Stop
<1>7. CASE UNCHANGED vars
  BY <1>7, <1>f DEF vars, ChainInv, Follows
<1> QED BY <1>1, <1>2, <1>4, <1>5, <1>6, <1>7 DEF Next

LEMMA ChainInit == Init => (calm => ChainInv)
BY DEF Init, ChainInv, Follows, VerifyFileChain

\* For any processes: the file verifies at every moment, across crashes between
\* the link and the write and restarts, until a write is cut short or two
\* processes run at once.
THEOREM CalmIsUnbroken == Spec => []ChainUnbroken
<1>1. (calm => ChainInv) => ChainUnbroken
  BY DEF ChainInv, ChainUnbroken
<1> QED BY <1>1, TypeInit, TypeStep, ChainInit, ChainStep, PTL DEF Spec

-----------------------------------------------------------------------------
\* A line that is complete and links.
Good(i) == Links(i) /\ (i < Len(file) \/ terminated)

\* The invariant behind ImplementsTrail: there is a first line that is not good,
\* or none.  (Stated as an invariant, it needs no induction on the file.)
TrustInv == \E k \in 0 .. Len(file) : Trusts(k)

LEMMA TrustsIsGood ==
  \A k : Trusts(k) <=> /\ k \in 0 .. Len(file)
                       /\ \A i \in 1 .. k : Good(i)
                       /\ k < Len(file) => ~Good(k + 1)
BY DEF Trusts, Good

\* It is the prefix that is called trusted.
LEMMA TrustedPrefix ==
  ASSUME TypeOK, NEW k, Trusts(k)
  PROVE  Trusted = SubSeq(file, 1, k)
<1>1. Len(file) \in Nat
  BY DEF TypeOK
<1>2. ASSUME NEW j \in 0 .. Len(file), Trusts(j) PROVE j = k
  <2>1. k \in 0 .. Len(file)
    BY DEF Trusts
  <2>2. CASE j < k
    BY <1>1, <1>2, <2>1, <2>2, TrustsIsGood
  <2>3. CASE k < j
    BY <1>1, <1>2, <2>1, <2>3, TrustsIsGood
  <2> QED BY <1>1, <2>1, <2>2, <2>3
<1>3. k \in 0 .. Len(file)
  BY DEF Trusts
<1>4. (CHOOSE j \in 0 .. Len(file) : Trusts(j)) = k
  BY <1>2, <1>3
<1> QED BY <1>4 DEF Trusted

\* The good lines before one that is appended or damaged are the same after it.
LEMMA GoodStays ==
  ASSUME TypeOK, TypeOK', NEW m \in Nat, m <= Len(file), m <= Len(file'),
         m < Len(file) \/ terminated, m < Len(file') \/ terminated',
         \A i \in 1 .. m : file'[i] = file[i]
  PROVE  \A i \in 1 .. m : Good(i)' <=> Good(i)
<1>1. Len(file) \in Nat /\ Len(file') \in Nat
  BY DEF TypeOK
<1>2. ASSUME NEW i \in 1 .. m PROVE Links(i)' <=> Links(i)
  <2>1. file'[i] = file[i] /\ (i = 1 \/ i - 1 \in 1 .. m)
    OBVIOUS
  <2> QED BY <2>1 DEF Links, Expected
<1>3. ASSUME NEW i \in 1 .. m
      PROVE  (i < Len(file) \/ terminated) /\ (i < Len(file') \/ terminated')
  BY <1>1
<1> QED BY <1>2, <1>3 DEF Good

LEMMA TrustedStep ==
  ASSUME TypeOK, TypeOK', TrustInv, NEW line \in Event, NEW outcome \in WriteOutcomes,
         WriteLine(line, outcome)
  PROVE  TrustInv' /\ [Trail!TrailNext]_Trusted
<1>0. /\ file \in Seq(Lines) /\ file' \in Seq(Lines)
      /\ Len(file) \in Nat /\ Len(file') \in Nat
  BY DEF TypeOK, Lines
<1>k. PICK k \in 0 .. Len(file) : Trusts(k)
  BY DEF TrustInv
<1>t. Trusted = SubSeq(file, 1, k)
  BY <1>k, TrustedPrefix
<1>p. ASSUME NEW j, Trusts(j)' PROVE TrustInv' /\ Trusted' = SubSeq(file', 1, j)
  <2>1. Len(file') \in Nat /\ j \in 0 .. Len(file')
    BY <1>0, <1>p DEF Trusts
  <2>2. \A i \in 0 .. Len(file') : Trusts(i)' => i = j
    <3> SUFFICES ASSUME NEW i \in 0 .. Len(file'), Trusts(i)' PROVE i = j
      OBVIOUS
    <3>1. /\ \A h \in 1 .. i : Good(h)'
          /\ i < Len(file') => ~Good(i + 1)'
      BY DEF Trusts, Good
    <3>2. /\ \A h \in 1 .. j : Good(h)'
          /\ j < Len(file') => ~Good(j + 1)'
      BY <1>p DEF Trusts, Good
    <3>3. ~(i < j) /\ ~(j < i)
      BY <2>1, <3>1, <3>2
    <3> QED BY <2>1, <3>3
  <2>3. (CHOOSE i \in 0 .. Len(file') : Trusts(i)') = j
    BY <1>p, <2>1, <2>2
  <2> QED BY <1>p, <2>1, <2>3 DEF Trusted, TrustInv
<1>1. CASE UNCHANGED <<file, terminated>>
  <2>1. Trusts(k)'
    BY <1>k, <1>1 DEF Trusts, Links, Expected
  <2> QED BY <1>1, <1>p, <1>t, <2>1
<1>2. ASSUME NEW e \in Lines, file' = Append(file, e), terminated
      PROVE  TrustInv' /\ [Trail!TrailNext]_Trusted
  <2>n. PICK n \in Nat : n = Len(file)
    BY <1>0
  <2>1. /\ n \in Nat /\ DOMAIN file = 1 .. n /\ Len(file') = n + 1
        /\ DOMAIN file' = 1 .. n + 1 /\ file'[n + 1] = e
        /\ \A i \in 1 .. n : file'[i] = file[i]
    BY <1>0, <1>2, <2>n, AppendFacts
  <2>2. \A i \in 1 .. n : Good(i)' <=> Good(i)
    BY <1>2, <2>n, <2>1, GoodStays
  <2>3. SubSeq(file', 1, k) = SubSeq(file, 1, k)
    BY <1>0, <2>n, <2>1
  <2>4. CASE k < n \/ ~Good(n + 1)'
    <3>1. Trusts(k)'
      <4>1. k \in 0 .. n /\ \A i \in 1 .. k : Good(i)
        BY <1>k, <2>n, TrustsIsGood
      <4>2. \A i \in 1 .. k : Good(i)'
        BY <2>1, <2>2, <4>1
      <4>3. ~Good(k + 1)'
        <5>1. CASE k < n
          BY <1>k, <2>n, <2>1, <2>2, <5>1, TrustsIsGood
        <5>2. CASE k = n
          BY <2>4, <5>2
        <5> QED BY <2>1, <4>1, <5>1, <5>2
      <4>4. k \in 0 .. Len(file')
        BY <2>1, <4>1
      <4> QED BY <4>2, <4>3, <4>4 DEF Trusts, Good
    <3> QED BY <1>p, <1>t, <2>3, <3>1
  <2>5. CASE k = n /\ Good(n + 1)'
    <3>1. Trusts(n + 1)'
      <4>1. \A i \in 1 .. n : Good(i)'
        BY <1>k, <2>n, <2>1, <2>2, <2>5, TrustsIsGood
      <4>2. n + 1 \in 0 .. Len(file') /\ ~(n + 1 < Len(file')) /\ \A i \in 1 .. n + 1 : Good(i)'
        BY <2>1, <2>5, <4>1
      <4> QED BY <4>2 DEF Trusts, Good
    <3>2. Trusted = file
      BY <1>0, <1>t, <2>n, <2>5, SubSeqFull
    <3>3. TrustInv' /\ Trusted' = Append(file, e)
      <4>1. TrustInv' /\ Trusted' = SubSeq(file', 1, n + 1)
        BY <1>p, <3>1
      <4>2. SubSeq(file', 1, n + 1) = file'
        BY <1>0, <2>1, SubSeqFull
      <4> QED BY <1>2, <4>1, <4>2
    <3>4. e # Junk /\ e.prev = IF n + 1 = 1 THEN Genesis ELSE file'[n + 1 - 1].hash
      BY <2>1, <2>5 DEF Good, Links, Expected
    <3>5. e \in Event /\ e = [hash |-> e.hash, prev |-> e.prev] /\ e.hash \in 1 .. MaxEvents
      BY <3>4 DEF Lines, Event
    <3>6. e.prev = Trail!HeadHash
      <4>1. n = 0 <=> file = <<>>
        BY <1>0, <2>n
      <4>2. n # 0 => file'[n + 1 - 1] = file[n]
        BY <2>1
      <4> QED BY <2>n, <2>1, <3>2, <3>4, <4>1, <4>2 DEF Trail!HeadHash
    <3>7. Trail!Record(e.hash)
      BY <3>2, <3>3, <3>5, <3>6 DEF Trail!Record
    <3> QED BY <3>3, <3>5, <3>7 DEF Trail!TrailNext
  <2>6. k < n \/ k = n
    BY <1>k, <2>n, <2>1
  <2> QED BY <2>4, <2>5, <2>6
<1>3. CASE file # <<>> /\ file' = [file EXCEPT ![Len(file)] = Junk] /\ ~terminated
  <2>n. PICK n \in Nat : n = Len(file)
    BY <1>0
  <2>1. /\ n \in Nat \ {0} /\ Len(file') = n /\ file'[n] = Junk
        /\ \A i \in 1 .. n - 1 : file'[i] = file[i]
    BY <1>0, <1>3, <2>n
  <2>2. \A i \in 1 .. n - 1 : Good(i)' <=> Good(i)
    <3>1. n - 1 \in Nat /\ n - 1 < Len(file) /\ n - 1 < Len(file')
      BY <2>n, <2>1
    <3> QED BY <2>1, <3>1, GoodStays
  <2>3. ~Good(n) /\ ~Good(n)'
    BY <1>3, <2>n, <2>1 DEF Good, Links
  <2>4. k \in 0 .. n - 1 /\ \A i \in 1 .. k : Good(i)
    BY <1>k, <2>n, <2>1, <2>3, TrustsIsGood
  <2>5. Trusts(k)'
    <3>1. \A i \in 1 .. k : Good(i)'
      BY <2>1, <2>2, <2>4
    <3>2. k \in 0 .. Len(file') /\ k + 1 <= n
      BY <2>1, <2>4
    <3>3. ~Good(k + 1)'
      <4>1. CASE k + 1 = n
        BY <2>3, <4>1
      <4>2. CASE k + 1 # n
        <5>1. k + 1 \in 1 .. n - 1 /\ k < n
          BY <2>1, <2>4, <4>2
        <5> QED BY <1>k, <2>n, <2>2, <5>1, TrustsIsGood
      <4> QED BY <4>1, <4>2
    <3> QED BY <3>1, <3>2, <3>3 DEF Trusts, Good
  <2>6. SubSeq(file', 1, k) = SubSeq(file, 1, k)
    BY <1>0, <2>1, <2>4
  <2> QED BY <1>p, <1>t, <2>5, <2>6
<1> QED BY <1>1, <1>2, <1>3, WriteCases

\* For any processes, and every pattern of crashes and short writes: the
\* verified prefix of the file is a trail that only grows, event by event.
THEOREM VerifiedPrefixIsTrail == Spec => ImplementsTrail
<1>1. Init => TrustInv /\ Trail!TrailInit
  <2> SUFFICES ASSUME Init PROVE TrustInv /\ Trail!TrailInit
    OBVIOUS
  <2>1. Len(file) = 0 /\ Trusts(0)
    BY DEF Init, Trusts
  <2>2. TrustInv
    BY <2>1 DEF TrustInv
  <2>3. Trusted = SubSeq(file, 1, 0)
    BY <2>1, TrustedPrefix, TypeInit
  <2> QED BY <2>2, <2>3, SubSeqEmpty DEF Trail!TrailInit
<1>2. TypeOK /\ TypeOK' /\ TrustInv /\ [Next]_vars => TrustInv' /\ [Trail!TrailNext]_Trusted
  <2> SUFFICES ASSUME TypeOK, TypeOK', TrustInv, [Next]_vars
               PROVE  TrustInv' /\ [Trail!TrailNext]_Trusted
    OBVIOUS
  <2>1. CASE UNCHANGED <<file, terminated>>
    <3>1. TrustInv' /\ Trusted' = Trusted
      BY <2>1 DEF TrustInv, Trusted, Trusts, Links, Expected
    <3> QED BY <3>1
  <2>2. ASSUME NEW l \in Logger, pending[l] # Idle, NEW outcome \in WriteOutcomes,
               WriteLine(pending[l], outcome)
        PROVE  TrustInv' /\ [Trail!TrailNext]_Trusted
    <3>1. PICK line \in Event : line = pending[l]
      BY <2>2 DEF TypeOK
    <3> QED BY <2>2, <3>1, TrustedStep
  <2>3. \/ UNCHANGED <<file, terminated>>
        \/ \E l \in Logger, outcome \in WriteOutcomes :
             pending[l] # Idle /\ WriteLine(pending[l], outcome)
    <3>1. Outcomes \subseteq WriteOutcomes /\ {"whole", "none"} \subseteq WriteOutcomes
      BY AuditAssumption DEF WriteOutcomes
    <3> QED BY <3>1 DEF Next, Open, Link, Write, WriteRaises, Stop, vars
  <2> QED BY <2>1, <2>2, <2>3
<1> QED BY <1>1, <1>2, TypeInit, TypeStep, PTL
  DEF Spec, ImplementsTrail, Trail!TrailSpec

-----------------------------------------------------------------------------
\* An event is younger than the one it names, and made already.
InOrder(e) == e.prev < e.hash /\ e.hash <= made

OrderInv ==
  /\ \A l \in Logger : last[l] <= made /\ (pending[l] # Idle => InOrder(pending[l]))
  /\ \A i \in DOMAIN file : file[i] # Junk => InOrder(file[i])
  /\ VerifiedIsOrdered

\* What a write needs and keeps of it.
LEMMA OrderWrite ==
  ASSUME TypeOK, OrderInv, NEW line \in Event, InOrder(line), made' = made,
         NEW outcome \in WriteOutcomes, WriteLine(line, outcome)
  PROVE  /\ \A i \in DOMAIN file' : file'[i] # Junk => InOrder(file[i])'
         /\ VerifiedIsOrdered'
<1>0. file \in Seq(Lines) /\ file' \in Seq(Lines) /\ Len(file) \in Nat
  BY WriteType DEF TypeOK, Lines
<1>n. PICK n \in Nat : n = Len(file) /\ DOMAIN file = 1 .. n
  BY <1>0
<1>h. \A e \in Event : e.hash \in Int /\ e.prev \in Int
  BY AuditAssumption DEF Event
<1>1. CASE UNCHANGED file
  BY <1>1 DEF OrderInv, InOrder, VerifiedIsOrdered, VerifyFileChain, Links, Expected
<1>2. ASSUME NEW e \in Lines, file' = Append(file, e), e # Junk => InOrder(e)
      PROVE  /\ \A i \in DOMAIN file' : file'[i] # Junk => InOrder(file[i])'
             /\ VerifiedIsOrdered'
  <2>1. /\ DOMAIN file' = 1 .. n + 1 /\ file'[n + 1] = e
        /\ \A i \in 1 .. n : file'[i] = file[i]
    BY <1>0, <1>n, <1>2, AppendFacts
  <2>2. \A i \in DOMAIN file' : file'[i] # Junk => InOrder(file[i])'
    BY <1>n, <1>2, <2>1 DEF OrderInv, InOrder
  <2>3. ASSUME VerifyFileChain', NEW i \in 1 .. n + 1, NEW j \in 1 .. n + 1, i < j
        PROVE  file'[i].hash < file'[j].hash
    <3>1. \A h \in 1 .. n + 1 : file'[h] # Junk /\ file'[h].prev = IF h = 1 THEN Genesis ELSE file'[h - 1].hash
      BY <2>1, <2>3 DEF VerifyFileChain, Links, Expected
    <3>2. \A h \in 1 .. n : file[h] # Junk /\ file[h].prev = IF h = 1 THEN Genesis ELSE file[h - 1].hash
      <4> SUFFICES ASSUME NEW h \in 1 .. n
                   PROVE  file[h] # Junk /\ file[h].prev = IF h = 1 THEN Genesis ELSE file[h - 1].hash
        OBVIOUS
      <4>1. h \in 1 .. n + 1 /\ (h = 1 \/ h - 1 \in 1 .. n)
        OBVIOUS
      <4> QED BY <2>1, <3>1, <4>1
    <3>3. VerifyFileChain
      BY <1>n, <3>2 DEF VerifyFileChain, Links, Expected
    <3>4. \A h, k \in 1 .. n : h < k => file[h].hash < file[k].hash
      BY <1>n, <3>3 DEF OrderInv, VerifiedIsOrdered
    <3>5. CASE j \in 1 .. n
      <4>1. i \in 1 .. n
        BY <2>3, <3>5
      <4> QED BY <2>1, <2>3, <3>4, <3>5, <4>1
    <3>6. CASE j = n + 1
      <4>1. i \in 1 .. n /\ n \in 1 .. n /\ n + 1 \in 1 .. n + 1 /\ n + 1 # 1 /\ n + 1 - 1 = n
        BY <2>3, <3>6
      <4>2. e # Junk /\ e.prev = file[n].hash
        BY <2>1, <3>1, <4>1
      <4>3. e \in Event /\ file[n] \in Event /\ file[i] \in Event
        BY <1>0, <1>n, <3>2, <4>1, <4>2 DEF Lines
      <4>4. file[n].hash < e.hash
        BY <1>2, <4>2 DEF InOrder
      <4>5. file[i].hash <= file[n].hash
        BY <1>h, <3>4, <4>1, <4>3
      <4> QED BY <1>h, <2>1, <3>6, <4>1, <4>3, <4>4, <4>5
    <3> QED BY <3>5, <3>6
  <2> QED BY <2>1, <2>2, <2>3 DEF VerifiedIsOrdered
<1>3. CASE file # <<>> /\ file' = [file EXCEPT ![Len(file)] = Junk]
  <2>1. /\ DOMAIN file' = 1 .. n /\ n \in 1 .. n /\ file'[n] = Junk
        /\ \A i \in 1 .. n : i # n => file'[i] = file[i]
    BY <1>0, <1>n, <1>3
  <2> QED BY <1>n, <2>1 DEF OrderInv, InOrder, VerifiedIsOrdered, VerifyFileChain, Links
<1>4. \/ UNCHANGED file
      \/ \E e \in Lines : file' = Append(file, e) /\ (e # Junk => InOrder(e))
      \/ file # <<>> /\ file' = [file EXCEPT ![Len(file)] = Junk]
  BY DEF WriteLine, AfterWrite, Lines
<1> QED BY <1>1, <1>2, <1>3, <1>4

LEMMA OrderStep == TypeOK /\ OrderInv /\ [Next]_vars => OrderInv'
<1> SUFFICES ASSUME TypeOK, OrderInv, [Next]_vars PROVE OrderInv'
  OBVIOUS
<1>0. /\ Outcomes \subseteq WriteOutcomes /\ {"whole", "none"} \subseteq WriteOutcomes
      /\ MaxEvents \in Nat /\ made \in Nat
      /\ last \in [Logger -> Int] /\ pending \in [Logger -> Event \cup {Idle}]
  BY AuditAssumption DEF WriteOutcomes, TypeOK
<1>f. ASSUME UNCHANGED file, made' \in Nat, made <= made'
      PROVE  /\ \A i \in DOMAIN file' : file'[i] # Junk => InOrder(file[i])'
             /\ VerifiedIsOrdered'
  <2>1. VerifiedIsOrdered'
    BY <1>f DEF OrderInv, VerifiedIsOrdered, VerifyFileChain, Links, Expected
  <2>2. \A i \in DOMAIN file : file[i] # Junk => file[i] \in Event /\ file[i].hash \in Int
    BY AuditAssumption DEF TypeOK, Event
  <2> QED BY <1>0, <1>f, <2>1, <2>2 DEF OrderInv, InOrder
<1>1. ASSUME NEW l \in Logger, Open(l) PROVE OrderInv'
  <2>1. ReadLastHash <= made
    <3>1. CASE file = <<>> \/ file[Len(file)] = Junk
      BY <1>0, <3>1 DEF ReadLastHash, Genesis
    <3>2. CASE file # <<>> /\ file[Len(file)] # Junk
      <4>1. Len(file) \in DOMAIN file
        BY <3>2 DEF TypeOK
      <4> QED BY <3>2, <4>1 DEF ReadLastHash, OrderInv, InOrder
    <3> QED BY <3>1, <3>2
  <2>2. last' = [last EXCEPT ![l] = ReadLastHash] /\ UNCHANGED <<file, pending, made>>
    BY <1>1 DEF Open
  <2> QED BY <1>0, <1>f, <2>1, <2>2 DEF OrderInv, InOrder
<1>2. ASSUME NEW l \in Logger, Link(l) PROVE OrderInv'
  <2>1. /\ pending' = [pending EXCEPT ![l] = [hash |-> made + 1, prev |-> last[l]]]
        /\ last' = [last EXCEPT ![l] = made + 1]
        /\ made' = made + 1 /\ UNCHANGED file
    BY <1>2 DEF Link
  <2>2. last[l] <= made /\ last[l] \in Int
    BY <1>0 DEF OrderInv
  <2>3. InOrder(pending[l])' /\ last'[l] <= made'
    <3>1. pending'[l].prev = last[l] /\ pending'[l].hash = made + 1 /\ last'[l] = made + 1
      BY <1>0, <2>1
    <3> QED BY <1>0, <2>1, <2>2, <3>1 DEF InOrder
  <2>4. ASSUME NEW other \in Logger, other # l
        PROVE  last'[other] <= made' /\ (pending'[other] # Idle => InOrder(pending[other])')
    <3>1. last'[other] = last[other] /\ pending'[other] = pending[other]
      BY <1>0, <2>1, <2>4
    <3>2. pending[other] # Idle => pending[other].hash \in Int
      BY <1>0, AuditAssumption DEF Event
    <3> QED BY <1>0, <2>1, <3>1, <3>2 DEF OrderInv, InOrder
  <2> QED BY <1>0, <1>f, <2>1, <2>3, <2>4 DEF OrderInv
<1>3. ASSUME NEW l \in Logger, Write(l) \/ WriteRaises(l) \/ Stop(l) PROVE OrderInv'
  <2>1. /\ pending' = [pending EXCEPT ![l] = Idle] /\ UNCHANGED <<last, made>>
        /\ \/ UNCHANGED file
           \/ pending[l] # Idle /\ \E outcome \in WriteOutcomes : WriteLine(pending[l], outcome)
    BY <1>0, <1>3 DEF Write, WriteRaises, Stop
  <2>2. /\ \A i \in DOMAIN file' : file'[i] # Junk => InOrder(file[i])'
        /\ VerifiedIsOrdered'
    <3>1. CASE UNCHANGED file
      BY <1>0, <1>f, <2>1, <3>1
    <3>2. ASSUME pending[l] # Idle, NEW outcome \in WriteOutcomes, WriteLine(pending[l], outcome)
          PROVE  /\ \A i \in DOMAIN file' : file'[i] # Junk => InOrder(file[i])'
                 /\ VerifiedIsOrdered'
      <4>1. PICK line \in Event : line = pending[l]
        BY <1>0, <3>2
      <4>2. InOrder(line)
        BY <3>2, <4>1 DEF OrderInv
      <4> QED BY <2>1, <3>2, <4>1, <4>2, OrderWrite
    <3> QED BY <2>1, <3>1, <3>2
  <2> QED BY <1>0, <2>1, <2>2 DEF OrderInv, InOrder
<1>4. CASE UNCHANGED vars
  BY <1>0, <1>4, <1>f DEF vars, OrderInv, InOrder
<1> QED BY <1>1, <1>2, <1>3, <1>4 DEF Next

\* For any processes: a file that verifies lists the events in the order in
\* which they were made.
THEOREM VerifiedInOrder == Spec => []VerifiedIsOrdered
<1>1. Init => OrderInv
  BY DEF Init, OrderInv, VerifiedIsOrdered, Genesis
<1>2. OrderInv => VerifiedIsOrdered
  BY DEF OrderInv
<1> QED BY <1>1, <1>2, TypeInit, TypeStep, OrderStep, PTL DEF Spec

\* Types, for any processes and bounds.
THEOREM TypeCorrect == Spec => []TypeOK
BY TypeInit, TypeStep, PTL DEF Spec

\* No write, crash or restart touches a line that is complete: a chain once
\* verified can only grow or end in damage.
THEOREM LinesAreKept == Spec => LinesStay
<1>1. ASSUME TypeOK, [Next]_vars,
             NEW i \in DOMAIN file, i < Len(file) \/ terminated
      PROVE  i \in DOMAIN file' /\ file'[i] = file[i]
  <2>0. Outcomes \subseteq WriteOutcomes /\ {"whole", "none"} \subseteq WriteOutcomes
    BY AuditAssumption DEF WriteOutcomes
  <2>p. \A l \in Logger : pending[l] # Idle => pending[l] \in Event
    BY <1>1 DEF TypeOK
  <2>q. file \in Seq(Lines)
    BY <1>1 DEF TypeOK, Lines
  <2>1. CASE UNCHANGED file
    BY <2>1
  <2>2. ASSUME NEW line \in Event, NEW outcome \in WriteOutcomes, WriteLine(line, outcome)
        PROVE  i \in DOMAIN file' /\ file'[i] = file[i]
    <3>1. ASSUME NEW e \in Lines, file' = Append(file, e)
          PROVE  i \in DOMAIN file' /\ file'[i] = file[i]
      BY <1>1, <2>q, <3>1, AppendFacts
    <3>2. CASE file' = [file EXCEPT ![Len(file)] = Junk] /\ ~terminated
      <4>1. i # Len(file)
        BY <1>1, <2>q, <3>2
      <4> QED BY <1>1, <3>2, <4>1
    <3> QED BY <1>1, <2>1, <2>2, <3>1, <3>2, WriteCases
  <2>3. ASSUME NEW l \in Logger, Write(l) \/ WriteRaises(l) \/ Stop(l)
        PROVE  \/ UNCHANGED file
               \/ \E line \in Event, outcome \in WriteOutcomes : WriteLine(line, outcome)
    BY <2>0, <2>p, <2>3 DEF Write, WriteRaises, Stop
  <2>4. ASSUME NEW l \in Logger, Open(l) \/ Link(l) PROVE UNCHANGED file
    BY <2>4 DEF Open, Link
  <2> QED BY <1>1, <2>1, <2>2, <2>3, <2>4 DEF Next, vars
<1>2. TypeOK /\ [Next]_vars =>
        [\A i \in DOMAIN file : i < Len(file) \/ terminated =>
           i \in DOMAIN file' /\ file'[i] = file[i]]_vars
  BY <1>1
<1> QED BY <1>2, TypeInit, TypeStep, PTL DEF Spec, LinesStay
=============================================================================
