------------------------------ MODULE LRUCache ------------------------------
(***************************************************************************)
(* What AnalyzerCache promises a single caller: a bounded cache that serves*)
(* a key it found within its TTL, drops one it found expired, and evicts   *)
(* its least recently used key.  Keys are kept from the least to the most  *)
(* recently used one.                                                      *)
(***************************************************************************)
EXTENDS Integers, Sequences

CONSTANTS Key, MaxSize

VARIABLES
  entries,  \* the keys held
  stale,    \* those past their TTL
  found     \* the keys found within their TTL, still to be served

lruVars == <<entries, stale, found>>

Without(k) ==
  LET i == CHOOSE j \in DOMAIN entries : entries[j] = k
  IN  SubSeq(entries, 1, i - 1) \o SubSeq(entries, i + 1, Len(entries))

Holds(k) == \E i \in DOMAIN entries : entries[i] = k

LruInit == entries = <<>> /\ stale = {} /\ found = {}

Find(k) ==
  /\ Holds(k) /\ k \notin stale
  /\ found' = found \cup {k}
  /\ UNCHANGED <<entries, stale>>

Serve(k) ==
  /\ k \in found /\ Holds(k)
  /\ entries' = Append(Without(k), k)
  /\ found' = found \ {k}
  /\ UNCHANGED stale

Drop(k) ==
  /\ Holds(k) /\ k \in stale
  /\ entries' = Without(k)
  /\ stale' = stale \ {k}
  /\ UNCHANGED found

EvictOldest ==
  /\ Len(entries) >= MaxSize /\ entries # <<>>
  /\ entries' = Tail(entries)
  /\ stale' = stale \ {Head(entries)}
  /\ UNCHANGED found

Insert(k) ==
  /\ ~Holds(k) /\ Len(entries) < MaxSize
  /\ entries' = Append(entries, k)
  /\ UNCHANGED <<stale, found>>

Age(k) ==
  /\ Holds(k) /\ k \notin stale
  /\ stale' = stale \cup {k}
  /\ UNCHANGED <<entries, found>>

LruNext ==
  \/ EvictOldest
  \/ \E k \in Key : Find(k) \/ Serve(k) \/ Drop(k) \/ Insert(k) \/ Age(k)

LruSpec == LruInit /\ [][LruNext]_lruVars
=============================================================================
