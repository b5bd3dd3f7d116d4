---------------------------- MODULE AnalyzerCache ----------------------------
(***************************************************************************)
(* The result cache of an Analyzer (analyzer/fingerprint.py, AnalysisCache)*)
(* under threads that call Analyzer.analyze on one instance, as its        *)
(* docstring allows.                                                       *)
(*                                                                         *)
(* The cache takes no lock.  Each operation of the OrderedDict is atomic   *)
(* under the interpreter lock; between two of them another thread may run. *)
(* A lookup and the expiry test of the entry it found change nothing and   *)
(* are one step.  A key stands for reproducibility.cache_key; the cached   *)
(* result is a function of it.                                             *)
(***************************************************************************)
EXTENDS Integers, FiniteSets, Sequences

CONSTANTS
  Thread,   \* threads sharing the Analyzer
  Key,      \* cache keys
  MaxSize,  \* max_size of the cache
  MaxCalls, \* bound on the calls of analyze(), for model checking
  Nobody    \* no thread

ASSUME CacheAssumption ==
  /\ IsFiniteSet(Thread) /\ Thread # {} /\ Nobody \notin Thread
  /\ MaxSize \in Nat
  /\ MaxCalls \in Nat

VARIABLES
  cache,   \* keys of the OrderedDict, oldest position first
  stale,   \* keys whose entry is older than the TTL
  hits,    \* _hits
  misses,  \* _misses
  calls,   \* calls of analyze() so far
  pc,      \* thread -> its step in analyze()
  want,    \* thread -> the key of its call
  alone    \* history: the thread whose last call no other has overlapped

vars == <<cache, stale, hits, misses, calls, pc, want, alone>>

Steps == {"idle", "lookup", "drop", "touch", "rules", "room", "evict", "store", "KeyError"}

-----------------------------------------------------------------------------
Cached(k) == \E i \in DOMAIN cache : cache[i] = k

Without(k) ==
  LET i == CHOOSE j \in DOMAIN cache : cache[j] = k
  IN  [j \in 1 .. Len(cache) - 1 |-> IF j < i THEN cache[j] ELSE cache[j + 1]]

Goto(t, step) == pc' = [pc EXCEPT ![t] = step]

Init ==
  /\ cache = <<>>
  /\ stale = {}
  /\ hits = 0 /\ misses = 0 /\ calls = 0
  /\ pc = [t \in Thread |-> "idle"]
  /\ want \in [Thread -> Key]
  /\ alone = Nobody

Outside == {t \in Thread : pc[t] \in {"idle", "KeyError"}}

AloneAfter(t) == IF Thread \ {t} \subseteq Outside THEN t ELSE Nobody

\* Mistake: the key taken from the analysis id, which is new in each call.
CallById(t) ==
  /\ pc[t] \in {"idle", "KeyError"}
  /\ calls < MaxCalls
  /\ want' = [want EXCEPT ![t] = calls]
  /\ calls' = calls + 1
  /\ alone' = AloneAfter(t)
  /\ Goto(t, "lookup")
  /\ UNCHANGED <<cache, stale, hits, misses>>

\* A caller; also the next one after a call that ended in an exception.
Call(t) ==
  /\ pc[t] \in {"idle", "KeyError"}
  /\ calls < MaxCalls
  /\ \E k \in Key : want' = [want EXCEPT ![t] = k]
  /\ calls' = calls + 1
  /\ alone' = AloneAfter(t)
  /\ Goto(t, "lookup")
  /\ UNCHANGED <<cache, stale, hits, misses>>

\* get_extended: the membership test, the read and is_expired, and the number
\* of misses counted.
LookupWith(t, counted) ==
  /\ pc[t] = "lookup"
  /\ Goto(t, IF ~Cached(want[t]) THEN "rules"
             ELSE IF want[t] \in stale THEN "drop" ELSE "touch")
  /\ misses' = misses + counted
  /\ UNCHANGED <<cache, stale, hits, calls, want, alone>>

\* Mistakes: the miss counted before the expiry is known; no membership test.
LookupCounting(t) ==
  LookupWith(t, IF Cached(want[t]) /\ want[t] \notin stale THEN 0 ELSE 1)
LookupUnchecked(t) ==
  /\ pc[t] = "lookup"
  /\ Goto(t, IF want[t] \in stale THEN "drop" ELSE "touch")
  /\ UNCHANGED <<cache, stale, hits, misses, calls, want, alone>>

Lookup(t) == LookupWith(t, IF Cached(want[t]) THEN 0 ELSE 1)

\* del self._cache[key] of the entry found expired: it raises when another
\* thread has removed the key since, and removes an entry stored since.
DropExpired(t) ==
  /\ pc[t] = "drop"
  /\ IF Cached(want[t])
       THEN /\ cache' = Without(want[t])
            /\ stale' = stale \ {want[t]}
            /\ misses' = misses + 1
            /\ Goto(t, "rules")
       ELSE /\ Goto(t, "KeyError")
            /\ UNCHANGED <<cache, stale, misses>>
  /\ UNCHANGED <<hits, calls, want, alone>>

\* move_to_end: the hit ends the call with the cached result.
Touch(t) ==
  /\ pc[t] = "touch"
  /\ IF Cached(want[t])
       THEN /\ cache' = Append(Without(want[t]), want[t])
            /\ hits' = hits + 1
            /\ Goto(t, "idle")
       ELSE Goto(t, "KeyError") /\ UNCHANGED <<cache, hits>>
  /\ UNCHANGED <<stale, misses, calls, want, alone>>

\* The rules run; a fail_fast error ends the call without a result to store.
RunRules(t) ==
  /\ pc[t] = "rules"
  /\ \/ Goto(t, "room")
     \/ Goto(t, "idle")
  /\ UNCHANGED <<cache, stale, hits, misses, calls, want, alone>>

\* The condition of the eviction loop.
RoomIf(t, full) ==
  /\ pc[t] = "room"
  /\ Goto(t, IF full THEN "evict" ELSE "store")
  /\ UNCHANGED <<cache, stale, hits, misses, calls, want, alone>>

\* Mistake: evicting only above the limit.
RoomOffByOne(t) == RoomIf(t, Len(cache) > MaxSize)

CheckRoom(t) == RoomIf(t, Len(cache) >= MaxSize)

\* Mistakes: the newest entry evicted; the oldest moved to the end, not removed.
EvictNewest(t) ==
  /\ pc[t] = "evict" /\ cache # <<>>
  /\ cache' = SubSeq(cache, 1, Len(cache) - 1)
  /\ stale' = stale \ {cache[Len(cache)]}
  /\ Goto(t, "room")
  /\ UNCHANGED <<hits, misses, calls, want, alone>>
EvictNone(t) ==
  /\ pc[t] = "evict" /\ cache # <<>>
  /\ cache' = Append(Tail(cache), Head(cache))
  /\ Goto(t, "room")
  /\ UNCHANGED <<stale, hits, misses, calls, want, alone>>

\* popitem(last=False); it raises on an empty dictionary.
Evict(t) ==
  /\ pc[t] = "evict"
  /\ IF cache # <<>>
       THEN /\ cache' = Tail(cache)
            /\ stale' = stale \ {Head(cache)}
            /\ Goto(t, "room")
       ELSE Goto(t, "KeyError") /\ UNCHANGED <<cache, stale>>
  /\ UNCHANGED <<hits, misses, calls, want, alone>>

\* Assignment to a key that is present keeps its position.
Store(t) ==
  /\ pc[t] = "store"
  /\ cache' = IF Cached(want[t]) THEN cache ELSE Append(cache, want[t])
  /\ stale' = stale \ {want[t]}
  /\ Goto(t, "idle")
  /\ UNCHANGED <<hits, misses, calls, want, alone>>

\* Time: an entry passes the TTL.
Expire(k) ==
  /\ Cached(k) /\ k \notin stale
  /\ stale' = stale \cup {k}
  /\ UNCHANGED <<cache, hits, misses, calls, pc, want, alone>>

InCall(t) ==
  \/ Lookup(t) \/ DropExpired(t) \/ Touch(t) \/ RunRules(t)
  \/ CheckRoom(t) \/ Evict(t) \/ Store(t)

Next ==
  \/ \E t \in Thread : Call(t) \/ InCall(t)
  \/ \E k \in Key : Expire(k)

Spec == Init /\ [][Next]_vars

\* The scheduler lets every thread that is inside analyze() go on.
FairSpec == Spec /\ \A t \in Thread : WF_vars(InCall(t))

-----------------------------------------------------------------------------
\* Types of the cache's variables.
TypeOK ==
  /\ cache \in Seq(Key)
  /\ stale \subseteq Key
  /\ hits \in Nat /\ misses \in Nat /\ calls \in Nat
  /\ pc \in [Thread -> Steps]
  /\ want \in [Thread -> Key]
  /\ alone \in Thread \cup {Nobody}

\* Threads that passed the size test together may overshoot max_size, but by
\* no more than one entry for each thread besides the first.
SizeBounded == Len(cache) + 1 <= MaxSize + Cardinality(Thread)

\* No call is counted twice in the hit rate: hits and misses never exceed the
\* calls that are past their lookup.
NoCallCountedTwice ==
  hits + misses + Cardinality({t \in Thread : pc[t] \in {"lookup", "drop", "touch"}}) <= calls

\* A call that no other overlaps never raises, whatever state earlier calls have
\* left the cache in (above its size, with expired entries, after a KeyError).
SerialCallNeverRaises == MaxSize > 0 => \A t \in Thread : alone = t => pc[t] # "KeyError"

LRU == INSTANCE LRUCache WITH
         entries <- cache,
         found <- {want[t] : t \in {u \in Thread : pc[u] = "touch"}}

\* As long as no two calls overlap, each of their steps is one of a bounded LRU
\* cache: what is served is within its TTL, and what is evicted is the least
\* recently used entry.
SerialCallsAreLRU == [][alone' # Nobody => [LRU!LruNext]_(LRU!lruVars)]_vars

\* The threads whose call may still store an entry, and the entries that are,
\* or may come to be, in the cache.
MayStore == {t \in Thread : pc[t] \in {"lookup", "drop", "rules", "room", "evict", "store"}}
Entries == Len(cache) + Cardinality(MayStore)

\* A thread's turn of the eviction loop takes one entry away for good; only a
\* new call brings one more.  So the loops of all threads together turn at most
\* once for each call, and one goes on for ever only while calls keep coming.
TurnIsPaid ==
  /\ Entries' - Entries <= calls' - calls
  /\ \A t \in Thread : pc[t] = "evict" /\ pc'[t] # "evict" => Entries' < Entries

EvictionsArePaid == [][TurnIsPaid]_vars

\* Once no thread begins another call, those that are inside return or raise.
\* (While calls keep coming, the other threads may refill the cache each time
\* this one has made room: nothing bounds a single call then.)
CallsEndOnceNoneBegin ==
  <>[][calls' = calls]_vars =>
    \A t \in Thread : pc[t] \notin {"idle", "KeyError"} ~> pc[t] \in {"idle", "KeyError"}

\* "This method is thread-safe - multiple threads can call analyze() on the
\* same Analyzer instance concurrently": no call ends in a KeyError.
NoKeyError == \A t \in Thread : pc[t] # "KeyError"

=============================================================================
