------------------------ MODULE AnalyzerCacheProofs ------------------------
(***************************************************************************)
(* For any number of threads, keys and calls and any size: how far the     *)
(* cache may exceed its size, what a call that no other overlaps does, how *)
(* often the eviction loops turn, and what the hit rate counts.            *)
(***************************************************************************)
EXTENDS AnalyzerCache, FiniteSetTheorems, SequenceTheorems, TLAPS

Storing == {t \in Thread : pc[t] = "store"}

\* The sequence and the set stand for an OrderedDict and the ages of its
\* entries: a key once, and no age without its entry.
KeysOnce ==
  /\ \A i, j \in DOMAIN cache : cache[i] = cache[j] => i = j
  /\ \A k \in stale : Cached(k)

\* A thread about to store has a place that the size test saw free, or shares
\* it with one of the other threads.
Reserved == Len(cache) + Cardinality(Storing) + 1 <= MaxSize + Cardinality(Thread)

-----------------------------------------------------------------------------
LEMMA WithoutIsSeq ==
  ASSUME TypeOK, NEW k, Cached(k)
  PROVE  /\ Without(k) \in Seq(Key)
         /\ Len(Without(k)) = Len(cache) - 1
<1> DEFINE i == CHOOSE j \in DOMAIN cache : cache[j] = k
           f == [j \in 1 .. Len(cache) - 1 |-> IF j < i THEN cache[j] ELSE cache[j + 1]]
<1>1. i \in DOMAIN cache
  BY DEF Cached
<1>2. /\ cache \in Seq(Key) /\ Len(cache) \in Nat
      /\ DOMAIN cache = 1 .. Len(cache)
  BY DEF TypeOK
<1>3. \A j \in 1 .. Len(cache) - 1 : f[j] \in Key
  BY <1>1, <1>2
<1>4. Len(cache) - 1 \in Nat
  BY <1>1, <1>2
<1>5. f \in Seq(Key) /\ Len(f) = Len(cache) - 1
  BY <1>3, <1>4
<1> QED BY <1>5 DEF Without

LEMMA WithoutKeys ==
  ASSUME TypeOK, KeysOnce, NEW k, Cached(k)
  PROVE  /\ \A j \in DOMAIN Without(k) : Without(k)[j] # k
         /\ \A j, l \in DOMAIN Without(k) : Without(k)[j] = Without(k)[l] => j = l
         /\ \A x : Cached(x) /\ x # k => \E j \in DOMAIN Without(k) : Without(k)[j] = x
<1> DEFINE n == Len(cache)
           i == CHOOSE j \in DOMAIN cache : cache[j] = k
           f == [j \in 1 .. n - 1 |-> IF j < i THEN cache[j] ELSE cache[j + 1]]
<1>1. i \in DOMAIN cache /\ cache[i] = k
  BY DEF Cached
<1>2. n \in Nat /\ DOMAIN cache = 1 .. n
  BY DEF TypeOK
<1>3. \A j, l \in 1 .. n : cache[j] = cache[l] => j = l
  BY <1>2 DEF KeysOnce
<1> HIDE DEF i, n
<1>4. /\ i \in 1 .. n
      /\ DOMAIN f = 1 .. n - 1
      /\ \A j \in 1 .. n - 1 : f[j] = IF j < i THEN cache[j] ELSE cache[j + 1]
  BY <1>1, <1>2
<1> HIDE DEF f
<1>5. \A j \in DOMAIN f : f[j] # k
  BY <1>1, <1>2, <1>3, <1>4
<1>6. \A j, l \in DOMAIN f : f[j] = f[l] => j = l
  BY <1>2, <1>3, <1>4
<1>7. ASSUME NEW x, Cached(x), x # k
      PROVE  \E j \in DOMAIN f : f[j] = x
  <2>1. PICK m \in 1 .. n : cache[m] = x
    BY <1>2, <1>7 DEF Cached
  <2>2. CASE m < i
    <3>1. m \in DOMAIN f /\ f[m] = x
      BY <2>1, <2>2, <1>2, <1>4
    <3> QED BY <3>1
  <2>3. CASE m > i
    <3>1. m - 1 \in DOMAIN f /\ f[m - 1] = x
      BY <2>1, <2>3, <1>2, <1>4
    <3> QED BY <3>1
  <2>4. m # i
    BY <2>1, <1>1, <1>7
  <2> QED BY <2>1, <2>2, <2>3, <2>4, <1>2, <1>4
<1>8. f = Without(k)
  BY DEF f, i, n, Without
<1> QED BY <1>5, <1>6, <1>7, <1>8

-----------------------------------------------------------------------------
\* Typing: every step keeps the dictionary a sequence of keys.
LEMMA TypeStep == CacheAssumption /\ TypeOK /\ [Next]_vars => TypeOK'
<1> SUFFICES ASSUME CacheAssumption, TypeOK, [Next]_vars PROVE TypeOK'
  OBVIOUS
<1> USE DEF TypeOK, Steps, Goto
<1>1. ASSUME NEW t \in Thread, Call(t) PROVE TypeOK'
  BY <1>1 DEF Call, AloneAfter
<1>2. ASSUME NEW t \in Thread, Lookup(t) PROVE TypeOK'
  BY <1>2 DEF Lookup, LookupWith
<1>3. ASSUME NEW t \in Thread, DropExpired(t) PROVE TypeOK'
  BY <1>3, WithoutIsSeq DEF DropExpired
<1>4. ASSUME NEW t \in Thread, Touch(t) PROVE TypeOK'
  <2>1. CASE Cached(want[t])
    <3>1. Without(want[t]) \in Seq(Key) /\ want[t] \in Key
      BY <2>1, WithoutIsSeq
    <3>2. cache' \in Seq(Key)
      BY <1>4, <2>1, <3>1 DEF Touch
    <3> QED BY <1>4, <2>1, <3>2 DEF Touch
  <2>2. CASE ~Cached(want[t])
    BY <1>4, <2>2 DEF Touch
  <2> QED BY <2>1, <2>2
<1>5. ASSUME NEW t \in Thread, RunRules(t) PROVE TypeOK'
  BY <1>5 DEF RunRules
<1>6. ASSUME NEW t \in Thread, CheckRoom(t) PROVE TypeOK'
  BY <1>6 DEF CheckRoom, RoomIf
<1>7. ASSUME NEW t \in Thread, Evict(t) PROVE TypeOK'
  BY <1>7 DEF Evict
<1>8. ASSUME NEW t \in Thread, Store(t) PROVE TypeOK'
  BY <1>8 DEF Store
<1>9. ASSUME NEW k \in Key, Expire(k) PROVE TypeOK'
  BY <1>9 DEF Expire
<1>10. CASE UNCHANGED vars
  BY <1>10 DEF vars
<1> QED
  BY <1>1, <1>2, <1>3, <1>4, <1>5, <1>6, <1>7, <1>8, <1>9, <1>10 DEF Next, InCall

\* A present key never appears twice: what each step does to the positions.
LEMMA KeysStep == CacheAssumption /\ TypeOK /\ KeysOnce /\ [Next]_vars => KeysOnce'
<1> SUFFICES ASSUME CacheAssumption, TypeOK, KeysOnce, [Next]_vars PROVE KeysOnce'
  OBVIOUS
<1>0. \A t \in Thread : want[t] \in Key
  BY DEF TypeOK
<1> DEFINE Once(s) == \A i, j \in DOMAIN s : s[i] = s[j] => i = j
           In(s, x) == \E i \in DOMAIN s : s[i] = x
<1>a. ASSUME NEW s \in Seq(Key), NEW x \in Key, Once(s), ~In(s, x)
      PROVE  /\ Once(Append(s, x)) /\ In(Append(s, x), x)
             /\ \A y : In(s, y) => In(Append(s, x), y)
  <2>1. /\ Len(s) \in Nat /\ DOMAIN s = 1 .. Len(s)
        /\ DOMAIN Append(s, x) = 1 .. Len(s) + 1
        /\ Append(s, x)[Len(s) + 1] = x
        /\ \A i \in 1 .. Len(s) : Append(s, x)[i] = s[i]
    BY <1>a
  <2> HIDE DEF In, Once
  <2>2. Once(Append(s, x))
    BY <2>1, <1>a DEF Once, In
  <2>3. In(Append(s, x), x)
    BY <2>1 DEF In
  <2>4. ASSUME NEW y, In(s, y) PROVE In(Append(s, x), y)
    BY <2>1, <2>4 DEF In
  <2> QED BY <2>2, <2>3, <2>4
<1>b. ASSUME cache # <<>>
      PROVE  /\ Once(Tail(cache))
             /\ \A y : In(cache, y) /\ y # Head(cache) => In(Tail(cache), y)
  <2>1. /\ Len(cache) \in Nat \ {0} /\ DOMAIN cache = 1 .. Len(cache)
        /\ DOMAIN Tail(cache) = 1 .. Len(cache) - 1
        /\ \A i \in 1 .. Len(cache) - 1 : Tail(cache)[i] = cache[i + 1]
        /\ Head(cache) = cache[1]
    BY <1>b DEF TypeOK
  <2>2. Once(Tail(cache))
    BY <2>1 DEF KeysOnce
  <2>3. ASSUME NEW y, In(cache, y), y # Head(cache) PROVE In(Tail(cache), y)
    <3>1. PICK i \in 1 .. Len(cache) : cache[i] = y
      BY <2>1, <2>3
    <3>2. i - 1 \in 1 .. Len(cache) - 1 /\ Tail(cache)[i - 1] = y
      BY <2>1, <2>3, <3>1
    <3> QED BY <2>1, <3>2
  <2> QED BY <2>2, <2>3
<1>c. /\ \A s : (cache' = s /\ Once(s) /\ (\A k \in stale' : In(s, k))) => KeysOnce'
      /\ \A x : Cached(x) <=> In(cache, x)
      /\ Once(cache) /\ \A k \in stale : In(cache, k)
  BY DEF KeysOnce, Cached
<1> HIDE DEF Once, In
<1>1. ASSUME NEW t \in Thread, DropExpired(t) PROVE KeysOnce'
  <2>1. CASE Cached(want[t])
    <3>1. Once(Without(want[t])) /\ \A x : Cached(x) /\ x # want[t] => In(Without(want[t]), x)
      BY <2>1, WithoutKeys DEF Once, In
    <3> QED BY <1>1, <2>1, <3>1, <1>c DEF DropExpired
  <2> QED BY <1>1, <2>1, <1>c DEF DropExpired
<1>2. ASSUME NEW t \in Thread, Touch(t) PROVE KeysOnce'
  <2>1. CASE Cached(want[t])
    <3> DEFINE s == Without(want[t])
    <3>1. /\ Once(s) /\ ~In(s, want[t])
          /\ \A x : Cached(x) /\ x # want[t] => In(s, x)
      BY <2>1, WithoutKeys DEF Once, In
    <3>2. s \in Seq(Key)
      BY <2>1, WithoutIsSeq
    <3> HIDE DEF s
    <3>3. /\ Once(Append(s, want[t])) /\ In(Append(s, want[t]), want[t])
          /\ \A y : In(s, y) => In(Append(s, want[t]), y)
      BY <3>1, <3>2, <1>a, <1>0
    <3>4. \A y : Cached(y) => In(Append(s, want[t]), y)
      BY <3>1, <3>3
    <3>5. cache' = Append(s, want[t]) /\ stale' = stale
      BY <1>2, <2>1 DEF Touch, s
    <3> QED BY <3>3, <3>4, <3>5, <1>c
  <2> QED BY <1>2, <2>1, <1>c DEF Touch
<1>3. ASSUME NEW t \in Thread, Evict(t) PROVE KeysOnce'
  <2>1. CASE cache # <<>>
    BY <1>3, <2>1, <1>b, <1>c DEF Evict
  <2> QED BY <1>3, <2>1, <1>c DEF Evict
<1>4. ASSUME NEW t \in Thread, Store(t) PROVE KeysOnce'
  <2>1. CASE Cached(want[t])
    BY <1>4, <2>1, <1>c DEF Store
  <2>2. CASE ~Cached(want[t])
    <3>1. /\ Once(Append(cache, want[t]))
          /\ \A y : In(cache, y) => In(Append(cache, want[t]), y)
      BY <2>2, <1>a, <1>0, <1>c DEF TypeOK
    <3> QED BY <1>4, <2>2, <3>1, <1>c DEF Store
  <2> QED BY <2>1, <2>2
<1>5. ASSUME NEW k \in Key, Expire(k) PROVE KeysOnce'
  BY <1>5, <1>c DEF Expire
<1>6. CASE UNCHANGED <<cache, stale>>
  BY <1>6, <1>c
<1> QED
  BY <1>1, <1>2, <1>3, <1>4, <1>5, <1>6
  DEF Next, InCall, Call, Lookup, LookupWith, RunRules, CheckRoom, RoomIf, vars

-----------------------------------------------------------------------------
\* Moving one thread changes the number of storing threads by that thread.
LEMMA StoringCount ==
  ASSUME CacheAssumption, TypeOK, NEW t \in Thread, NEW step, Goto(t, step)
  PROVE  /\ Cardinality(Storing) \in Nat /\ Cardinality(Storing') \in Nat
         /\ Cardinality(Storing) <= Cardinality(Thread) /\ Cardinality(Thread) \in Nat
         /\ Cardinality(Storing') <= Cardinality(Thread)
         /\ step # "store" => Cardinality(Storing') <= Cardinality(Storing)
         /\ step # "store" /\ pc[t] = "store" => Cardinality(Storing') = Cardinality(Storing) - 1
<1>1. Storing \subseteq Thread /\ Storing' \subseteq Thread /\ IsFiniteSet(Thread)
  BY DEF Storing, CacheAssumption
<1>2. /\ IsFiniteSet(Storing) /\ IsFiniteSet(Storing')
      /\ Cardinality(Storing) <= Cardinality(Thread)
      /\ Cardinality(Storing') <= Cardinality(Thread)
  BY <1>1, FS_Subset
<1>3. /\ Cardinality(Storing) \in Nat /\ Cardinality(Storing') \in Nat
      /\ Cardinality(Thread) \in Nat
  BY <1>1, <1>2, FS_CardinalityType
<1>4. ASSUME step # "store" PROVE Storing' = Storing \ {t}
  BY <1>4 DEF Storing, Goto, TypeOK
<1>5. ASSUME step # "store", pc[t] = "store"
      PROVE  Cardinality(Storing') = Cardinality(Storing) - 1
  <2>1. t \in Storing
    BY <1>5 DEF Storing
  <2> QED BY <1>2, <1>4, <1>5, <2>1, FS_RemoveElement
<1>6. ASSUME step # "store" PROVE Cardinality(Storing') <= Cardinality(Storing)
  BY <1>2, <1>4, <1>6, FS_Subset
<1> QED BY <1>2, <1>3, <1>5, <1>6

LEMMA ReservedStep == CacheAssumption /\ TypeOK /\ Reserved /\ [Next]_vars => Reserved'
<1> SUFFICES ASSUME CacheAssumption, TypeOK, Reserved, [Next]_vars PROVE Reserved'
  OBVIOUS
<1> DEFINE n == Cardinality(Storing)
           T == Cardinality(Thread)
<1>0. /\ Len(cache) \in Nat /\ MaxSize \in Nat
      /\ \A t \in Thread : want[t] \in Key
  BY DEF TypeOK, CacheAssumption
<1>1. ASSUME NEW t \in Thread, NEW step, Goto(t, step), step # "store", Len(cache') \in Nat,
             Len(cache') <= Len(cache) \/ (pc[t] = "store" /\ Len(cache') <= Len(cache) + 1)
      PROVE  Reserved'
  <2>1. n \in Nat /\ n' \in Nat /\ T \in Nat /\ n' <= n /\ (pc[t] = "store" => n' = n - 1)
    BY <1>1, StoringCount
  <2>2. Len(cache) + n + 1 <= MaxSize + T
    BY DEF Reserved
  <2> QED BY <2>1, <2>2, <1>0, <1>1 DEF Reserved
<1>2. ASSUME NEW t \in Thread, CheckRoom(t) PROVE Reserved'
  <2>1. CASE Len(cache) >= MaxSize
    <3>1. Goto(t, "evict") /\ cache' = cache
      BY <1>2, <2>1 DEF CheckRoom, RoomIf
    <3> QED BY <3>1, <1>1, <1>0
  <2>2. CASE Len(cache) < MaxSize
    <3>1. Goto(t, "store") /\ cache' = cache
      BY <1>2, <2>2, <1>0 DEF CheckRoom, RoomIf
    <3>2. n' \in Nat /\ T \in Nat /\ n' <= T
      BY <3>1, StoringCount
    <3> QED BY <2>2, <3>1, <3>2, <1>0 DEF Reserved
  <2> QED BY <2>1, <2>2, <1>0
<1>3. ASSUME NEW t \in Thread, DropExpired(t) \/ Touch(t) PROVE Reserved'
  <2>1. CASE Cached(want[t])
    <3>1. Without(want[t]) \in Seq(Key) /\ Len(Without(want[t])) = Len(cache) - 1
      BY <2>1, WithoutIsSeq
    <3>2. Len(cache') \in Nat /\ Len(cache') <= Len(cache)
      BY <1>0, <1>3, <2>1, <3>1 DEF DropExpired, Touch
    <3>3. Goto(t, "rules") \/ Goto(t, "idle")
      BY <1>3, <2>1 DEF DropExpired, Touch
    <3> QED BY <3>2, <3>3, <1>1
  <2>2. CASE ~Cached(want[t])
    <3>1. Goto(t, "KeyError") /\ cache' = cache
      BY <1>3, <2>2 DEF DropExpired, Touch
    <3> QED BY <3>1, <1>0, <1>1
  <2> QED BY <2>1, <2>2
<1>4. ASSUME NEW t \in Thread, Evict(t) PROVE Reserved'
  <2>1. Len(cache') \in Nat /\ Len(cache') <= Len(cache)
    BY <1>4 DEF Evict, TypeOK
  <2>2. Goto(t, "room") \/ Goto(t, "KeyError")
    BY <1>4 DEF Evict
  <2> QED BY <2>1, <2>2, <1>1
<1>5. ASSUME NEW t \in Thread, Store(t) PROVE Reserved'
  <2>1. Len(cache') \in Nat /\ Len(cache') <= Len(cache) + 1
    BY <1>5, <1>0 DEF Store, TypeOK
  <2> QED BY <2>1, <1>5, <1>1 DEF Store
<1>6. ASSUME NEW t \in Thread, Call(t) \/ Lookup(t) \/ RunRules(t) PROVE Reserved'
  <2>1. cache' = cache /\ \E step : step # "store" /\ Goto(t, step)
    <3>1. CASE Call(t)
      BY <3>1 DEF Call
    <3>2. CASE RunRules(t)
      BY <3>2 DEF RunRules
    <3>3. CASE Lookup(t)
      BY <3>3 DEF Lookup, LookupWith
    <3> QED BY <1>6, <3>1, <3>2, <3>3
  <2> QED BY <2>1, <1>0, <1>1
<1>7. ASSUME UNCHANGED <<cache, pc>> PROVE Reserved'
  BY <1>7 DEF Reserved, Storing
<1>8. (\E k \in Key : Expire(k)) \/ UNCHANGED vars => UNCHANGED <<cache, pc>>
  BY DEF Expire, vars
<1> QED BY <1>2, <1>3, <1>4, <1>5, <1>6, <1>7, <1>8 DEF Next, InCall

-----------------------------------------------------------------------------
\* Initially nothing is cached and nobody is storing.
LEMMA CacheInit == CacheAssumption /\ Init => TypeOK /\ KeysOnce /\ Reserved
<1> SUFFICES ASSUME CacheAssumption, Init PROVE TypeOK /\ KeysOnce /\ Reserved
  OBVIOUS
<1>1. TypeOK /\ KeysOnce
  BY DEF Init, TypeOK, KeysOnce, Steps
<1>2. Storing = {} /\ Len(cache) = 0
  BY DEF Init, Storing
<1>3. Cardinality(Storing) = 0 /\ Cardinality(Thread) \in Nat \ {0} /\ MaxSize \in Nat
  BY <1>2, FS_EmptySet, FS_CardinalityType DEF CacheAssumption
<1> QED BY <1>1, <1>2, <1>3 DEF Reserved

-----------------------------------------------------------------------------
\* While no call overlaps, the cache is as the call last saw it: an entry that
\* was found is still there, one that was missing still is, and the size test
\* that was passed still holds.
SerialInv ==
  \A t \in Thread : alone = t =>
    /\ \A other \in Thread \ {t} : other \in Outside
    /\ pc[t] \in {"drop", "touch"} => Cached(want[t])
    /\ pc[t] = "drop" => want[t] \in stale
    /\ pc[t] \in {"rules", "room", "evict", "store"} => ~Cached(want[t])
    /\ pc[t] = "evict" => Len(cache) >= MaxSize
    /\ pc[t] = "store" => Len(cache) < MaxSize
    /\ MaxSize > 0 => pc[t] # "KeyError"

\* What an operation of a call without overlap leaves of its own key.
LEMMA OwnKey ==
  ASSUME TypeOK, KeysOnce, NEW k, NEW s
  PROVE  /\ Cached(k) /\ s = Without(k) => \A i \in DOMAIN s : s[i] # k
         /\ cache # <<>> /\ s = Tail(cache) /\ ~Cached(k) => \A i \in DOMAIN s : s[i] # k
<1>1. ASSUME Cached(k), s = Without(k) PROVE \A i \in DOMAIN s : s[i] # k
  BY <1>1, WithoutKeys
<1>2. ASSUME cache # <<>>, s = Tail(cache), ~Cached(k) PROVE \A i \in DOMAIN s : s[i] # k
  <2>1. /\ DOMAIN cache = 1 .. Len(cache) /\ Len(cache) \in Nat \ {0}
        /\ DOMAIN s = 1 .. Len(cache) - 1
        /\ \A i \in 1 .. Len(cache) - 1 : s[i] = cache[i + 1]
    BY <1>2 DEF TypeOK
  <2>2. \A i \in DOMAIN s : i + 1 \in DOMAIN cache  BY <2>1
  <2> QED BY <1>2, <2>1, <2>2 DEF Cached
<1> QED BY <1>1, <1>2

LEMMA SerialStep ==
  CacheAssumption /\ TypeOK /\ KeysOnce /\ SerialInv /\ [Next]_vars => SerialInv'
<1> SUFFICES ASSUME CacheAssumption, TypeOK, KeysOnce, SerialInv, [Next]_vars,
                    NEW t \in Thread, alone' = t
             PROVE  /\ \A other \in Thread \ {t} : other \in Outside'
                    /\ pc'[t] \in {"drop", "touch"} => Cached(want[t])'
                    /\ pc'[t] = "drop" => want'[t] \in stale'
                    /\ pc'[t] \in {"rules", "room", "evict", "store"} => ~Cached(want[t])'
                    /\ pc'[t] = "evict" => Len(cache') >= MaxSize
                    /\ pc'[t] = "store" => Len(cache') < MaxSize
                    /\ MaxSize > 0 => pc'[t] # "KeyError"
  BY DEF SerialInv
<1>0. /\ pc \in [Thread -> Steps] /\ MaxSize \in Nat /\ Nobody \notin Thread
      /\ want \in [Thread -> Key] /\ cache \in Seq(Key) /\ Len(cache) \in Nat
  BY DEF TypeOK, CacheAssumption
<1>1. CASE Call(t)
  <2>1. Thread \ {t} \subseteq Outside
    BY <1>0, <1>1 DEF Call, AloneAfter
  <2>2. pc' = [pc EXCEPT ![t] = "lookup"]
    BY <1>1 DEF Call, Goto
  <2> QED BY <1>0, <2>1, <2>2 DEF Outside
<1>2. ASSUME NEW u \in Thread, u # t, Call(u) PROVE FALSE
  BY <1>0, <1>2 DEF Call, AloneAfter
<1>3. ASSUME NEW u \in Thread, u # t, InCall(u) PROVE FALSE
  <2>1. alone = t /\ pc[u] \notin {"idle", "KeyError"}
    BY <1>3 DEF InCall, Lookup, LookupWith, DropExpired, Touch, RunRules, CheckRoom, RoomIf, Evict, Store
  <2> QED BY <1>3, <2>1 DEF SerialInv, Outside
<1>4. CASE InCall(t)
  <2>1. alone = t /\ want' = want
    BY <1>4 DEF InCall, Lookup, LookupWith, DropExpired, Touch, RunRules, CheckRoom, RoomIf, Evict, Store
  <2>2. PICK step : Goto(t, step)
    BY <1>4 DEF InCall, Lookup, LookupWith, DropExpired, Touch, RunRules, CheckRoom, RoomIf, Evict, Store
  <2>3. pc'[t] = step /\ \A other \in Thread \ {t} : pc'[other] = pc[other]
    BY <1>0, <2>2 DEF Goto
  <2>4. \A other \in Thread \ {t} : other \in Outside'
    BY <2>1, <2>3 DEF SerialInv, Outside
  <2>0. /\ pc[t] \in {"drop", "touch"} => Cached(want[t])
        /\ pc[t] = "drop" => want[t] \in stale
        /\ pc[t] \in {"rules", "room", "evict", "store"} => ~Cached(want[t])
        /\ pc[t] = "evict" => Len(cache) >= MaxSize
        /\ pc[t] = "store" => Len(cache) < MaxSize
    BY <2>1 DEF SerialInv
  <2>5. CASE Lookup(t)
    BY <1>0, <2>1, <2>4, <2>5 DEF Lookup, LookupWith, Goto, Cached
  <2>6. CASE DropExpired(t)
    <3>1. Cached(want[t]) /\ cache' = Without(want[t]) /\ pc'[t] = "rules"
      BY <1>0, <2>0, <2>6 DEF DropExpired, Goto
    <3>2. ~Cached(want[t])'
      BY <2>1, <3>1, OwnKey DEF Cached
    <3> QED BY <2>4, <3>1, <3>2
  <2>7. CASE Touch(t)
    <3>1. pc'[t] = "idle"
      BY <1>0, <2>0, <2>7 DEF Touch, Goto
    <3> QED BY <2>4, <3>1
  <2>8. CASE RunRules(t)
    BY <1>0, <2>0, <2>1, <2>4, <2>8 DEF RunRules, Goto, Cached
  <2>9. CASE CheckRoom(t)
    <3>1. /\ pc'[t] = IF Len(cache) >= MaxSize THEN "evict" ELSE "store"
          /\ cache' = cache /\ ~Cached(want[t])
      BY <1>0, <2>0, <2>9 DEF CheckRoom, RoomIf, Goto
    <3>2. ~Cached(want[t])'
      BY <2>1, <3>1 DEF Cached
    <3> QED BY <1>0, <2>4, <3>1, <3>2
  <2>10. CASE Evict(t)
    <3>1. CASE cache # <<>>
      <4>1. cache' = Tail(cache) /\ pc'[t] = "room" /\ ~Cached(want[t])
        BY <1>0, <2>0, <2>10, <3>1 DEF Evict, Goto
      <4>2. ~Cached(want[t])'
        BY <2>1, <3>1, <4>1, OwnKey DEF Cached
      <4> QED BY <2>4, <4>1, <4>2
    <3>2. CASE cache = <<>>
      <4>1. pc'[t] = "KeyError" /\ Len(cache) = 0 /\ Len(cache) >= MaxSize
        BY <1>0, <2>0, <2>10, <3>2 DEF Evict, Goto
      <4> QED BY <1>0, <2>4, <4>1
    <3> QED BY <3>1, <3>2
  <2>11. CASE Store(t)
    BY <1>0, <2>4, <2>11 DEF Store, Goto
  <2> QED BY <1>4, <2>5, <2>6, <2>7, <2>8, <2>9, <2>10, <2>11 DEF InCall
<1>5. ASSUME NEW k \in Key, Expire(k)
      PROVE  /\ UNCHANGED <<cache, pc, want, alone>> /\ stale \subseteq stale'
  BY <1>5 DEF Expire
<1>6. CASE UNCHANGED <<cache, pc, want, alone>> /\ stale \subseteq stale'
  BY <1>6 DEF SerialInv, Outside, Cached
<1>7. UNCHANGED vars => UNCHANGED <<cache, pc, want, alone>> /\ stale \subseteq stale'
  BY DEF vars
<1> QED BY <1>1, <1>2, <1>3, <1>4, <1>5, <1>6, <1>7 DEF Next

-----------------------------------------------------------------------------
\* The calls that are not counted yet: each was begun, and is counted once.
Uncounted == {t \in Thread : pc[t] \in {"lookup", "drop", "touch"}}

LEMMA UncountedMove ==
  ASSUME CacheAssumption, TypeOK, NEW t \in Thread, NEW step, Goto(t, step)
  PROVE  /\ Cardinality(Uncounted) \in Nat /\ Cardinality(Uncounted') \in Nat
         /\ Cardinality(Uncounted') <= Cardinality(Uncounted) + 1
         /\ t \in Uncounted => Cardinality(Uncounted') <= Cardinality(Uncounted)
         /\ step \notin {"lookup", "drop", "touch"} =>
              /\ Cardinality(Uncounted') <= Cardinality(Uncounted)
              /\ t \in Uncounted => Cardinality(Uncounted') = Cardinality(Uncounted) - 1
<1>1. /\ IsFiniteSet(Uncounted) /\ IsFiniteSet(Uncounted')
      /\ Uncounted \subseteq Thread /\ Uncounted' \subseteq Thread
  BY FS_Subset DEF Uncounted, CacheAssumption
<1>2. Cardinality(Uncounted) \in Nat /\ Cardinality(Uncounted') \in Nat
  BY <1>1, FS_CardinalityType
<1>3. Uncounted' = IF step \in {"lookup", "drop", "touch"} THEN Uncounted \cup {t} ELSE Uncounted \ {t}
  BY DEF Uncounted, Goto, TypeOK
<1>4. /\ t \in Uncounted => Uncounted \cup {t} = Uncounted
      /\ t \notin Uncounted => Cardinality(Uncounted \cup {t}) = Cardinality(Uncounted) + 1
  BY <1>1, FS_AddElement
<1>5. /\ t \notin Uncounted => Uncounted \ {t} = Uncounted
      /\ t \in Uncounted => Cardinality(Uncounted \ {t}) = Cardinality(Uncounted) - 1
  BY <1>1, FS_RemoveElement
<1>6. CASE step \in {"lookup", "drop", "touch"}
  <2>1. Uncounted' = Uncounted \cup {t}
    BY <1>3, <1>6
  <2>2. CASE t \in Uncounted
    <3>1. Cardinality(Uncounted') = Cardinality(Uncounted)
      BY <1>4, <2>1, <2>2
    <3> QED BY <1>2, <1>6, <3>1
  <2>3. CASE t \notin Uncounted
    <3>1. Cardinality(Uncounted') = Cardinality(Uncounted) + 1
      BY <1>4, <2>1, <2>3
    <3> QED BY <1>2, <1>6, <2>3, <3>1
  <2> QED BY <2>2, <2>3
<1>7. CASE step \notin {"lookup", "drop", "touch"}
  <2>1. Uncounted' = Uncounted \ {t}
    BY <1>3, <1>7
  <2> QED BY <1>2, <1>5, <1>7, <2>1
<1> QED BY <1>6, <1>7

LEMMA CountStep == CacheAssumption /\ TypeOK /\ NoCallCountedTwice /\ [Next]_vars => NoCallCountedTwice'
<1> SUFFICES ASSUME CacheAssumption, TypeOK, NoCallCountedTwice, [Next]_vars PROVE NoCallCountedTwice'
  OBVIOUS
<1>0. hits \in Nat /\ misses \in Nat /\ calls \in Nat
  BY DEF TypeOK
<1>1. hits + misses + Cardinality(Uncounted) <= calls
  BY DEF NoCallCountedTwice, Uncounted
<1>2. SUFFICES hits' + misses' + Cardinality(Uncounted') <= calls'
  BY DEF NoCallCountedTwice, Uncounted
<1>3. ASSUME NEW t \in Thread, Call(t) PROVE hits' + misses' + Cardinality(Uncounted') <= calls'
  <2>1. Goto(t, "lookup") /\ calls' = calls + 1 /\ UNCHANGED <<hits, misses>>
    BY <1>3 DEF Call
  <2>2. /\ Cardinality(Uncounted) \in Nat /\ Cardinality(Uncounted') \in Nat
        /\ Cardinality(Uncounted') <= Cardinality(Uncounted) + 1
    BY <2>1, UncountedMove
  <2> QED BY <1>0, <1>1, <2>1, <2>2
\* The steps of a call that is not counted yet.
<1>4. ASSUME NEW t \in Thread, Lookup(t) \/ DropExpired(t) \/ Touch(t)
      PROVE  hits' + misses' + Cardinality(Uncounted') <= calls'
  <2>1. /\ t \in Uncounted /\ calls' = calls
        /\ \E step : /\ Goto(t, step)
                     /\ \/ UNCHANGED <<hits, misses>>
                        \/ /\ step \notin {"lookup", "drop", "touch"}
                           /\ \/ hits' = hits + 1 /\ misses' = misses
                              \/ hits' = hits /\ misses' = misses + 1
    <3>1. CASE Lookup(t)
      <4>1. CASE Cached(want[t])
        <5>1. /\ misses' = misses /\ hits' = hits /\ calls' = calls
              /\ Goto(t, "drop") \/ Goto(t, "touch")
          BY <1>0, <3>1, <4>1 DEF Lookup, LookupWith
        <5> QED BY <3>1, <5>1 DEF Lookup, LookupWith, Uncounted
      <4>2. CASE ~Cached(want[t])
        <5>1. Goto(t, "rules") /\ misses' = misses + 1 /\ hits' = hits /\ calls' = calls
          BY <3>1, <4>2 DEF Lookup, LookupWith
        <5> QED BY <3>1, <5>1 DEF Lookup, LookupWith, Uncounted
      <4> QED BY <4>1, <4>2
    <3>2. CASE DropExpired(t)
      BY <3>2 DEF DropExpired, Uncounted
    <3>3. CASE Touch(t)
      BY <3>3 DEF Touch, Uncounted
    <3> QED BY <1>4, <3>1, <3>2, <3>3
  <2>2. PICK step : /\ Goto(t, step)
                    /\ \/ UNCHANGED <<hits, misses>>
                       \/ /\ step \notin {"lookup", "drop", "touch"}
                          /\ \/ hits' = hits + 1 /\ misses' = misses
                             \/ hits' = hits /\ misses' = misses + 1
    BY <2>1
  <2>3. /\ Cardinality(Uncounted) \in Nat /\ Cardinality(Uncounted') \in Nat
        /\ Cardinality(Uncounted') <= Cardinality(Uncounted)
        /\ step \notin {"lookup", "drop", "touch"} =>
             Cardinality(Uncounted') = Cardinality(Uncounted) - 1
    BY <2>1, <2>2, UncountedMove
  <2> QED BY <1>0, <1>1, <2>1, <2>2, <2>3
\* The others.
<1>5. ASSUME NEW t \in Thread, RunRules(t) \/ CheckRoom(t) \/ Evict(t) \/ Store(t)
      PROVE  hits' + misses' + Cardinality(Uncounted') <= calls'
  <2>1. /\ UNCHANGED <<hits, misses, calls>>
        /\ \E step : Goto(t, step) /\ step \notin {"lookup", "drop", "touch"}
    BY <1>5 DEF RunRules, CheckRoom, RoomIf, Evict, Store
  <2>2. /\ Cardinality(Uncounted) \in Nat /\ Cardinality(Uncounted') \in Nat
        /\ Cardinality(Uncounted') <= Cardinality(Uncounted)
    BY <2>1, UncountedMove
  <2> QED BY <1>0, <1>1, <2>1, <2>2
<1>6. CASE (\E k \in Key : Expire(k)) \/ UNCHANGED vars
  BY <1>1, <1>6 DEF Expire, vars, Uncounted
<1> QED BY <1>3, <1>4, <1>5, <1>6 DEF Next, InCall

\* Type correctness of the cache under any number of threads.
THEOREM TypeCorrect == Spec => []TypeOK
<1> USE CacheAssumption
<1> QED BY CacheInit, TypeStep, PTL DEF Spec

\* n threads exceed max_size by at most n - 1 entries.
THEOREM OvershootBounded == Spec => []SizeBounded
<1>1. CacheAssumption /\ TypeOK /\ Reserved => SizeBounded
  <2> SUFFICES ASSUME CacheAssumption, TypeOK, Reserved PROVE SizeBounded
    OBVIOUS
  <2>1. IsFiniteSet(Storing)
    BY FS_Subset DEF Storing, CacheAssumption
  <2>2. /\ Cardinality(Storing) \in Nat /\ Cardinality(Thread) \in Nat
        /\ Len(cache) \in Nat /\ MaxSize \in Nat
    BY <2>1, FS_CardinalityType DEF CacheAssumption, TypeOK
  <2> QED BY <2>2 DEF Reserved, SizeBounded
<1> USE CacheAssumption
<1> QED BY <1>1, CacheInit, TypeStep, ReservedStep, PTL DEF Spec

\* For any threads and any positive size: a call that no other overlaps never
\* raises, whatever the overlapping calls before it have left.
THEOREM SerialNeverRaises == Spec => []SerialCallNeverRaises
<1> USE CacheAssumption
<1>1. Init => SerialInv
  BY DEF Init, SerialInv
<1>2. SerialInv => SerialCallNeverRaises
  BY DEF SerialInv, SerialCallNeverRaises
<1> QED BY <1>1, <1>2, CacheInit, TypeStep, KeysStep, SerialStep, PTL DEF Spec

\* For any threads: hits and misses never exceed the calls that are counted.
THEOREM CountedAtMostOnce == Spec => []NoCallCountedTwice
<1> USE CacheAssumption
<1>1. Init => NoCallCountedTwice
  <2> SUFFICES ASSUME Init PROVE NoCallCountedTwice
    OBVIOUS
  <2>1. Uncounted = {}
    BY DEF Init, Uncounted
  <2>2. Cardinality(Uncounted) = 0
    BY <2>1, FS_EmptySet
  <2>3. hits + misses + Cardinality(Uncounted) <= calls
    BY <2>2 DEF Init
  <2> QED BY <2>3 DEF NoCallCountedTwice, Uncounted
<1> QED BY <1>1, CacheInit, TypeStep, CountStep, PTL DEF Spec

-----------------------------------------------------------------------------
\* Deleting a key at its place is deleting the only occurrence of the key.
LEMMA SameWithout ==
  ASSUME TypeOK, NEW k, Cached(k)
  PROVE  LRU!Without(k) = Without(k)
<1> DEFINE n == Len(cache)
           i == CHOOSE j \in DOMAIN cache : cache[j] = k
           a == SubSeq(cache, 1, i - 1)
           b == SubSeq(cache, i + 1, n)
           f == [j \in 1 .. n - 1 |-> IF j < i THEN cache[j] ELSE cache[j + 1]]
<1>1. i \in DOMAIN cache
  BY DEF Cached
<1>2. cache \in Seq(Key) /\ n \in Nat /\ DOMAIN cache = 1 .. n
  BY DEF TypeOK
<1>3. LRU!Without(k) = a \o b /\ Without(k) = f
  BY DEF LRU!Without, Without
<1> HIDE DEF i, n
<1>4. i \in 1 .. n
  BY <1>1, <1>2
<1>5. /\ a \in Seq(Key) /\ Len(a) = i - 1
      /\ \A j \in 1 .. i - 1 : a[j] = cache[j]
  <2>1. 1 \in Int /\ i - 1 \in Int /\ \A j \in 1 .. i - 1 : cache[j] \in Key
    BY <1>2, <1>4
  <2>2. /\ a \in Seq(Key) /\ Len(a) = IF 1 <= i - 1 THEN (i - 1) - 1 + 1 ELSE 0
        /\ \A j \in 1 .. (i - 1) - 1 + 1 : a[j] = cache[1 + j - 1]
    BY <2>1, SubSeqProperties
  <2> QED BY <1>4, <2>2
<1>6. /\ b \in Seq(Key) /\ Len(b) = n - i
      /\ \A j \in 1 .. n - i : b[j] = cache[i + j]
  <2>1. i + 1 \in Int /\ n \in Int /\ \A j \in i + 1 .. n : cache[j] \in Key
    BY <1>2, <1>4
  <2>2. /\ b \in Seq(Key) /\ Len(b) = IF i + 1 <= n THEN n - (i + 1) + 1 ELSE 0
        /\ \A j \in 1 .. n - (i + 1) + 1 : b[j] = cache[(i + 1) + j - 1]
    BY <2>1, SubSeqProperties
  <2> QED BY <1>2, <1>4, <2>2
<1> HIDE DEF a, b
<1>7. /\ a \o b \in Seq(Key) /\ Len(a \o b) = n - 1
      /\ \A j \in 1 .. n - 1 : (a \o b)[j] = IF j <= i - 1 THEN a[j] ELSE b[j - (i - 1)]
  <2>1. /\ a \o b \in Seq(Key) /\ Len(a \o b) = Len(a) + Len(b)
        /\ \A j \in 1 .. Len(a) + Len(b) :
             (a \o b)[j] = IF j <= Len(a) THEN a[j] ELSE b[j - Len(a)]
    BY <1>5, <1>6, ConcatProperties
  <2>2. Len(a) + Len(b) = n - 1
    BY <1>2, <1>4, <1>5, <1>6
  <2> QED BY <1>5, <2>1, <2>2
<1>8. \A j \in 1 .. n - 1 : (a \o b)[j] = f[j]
  <2> SUFFICES ASSUME NEW j \in 1 .. n - 1 PROVE (a \o b)[j] = f[j]
    OBVIOUS
  <2>1. CASE j < i
    <3>1. j \in 1 .. i - 1 /\ j <= i - 1
      BY <2>1, <1>2, <1>4
    <3> QED BY <2>1, <3>1, <1>5, <1>7
  <2>2. CASE ~(j < i)
    <3>1. j - (i - 1) \in 1 .. n - i /\ i + (j - (i - 1)) = j + 1 /\ ~(j <= i - 1)
      BY <2>2, <1>2, <1>4
    <3>2. b[j - (i - 1)] = cache[i + (j - (i - 1))]
      BY <3>1, <1>6
    <3> QED BY <2>2, <3>1, <3>2, <1>7
  <2> QED BY <2>1, <2>2
<1>9. a \o b = f
  <2>1. DOMAIN (a \o b) = 1 .. n - 1 /\ a \o b \in [1 .. n - 1 -> Key]
    BY <1>7, LenProperties
  <2> HIDE DEF f
  <2>2. f = [j \in 1 .. n - 1 |-> f[j]]
    BY DEF f
  <2> QED BY <1>8, <2>1, <2>2
<1> QED BY <1>3, <1>9

\* The keys found and still to be served, when one thread is inside at most.
LEMMA FoundByOne ==
  ASSUME NEW step, NEW key, NEW t \in Thread,
         \A other \in Thread \ {t} : step[other] \in {"idle", "KeyError"}
  PROVE  {key[x] : x \in {u \in Thread : step[u] = "touch"}}
           = IF step[t] = "touch" THEN {key[t]} ELSE {}
<1>1. \A u \in Thread : step[u] = "touch" => u = t
  OBVIOUS
<1> QED BY <1>1

\* A step of a call that no other overlaps, as a step of the LRU cache.
LEMMA SerialStepIsLRU ==
  ASSUME CacheAssumption, TypeOK, KeysOnce, SerialInv, SerialInv', Next, alone' # Nobody
  PROVE  LRU!LruNext \/ UNCHANGED LRU!lruVars
<1> DEFINE Found == {want[x] : x \in {u \in Thread : pc[u] = "touch"}}
<1>0. /\ pc \in [Thread -> Steps] /\ want \in [Thread -> Key] /\ MaxSize \in Nat
      /\ cache \in Seq(Key) /\ alone \in Thread \cup {Nobody} /\ Nobody \notin Thread
      /\ \A k \in stale : Cached(k)
  BY DEF TypeOK, CacheAssumption, KeysOnce
<1>1. ASSUME NEW t \in Thread, \A other \in Thread \ {t} : other \in Outside',
             \A other \in Thread \ {t} : other \in Outside
      PROVE  /\ Found = IF pc[t] = "touch" THEN {want[t]} ELSE {}
             /\ Found' = IF pc'[t] = "touch" THEN {want'[t]} ELSE {}
  BY <1>1, FoundByOne DEF Outside
<1>2. ASSUME UNCHANGED <<cache, stale>>, Found' = Found PROVE UNCHANGED LRU!lruVars
  BY <1>2 DEF LRU!lruVars
<1>3. ASSUME NEW t \in Thread, Call(t) PROVE UNCHANGED LRU!lruVars
  <2>1. Thread \ {t} \subseteq Outside /\ pc[t] \in {"idle", "KeyError"} /\ alone' = t
    BY <1>0, <1>3 DEF Call, AloneAfter
  <2>2. \A other \in Thread \ {t} : other \in Outside'
    BY <2>1 DEF SerialInv
  <2>3. pc'[t] = "lookup" /\ UNCHANGED <<cache, stale>>
    BY <1>0, <1>3 DEF Call, Goto
  <2> QED BY <1>1, <1>2, <2>1, <2>2, <2>3
<1>4. ASSUME NEW t \in Thread, InCall(t) PROVE LRU!LruNext \/ UNCHANGED LRU!lruVars
  <2>1. /\ alone' = alone /\ want' = want /\ pc[t] \notin {"idle", "KeyError"}
    BY <1>4 DEF InCall, Lookup, LookupWith, DropExpired, Touch, RunRules, CheckRoom, RoomIf, Evict, Store
  <2>2. alone = t /\ alone' = t
    BY <1>0, <2>1 DEF SerialInv, Outside
  <2>3. /\ \A other \in Thread \ {t} : other \in Outside
        /\ \A other \in Thread \ {t} : other \in Outside'
    BY <2>2 DEF SerialInv
  <2>4. PICK k \in Key : k = want[t]
    BY <1>0
  <2>5. /\ Found = IF pc[t] = "touch" THEN {k} ELSE {}
        /\ Found' = IF pc'[t] = "touch" THEN {k} ELSE {}
    BY <1>1, <2>1, <2>3, <2>4
  <2>6. /\ pc[t] \in {"drop", "touch"} => Cached(k)
        /\ pc[t] = "drop" => k \in stale
        /\ pc[t] \in {"rules", "room", "evict", "store"} => ~Cached(k)
        /\ pc[t] = "evict" => Len(cache) >= MaxSize
        /\ pc[t] = "store" => Len(cache) < MaxSize
    BY <2>2, <2>4 DEF SerialInv
  <2> DEFINE Stands == UNCHANGED LRU!lruVars
  <2>7. \A q : LRU!Holds(q) <=> Cached(q)
    BY DEF LRU!Holds, Cached
  <2>8. \A q \in Key : LRU!Find(q) \/ LRU!Serve(q) \/ LRU!Drop(q) \/ LRU!Insert(q) => LRU!LruNext
    BY DEF LRU!LruNext
  <2>9. CASE Lookup(t)
    <3>1. pc[t] = "lookup" /\ UNCHANGED <<cache, stale>>
      BY <2>9 DEF Lookup, LookupWith
    <3>2. pc'[t] = IF ~Cached(k) THEN "rules" ELSE IF k \in stale THEN "drop" ELSE "touch"
      BY <1>0, <2>4, <2>9 DEF Lookup, LookupWith, Goto
    <3>3. CASE Cached(k) /\ k \notin stale
      <4>1. Found = {} /\ Found' = {k}
        BY <2>5, <3>1, <3>2, <3>3
      <4>2. LRU!Find(k)
        BY <2>7, <3>1, <3>3, <4>1 DEF LRU!Find
      <4> QED BY <2>8, <4>2
    <3>4. CASE ~Cached(k) \/ k \in stale
      BY <1>2, <2>5, <3>1, <3>2, <3>4
    <3> QED BY <3>3, <3>4
  <2>10. CASE DropExpired(t)
    <3>1. /\ pc[t] = "drop" /\ pc'[t] = "rules"
          /\ cache' = Without(k) /\ stale' = stale \ {k} /\ Cached(k) /\ k \in stale
      BY <1>0, <2>4, <2>6, <2>10 DEF DropExpired, Goto
    <3>2. Found' = Found /\ cache' = LRU!Without(k)
      BY <2>5, <3>1, SameWithout
    <3>3. LRU!Drop(k)
      BY <2>7, <3>1, <3>2 DEF LRU!Drop
    <3> QED BY <2>8, <3>3
  <2>11. CASE Touch(t)
    <3>1. /\ pc[t] = "touch" /\ pc'[t] = "idle"
          /\ cache' = Append(Without(k), k) /\ stale' = stale /\ Cached(k)
      BY <1>0, <2>4, <2>6, <2>11 DEF Touch, Goto
    <3>2. /\ k \in Found /\ Found' = Found \ {k}
          /\ cache' = Append(LRU!Without(k), k)
      BY <2>5, <3>1, SameWithout
    <3>3. LRU!Serve(k)
      BY <2>7, <3>1, <3>2 DEF LRU!Serve
    <3> QED BY <2>8, <3>3
  <2>12. CASE RunRules(t) \/ CheckRoom(t)
    <3>1. /\ UNCHANGED <<cache, stale>> /\ pc[t] \in {"rules", "room"}
          /\ pc'[t] \in {"room", "idle", "evict", "store"}
      BY <1>0, <2>12 DEF RunRules, CheckRoom, RoomIf, Goto
    <3> QED BY <1>2, <2>5, <3>1
  <2>13. CASE Evict(t)
    <3>1. pc[t] = "evict" /\ pc'[t] \in {"room", "KeyError"} /\ Found' = Found
      BY <1>0, <2>5, <2>13 DEF Evict, Goto
    <3>2. CASE cache # <<>>
      <4>1. cache' = Tail(cache) /\ stale' = stale \ {Head(cache)}
        BY <2>13, <3>2 DEF Evict
      <4>2. LRU!EvictOldest
        BY <2>6, <3>1, <3>2, <4>1 DEF LRU!EvictOldest
      <4> QED BY <4>2 DEF LRU!LruNext
    <3>3. CASE cache = <<>>
      <4>1. UNCHANGED <<cache, stale>>
        BY <2>13, <3>3 DEF Evict
      <4> QED BY <1>2, <3>1, <4>1
    <3> QED BY <3>2, <3>3
  <2>14. CASE Store(t)
    <3>1. pc[t] = "store" /\ pc'[t] = "idle" /\ ~Cached(k) /\ Len(cache) < MaxSize
      BY <1>0, <2>6, <2>14 DEF Store, Goto
    <3>2. cache' = Append(cache, k) /\ stale' = stale
      BY <1>0, <2>4, <2>14, <3>1 DEF Store
    <3>3. Found' = Found
      BY <2>5, <3>1
    <3>4. LRU!Insert(k)
      BY <2>7, <3>1, <3>2, <3>3 DEF LRU!Insert
    <3> QED BY <2>8, <3>4
  <2> QED BY <1>4, <2>9, <2>10, <2>11, <2>12, <2>13, <2>14 DEF InCall
<1>5. ASSUME NEW k \in Key, Expire(k) PROVE LRU!LruNext
  <2>1. Found' = Found
    BY <1>5 DEF Expire
  <2>2. LRU!Age(k)
    BY <1>5, <2>1 DEF Expire, LRU!Age, LRU!Holds, Cached
  <2> QED BY <2>2 DEF LRU!LruNext
<1> QED BY <1>3, <1>4, <1>5 DEF Next

\* For any threads, keys and size: the steps of a call that no other overlaps
\* are steps of a bounded LRU cache, from whatever state earlier calls left.
THEOREM SerialStepsAreLRU == Spec => SerialCallsAreLRU
<1> USE CacheAssumption
<1>1. Init => SerialInv
  BY DEF Init, SerialInv, CacheAssumption
<1>2. TypeOK /\ KeysOnce /\ SerialInv /\ SerialInv' /\ [Next]_vars
        => [alone' # Nobody => [LRU!LruNext]_(LRU!lruVars)]_vars
  BY SerialStepIsLRU
<1> QED
  BY <1>1, <1>2, CacheInit, TypeStep, KeysStep, SerialStep, PTL DEF Spec, SerialCallsAreLRU

-----------------------------------------------------------------------------
\* With max_size = 0 the eviction loop never lets a result through: nothing is
\* ever cached, and a call whose rules returned can only go on to popitem.
ZeroSizeNeverStores ==
  MaxSize = 0 => /\ cache = <<>>
                 /\ \A t \in Thread : pc[t] \notin {"drop", "touch", "store"}

LEMMA ZeroSizeStep ==
  CacheAssumption /\ TypeOK /\ ZeroSizeNeverStores /\ [Next]_vars => ZeroSizeNeverStores'
<1> SUFFICES ASSUME CacheAssumption, TypeOK, MaxSize = 0, [Next]_vars, cache = <<>>,
                    \A t \in Thread : pc[t] \notin {"drop", "touch", "store"}
             PROVE  /\ cache' = <<>>
                    /\ \A t \in Thread : pc'[t] \notin {"drop", "touch", "store"}
  BY DEF ZeroSizeNeverStores
<1>0. /\ Len(cache) = 0 /\ pc \in [Thread -> Steps]
      /\ \A k : ~Cached(k)
  BY DEF TypeOK, Cached
<1>1. ASSUME NEW t \in Thread, NEW step, Goto(t, step), step \notin {"drop", "touch", "store"}
      PROVE  \A u \in Thread : pc'[u] \notin {"drop", "touch", "store"}
  BY <1>0, <1>1 DEF Goto
<1>2. ASSUME NEW t \in Thread, Call(t) \/ InCall(t)
      PROVE  /\ cache' = <<>>
             /\ \E step : Goto(t, step) /\ step \notin {"drop", "touch", "store"}
  <2>1. CASE Call(t) \/ RunRules(t)
    BY <2>1 DEF Call, RunRules
  <2>2. CASE Lookup(t)
    BY <1>0, <2>2 DEF Lookup, LookupWith
  <2>3. CASE CheckRoom(t)
    <3>1. Len(cache) >= MaxSize
      BY <1>0
    <3> QED BY <2>3, <3>1 DEF CheckRoom, RoomIf
  <2>4. CASE Evict(t)
    BY <2>4 DEF Evict
  <2>5. CASE DropExpired(t) \/ Touch(t) \/ Store(t)
    BY <2>5 DEF DropExpired, Touch, Store
  <2> QED BY <1>2, <2>1, <2>2, <2>3, <2>4, <2>5 DEF InCall
<1>3. CASE (\E k \in Key : Expire(k)) \/ UNCHANGED vars
  BY <1>3 DEF Expire, vars
<1> QED BY <1>1, <1>2, <1>3 DEF Next

\* A cache configured with max_size = 0 is not an empty cache but a broken one:
\* no call reaches the assignment behind the eviction loop.
THEOREM ZeroSizeIsUseless == Spec => []ZeroSizeNeverStores
<1> USE CacheAssumption
<1>1. Init => ZeroSizeNeverStores
  BY DEF Init, ZeroSizeNeverStores
<1> QED BY <1>1, CacheInit, TypeStep, ZeroSizeStep, PTL DEF Spec

-----------------------------------------------------------------------------
\* A thread's step adds no thread but itself to those that may store; where the
\* call ends it takes itself out.
LEMMA MayStoreMoves ==
  ASSUME CacheAssumption, TypeOK, NEW t \in Thread, NEW step, Goto(t, step)
  PROVE  /\ Cardinality(MayStore) \in Nat /\ Cardinality(MayStore') \in Nat
         /\ Cardinality(MayStore') <= Cardinality(MayStore) + 1
         /\ t \in MayStore \/ step \in {"idle", "KeyError"}
              => Cardinality(MayStore') <= Cardinality(MayStore)
         /\ t \in MayStore /\ step \in {"idle", "KeyError"}
              => Cardinality(MayStore') = Cardinality(MayStore) - 1
<1>1. MayStore \in SUBSET Thread /\ MayStore' \in SUBSET Thread
  BY DEF MayStore
<1>2. IsFiniteSet(MayStore) /\ IsFiniteSet(MayStore')
  BY <1>1, FS_Subset DEF CacheAssumption
<1>3. PICK m, n \in Nat : m = Cardinality(MayStore) /\ n = Cardinality(MayStore')
  BY <1>2, FS_CardinalityType
<1>4. pc'[t] = step /\ \A u \in Thread : u # t => pc'[u] = pc[u]
  BY DEF Goto, TypeOK
<1>5. MayStore' \in {MayStore \cup {t}, MayStore \ {t}}
  BY <1>4 DEF MayStore
<1>6. step \in {"idle", "KeyError"} => MayStore' = MayStore \ {t}
  BY <1>4 DEF MayStore
<1>7. CASE t \in MayStore
  <2>1. MayStore \cup {t} = MayStore
    BY <1>7
  <2>2. Cardinality(MayStore \ {t}) = m - 1
    BY <1>2, <1>3, <1>7, FS_RemoveElement
  <2>3. n = m \/ n = m - 1
    BY <1>3, <1>5, <2>1, <2>2
  <2>4. step \in {"idle", "KeyError"} => n = m - 1
    BY <1>3, <1>6, <2>2
  <2>5. n <= m /\ n <= m + 1
    BY <2>3
  <2> QED BY <1>3, <2>4, <2>5
<1>8. CASE t \notin MayStore
  <2>1. MayStore \ {t} = MayStore
    BY <1>8
  <2>2. Cardinality(MayStore \cup {t}) = m + 1
    BY <1>2, <1>3, <1>8, FS_AddElement
  <2>3. n = m \/ n = m + 1
    BY <1>3, <1>5, <2>1, <2>2
  <2>4. step \in {"idle", "KeyError"} => n = m
    BY <1>3, <1>6, <2>1
  <2>5. n <= m + 1 /\ (n = m => n <= m)
    BY <2>3
  <2> QED BY <1>3, <1>8, <2>4, <2>5
<1> QED BY <1>7, <1>8

\* Only a turn of the eviction loop takes a thread from "evict".
LEMMA OnlyEvictLeaves ==
  ASSUME TypeOK, Next, NEW t \in Thread, pc[t] = "evict", pc'[t] # "evict"
  PROVE  Evict(t)
<1>1. ASSUME NEW k \in Key, Expire(k) PROVE FALSE
  BY <1>1 DEF Expire
<1>2. PICK u \in Thread : Call(u) \/ InCall(u)
  BY <1>1 DEF Next
<1>3. \E step : Goto(u, step)
  BY <1>2 DEF Call, InCall, Lookup, LookupWith, DropExpired, Touch, RunRules, CheckRoom,
              RoomIf, Evict, Store
<1>4. u = t
  BY <1>3 DEF Goto, TypeOK
<1> QED
  BY <1>2, <1>4 DEF Call, InCall, Lookup, LookupWith, DropExpired, Touch, RunRules, CheckRoom,
                    RoomIf, Store

LEMMA EvictionStep == CacheAssumption /\ TypeOK /\ [Next]_vars => [TurnIsPaid]_vars
<1> SUFFICES ASSUME CacheAssumption, TypeOK, Next, TypeOK' PROVE TurnIsPaid
  BY TypeStep
<1>0. Len(cache) \in Nat /\ Len(cache') \in Nat /\ calls \in Nat
  BY DEF TypeOK
<1> DEFINE m == Cardinality(MayStore)
           n == Cardinality(MayStore')
<1>s. SUFFICES /\ m \in Nat /\ n \in Nat
               /\ Len(cache') + n <= Len(cache) + m + (calls' - calls)
               /\ \A t \in Thread : Evict(t) => Len(cache') + n < Len(cache) + m
  <2>1. \A t \in Thread : pc[t] = "evict" /\ pc'[t] # "evict" => Evict(t)
    BY OnlyEvictLeaves
  <2>2. SUFFICES ASSUME /\ m \in Nat /\ n \in Nat
                        /\ Len(cache') + n <= Len(cache) + m + (calls' - calls)
                        /\ \A t \in Thread : Evict(t) => Len(cache') + n < Len(cache) + m
                 PROVE  TurnIsPaid
    OBVIOUS
  <2>3. Entries = Len(cache) + m /\ Entries' = Len(cache') + n
    BY DEF Entries
  <2>4. calls' \in Nat
    BY DEF TypeOK
  <2> HIDE DEF m, n
  <2>5. Entries' - Entries <= calls' - calls
    BY <1>0, <2>2, <2>3, <2>4
  <2>6. ASSUME NEW t \in Thread, pc[t] = "evict", pc'[t] # "evict" PROVE Entries' < Entries
    <3>1. Len(cache') + n < Len(cache) + m
      BY <2>1, <2>2, <2>6
    <3> QED BY <2>3, <3>1
  <2> QED BY <2>5, <2>6 DEF TurnIsPaid
<1>1. ASSUME NEW t \in Thread, Call(t)
      PROVE  m \in Nat /\ n \in Nat /\ n <= m + 1 /\ calls' = calls + 1 /\ cache' = cache
  <2>1. Goto(t, "lookup") /\ calls' = calls + 1 /\ cache' = cache
    BY <1>1 DEF Call
  <2> QED BY <2>1, MayStoreMoves
<1>2. ASSUME NEW t \in Thread, InCall(t), ~Evict(t)
      PROVE  m \in Nat /\ n \in Nat /\ Len(cache') + n <= Len(cache) + m /\ calls' = calls
  <2>1. CASE Lookup(t) \/ RunRules(t) \/ CheckRoom(t)
    <3>1. t \in MayStore /\ UNCHANGED <<cache, calls>> /\ \E step : Goto(t, step)
      BY <2>1 DEF Lookup, LookupWith, RunRules, CheckRoom, RoomIf, MayStore
    <3>2. PICK step : Goto(t, step)
      BY <3>1
    <3>3. m \in Nat /\ n \in Nat /\ n <= m
      BY <3>1, <3>2, MayStoreMoves
    <3> QED BY <1>0, <3>1, <3>3
  <2>2. CASE DropExpired(t)
    <3>1. t \in MayStore /\ calls' = calls /\ \E step : Goto(t, step)
      BY <2>2 DEF DropExpired, MayStore
    <3>2. PICK step : Goto(t, step)
      BY <3>1
    <3>3. m \in Nat /\ n \in Nat /\ n <= m
      BY <3>1, <3>2, MayStoreMoves
    <3>4. Len(cache') <= Len(cache)
      BY <1>0, <2>2, WithoutIsSeq DEF DropExpired
    <3> QED BY <1>0, <3>1, <3>3, <3>4
  <2>3. CASE Touch(t)
    <3>1. calls' = calls /\ \E step \in {"idle", "KeyError"} : Goto(t, step)
      BY <2>3 DEF Touch
    <3>2. PICK step \in {"idle", "KeyError"} : Goto(t, step)
      BY <3>1
    <3>3. m \in Nat /\ n \in Nat /\ n <= m
      BY <3>2, MayStoreMoves
    <3>4. Len(cache') = Len(cache)
      <4>1. CASE Cached(want[t])
        <5>1. /\ Without(want[t]) \in Seq(Key) /\ want[t] \in Key
              /\ Len(Without(want[t])) = Len(cache) - 1
          BY <4>1, WithoutIsSeq DEF TypeOK
        <5>2. cache' = Append(Without(want[t]), want[t])
          BY <2>3, <4>1 DEF Touch
        <5> QED BY <1>0, <5>1, <5>2
      <4>2. CASE ~Cached(want[t])
        BY <2>3, <4>2 DEF Touch
      <4> QED BY <4>1, <4>2
    <3> QED BY <1>0, <3>1, <3>3, <3>4
  <2>4. CASE Store(t)
    <3>1. t \in MayStore /\ calls' = calls /\ Goto(t, "idle")
      BY <2>4 DEF Store, MayStore
    <3>2. m \in Nat /\ n \in Nat /\ n = m - 1
      BY <3>1, MayStoreMoves
    <3>3. Len(cache') <= Len(cache) + 1
      BY <1>0, <2>4 DEF Store, TypeOK
    <3> QED BY <1>0, <3>1, <3>2, <3>3
  <2> QED BY <1>2, <2>1, <2>2, <2>3, <2>4 DEF InCall
<1>3. ASSUME NEW t \in Thread, Evict(t)
      PROVE  m \in Nat /\ n \in Nat /\ Len(cache') + n < Len(cache) + m /\ calls' = calls
  <2>1. t \in MayStore /\ calls' = calls
    BY <1>3 DEF Evict, MayStore
  <2>2. CASE cache # <<>>
    <3>1. Goto(t, "room") /\ Len(cache') = Len(cache) - 1
      BY <1>3, <2>2 DEF Evict, TypeOK
    <3>2. m \in Nat /\ n \in Nat /\ n <= m
      BY <2>1, <3>1, MayStoreMoves
    <3> QED BY <1>0, <2>1, <3>1, <3>2
  <2>3. CASE cache = <<>>
    <3>1. Goto(t, "KeyError") /\ cache' = cache
      BY <1>3, <2>3 DEF Evict
    <3>2. m \in Nat /\ n \in Nat /\ n = m - 1
      BY <2>1, <3>1, MayStoreMoves
    <3> QED BY <1>0, <2>1, <3>1, <3>2
  <2> QED BY <2>2, <2>3
<1>4. ASSUME NEW k \in Key, Expire(k)
      PROVE  /\ m \in Nat /\ n = m /\ cache' = cache /\ calls' = calls
             /\ \A t \in Thread : ~Evict(t)
  <2>1. UNCHANGED <<pc, cache, calls>>
    BY <1>4 DEF Expire
  <2>2. MayStore' = MayStore /\ MayStore \in SUBSET Thread
    BY <2>1 DEF MayStore
  <2>3. m \in Nat
    BY <2>2, FS_Subset, FS_CardinalityType DEF CacheAssumption
  <2>4. \A t \in Thread : ~Evict(t)
    BY <2>1 DEF Evict, Goto, TypeOK
  <2> QED BY <2>1, <2>2, <2>3, <2>4
<1>5. ASSUME NEW t \in Thread, Call(t) PROVE \A u \in Thread : ~Evict(u)
  BY <1>0, <1>5 DEF Call, Evict
<1> HIDE DEF m, n
<1> QED BY <1>0, <1>1, <1>2, <1>3, <1>4, <1>5 DEF Next

\* However many threads put entries back while others evict: a turn of an
\* eviction loop is paid by a call, so there are no more turns than calls.
THEOREM EvictionsAreBounded == Spec => Entries = 0 /\ EvictionsArePaid
<1> USE CacheAssumption
<1>1. Init => Entries = 0
  <2>1. Init => MayStore = {} /\ Len(cache) = 0
    BY DEF Init, MayStore
  <2>2. Cardinality({}) = 0
    BY FS_EmptySet
  <2> QED BY <2>1, <2>2 DEF Entries
<1> QED BY <1>1, CacheInit, TypeStep, EvictionStep, PTL DEF Spec, EvictionsArePaid
=============================================================================
