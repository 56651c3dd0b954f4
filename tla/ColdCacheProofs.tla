--------------------------- MODULE ColdCacheProofs --------------------------
(***************************************************************************)
(* For any threads, keys and parameters: types, the eviction flag, access  *)
(* counts, the candidates of an eviction, reports, and how far the cache   *)
(* may grow.  Each invariant below rests on those before it.               *)
(***************************************************************************)
EXTENDS ColdCache, FiniteSetTheorems, WellFoundedInduction, TLAPS

\* A call that works on a key has one, and what a call collects is empty
\* before it collects it.
Locals ==
    \A t \in Thread :
        /\ pc[t] \in GetSteps \cup InsertSteps => key[t] \in Key
        /\ pc[t] \in {"idle", "cas"} => heap[t] = {} /\ seen[t] = {}
        /\ pc[t] \in {"idle", "cas", "scan", "find"} => took[t] = 0
        /\ IsFiniteSet(heap[t]) /\ IsFiniteSet(seen[t])

Types == TypeOK /\ Locals

-----------------------------------------------------------------------------
LEMMA MaxOfTwo ==
  ASSUME NEW m \in Nat, NEW n \in Nat
  PROVE  Max({m, n}) \in Nat /\ Max({m, n}) >= m /\ Max({m, n}) >= n
<1>1. \E x \in {m, n} : \A y \in {m, n} : x >= y
  OBVIOUS
<1>2. Max({m, n}) \in {m, n} /\ \A y \in {m, n} : Max({m, n}) >= y
  BY <1>1 DEF Max
<1> QED
  BY <1>2

LEMMA MinOfTwo ==
  ASSUME NEW m \in Nat, NEW n \in Nat
  PROVE  Min({m, n}) = IF m <= n THEN m ELSE n
<1>1. \E x \in {m, n} : \A y \in {m, n} : x <= y
  OBVIOUS
<1>2. Min({m, n}) \in {m, n} /\ \A y \in {m, n} : Min({m, n}) <= y
  BY <1>1 DEF Min
<1> QED
  BY <1>2

LEMMA BatchFact == Batch \in Nat \ {0}
<1>1. (MaxEntries * EVICT_BATCH_PERCENT) \div 100 \in Nat
  BY ColdConstants
<1> QED
  BY <1>1, ColdConstants, MaxOfTwo DEF Batch

CacheEntry == [last_access : Nat, created_at : Nat]
IsCache(m) == DOMAIN m \subseteq Key /\ m \in [DOMAIN m -> CacheEntry]

\* DashMap::insert and DashMap::remove.
LEMMA WithFacts ==
  ASSUME NEW m, IsCache(m), NEW k \in Key, NEW e \in CacheEntry
  PROVE  /\ IsCache(With(m, k, e)) /\ DOMAIN With(m, k, e) = DOMAIN m \cup {k}
         /\ With(m, k, e)[k] = e
         /\ \A j \in DOMAIN m \ {k} : With(m, k, e)[j] = m[j]
  BY DEF With, IsCache

LEMMA WithoutFacts ==
  ASSUME NEW m, IsCache(m), NEW k
  PROVE  /\ IsCache(Without(m, k)) /\ DOMAIN Without(m, k) = DOMAIN m \ {k}
         /\ \A j \in DOMAIN m \ {k} : Without(m, k)[j] = m[j]
  BY DEF Without, IsCache

\* The store of an access count.
LEMMA AccessFacts ==
  ASSUME NEW m, IsCache(m), NEW k, NEW n \in Nat
  PROVE  LET w == [m EXCEPT ![k].last_access = n] IN
         /\ IsCache(w) /\ DOMAIN w = DOMAIN m
         /\ \A j \in DOMAIN m \ {k} : w[j] = m[j]
         /\ k \in DOMAIN m => w[k].last_access = n
<1> DEFINE e == [m[k] EXCEPT !.last_access = n]
<1>1. [m EXCEPT ![k].last_access = n] = [m EXCEPT ![k] = e]
  BY Zenon
<1>2. k \in DOMAIN m => e \in CacheEntry /\ e.last_access = n
  <2>1. ASSUME NEW x \in CacheEntry
        PROVE  [x EXCEPT !.last_access = n] \in CacheEntry
    BY Zenon DEF CacheEntry
  <2>2. ASSUME NEW x \in CacheEntry
        PROVE  [x EXCEPT !.last_access = n].last_access = n
    BY Zenon DEF CacheEntry
  <2>3. k \in DOMAIN m => m[k] \in CacheEntry
    BY DEF IsCache
  <2> QED
    BY <2>1, <2>2, <2>3
<1> HIDE DEF e
<1>3. LET w == [m EXCEPT ![k] = e] IN
      /\ IsCache(w) /\ DOMAIN w = DOMAIN m
      /\ \A j \in DOMAIN m \ {k} : w[j] = m[j]
      /\ k \in DOMAIN m => w[k] = e
  BY <1>2 DEF IsCache
<1> QED
  BY <1>1, <1>2, <1>3

LEMMA InitTypes == Init => Types
<1> SUFFICES ASSUME Init PROVE Types
  OBVIOUS
<1> USE DEF Init
<1>1. DOMAIN cache = {} /\ cache \in [{} -> CacheEntry]
  OBVIOUS
<1>2. TypeOK
  BY <1>1 DEF TypeOK, Steps, CacheEntry
<1>3. Locals
  BY FS_EmptySet DEF Locals, GetSteps, InsertSteps
<1> QED
  BY <1>2, <1>3 DEF Types

\* The locals of a call that returns.
LEMMA ReturnTypes ==
  ASSUME Types, NEW t \in Thread, Return(t)
  PROVE  /\ pc' \in [Thread -> Steps] /\ key' \in [Thread -> Key \cup {NoKey}]
         /\ stamp' \in [Thread -> Nat] /\ count' \in [Thread -> Nat] /\ took' \in [Thread -> Nat]
         /\ todo' \in [Thread -> SUBSET Key] /\ victims' \in [Thread -> SUBSET Key]
         /\ heap' \in [Thread -> SUBSET (Nat \X Key)] /\ seen' \in [Thread -> SUBSET (Nat \X Key)]
         /\ Locals'
         /\ pc'[t] = "idle"
         /\ \A s \in Thread \ {t} :
               /\ pc'[s] = pc[s] /\ key'[s] = key[s] /\ stamp'[s] = stamp[s] /\ todo'[s] = todo[s]
               /\ heap'[s] = heap[s] /\ seen'[s] = seen[s] /\ victims'[s] = victims[s]
               /\ count'[s] = count[s] /\ took'[s] = took[s]
  BY FS_EmptySet DEF Return, Goto, Types, TypeOK, Locals, Steps, GetSteps, InsertSteps

\* What a step does to the map.
LEMMA CacheTypes ==
  ASSUME Types, Next
  PROVE  IsCache(cache')
<1> USE DEF Types
<1>0. IsCache(cache)
  BY DEF TypeOK, IsCache, CacheEntry
<1>1. CASE UNCHANGED cache
  BY <1>0, <1>1
<1>2. ASSUME NEW t \in Thread, GetStore(t) PROVE IsCache(cache')
  <2>1. stamp[t] \in Nat
    BY DEF TypeOK
  <2> QED
    BY <1>0, <1>2, <2>1, AccessFacts DEF GetStore
<1>3. ASSUME NEW t \in Thread, NEW k, cache' = Without(cache, k) PROVE IsCache(cache')
  BY <1>0, <1>3, WithoutFacts
<1>4. ASSUME NEW t \in Thread, InsertPut(t) PROVE IsCache(cache')
  <2>1. key[t] \in Key /\ [last_access |-> stamp[t], created_at |-> now] \in CacheEntry
    BY <1>4 DEF InsertPut, TypeOK, Locals, InsertSteps, CacheEntry
  <2> QED
    BY <1>0, <1>4, <2>1, WithFacts DEF InsertPut
<1> QED
  BY <1>1, <1>2, <1>3, <1>4
  DEF Next, Call, Continue, Tick, GetLive, GetExpired, InsertCheck, Remove, PrefixStart, ClearStart,
      GetCount, Expire, EvictWon, EvictLost, EvictChosen, EvictDone, InsertCount,
      PrefixFound, RemovalDone, EvictScan, RemoveVictim, PrefixFind

LEMMA OfferedTypes ==
  ASSUME NEW H \in SUBSET (Nat \X Key), IsFiniteSet(H), NEW x \in Nat \X Key
  PROVE  /\ Offered(H, x) \in SUBSET (Nat \X Key) /\ IsFiniteSet(Offered(H, x))
         /\ Offered(H, x) # {}
         /\ Offered(H, x) \subseteq H \cup {x}
<1>1. IsFiniteSet(H \cup {x}) /\ IsFiniteSet(H \ {Newest(H)})
  BY FS_AddElement, FS_RemoveElement
<1>2. IsFiniteSet((H \ {Newest(H)}) \cup {x})
  BY <1>1, FS_AddElement
<1>3. H = {} => Cardinality(H) < Batch
  BY BatchFact, FS_EmptySet
<1> QED
  BY <1>1, <1>2, <1>3 DEF Offered

\* A step inside a call: the locals of other threads stay, and its own change
\* within their types.
LEMMA StepTypes ==
  ASSUME Types, NEW t \in Thread, Call(t) \/ Continue(t)
  PROVE  Types'
<1> USE DEF Types, Goto, FetchAdd
<1>0. IsCache(cache')
  BY CacheTypes DEF Next
<1> HIDE DEF IsCache
<1>c. DOMAIN cache' \subseteq Key /\ cache' \in [DOMAIN cache' -> [last_access : Nat, created_at : Nat]]
  BY <1>0 DEF IsCache, CacheEntry
<1>1. ASSUME NEW k \in Key, GetLive(t, k) \/ GetExpired(t, k) \/ InsertCheck(t, k) PROVE Types'
  BY <1>1, <1>c
  DEF GetLive, GetExpired, InsertCheck, TypeOK, Locals, Steps, GetSteps, InsertSteps
<1>2. ASSUME NEW k \in Key, Remove(t, k) PROVE Types'
  BY <1>2, <1>c DEF Remove, perThread, TypeOK, Locals
<1>3. ASSUME NEW P \in UrlPrefix, PrefixStart(t, P) PROVE Types'
  BY <1>3, <1>c, ColdConstants
  DEF PrefixStart, TypeOK, Locals, Steps, GetSteps, InsertSteps
<1>4. ASSUME ClearStart(t) PROVE Types'
  BY <1>4, <1>c DEF ClearStart, TypeOK, Locals, Steps, GetSteps, InsertSteps
<1>5. ASSUME GetCount(t) \/ InsertCount(t) PROVE Types'
  BY <1>5, <1>c DEF GetCount, InsertCount, TypeOK, Locals, Steps, GetSteps, InsertSteps
<1>6. ASSUME GetStore(t) \/ Expire(t) \/ InsertPut(t) \/ RemovalDone(t) PROVE Types'
  <2>1. Return(t) /\ UNCHANGED <<access_counter, evicting, now, skipped>>
    BY <1>6 DEF GetStore, Expire, InsertPut, RemovalDone
  <2> QED
    BY <1>c, <2>1, ReturnTypes DEF TypeOK
<1>7. ASSUME EvictWon(t) \/ EvictLost(t) \/ EvictDone(t) PROVE Types'
  <2>1. CASE EvictWon(t)
    BY <1>c, <2>1 DEF EvictWon, TypeOK, Locals, Steps, GetSteps, InsertSteps
  <2>2. CASE EvictLost(t)
    BY <1>c, <2>2 DEF EvictLost, TypeOK, Locals, Steps, GetSteps, InsertSteps
  <2>3. CASE EvictDone(t)
    BY <1>c, <2>3 DEF EvictDone, TypeOK, Locals, Steps, GetSteps, InsertSteps
  <2> QED
    BY <1>7, <2>1, <2>2, <2>3
<1>8. ASSUME EvictChosen(t) PROVE Types'
  <2> DEFINE keys == {x[2] : x \in heap[t]}
             n == Cardinality(heap[t])
  <2>1. n \in Nat
    BY FS_CardinalityType DEF Locals
  <2>2. keys \in SUBSET Key
    BY DEF TypeOK
  <2>3. /\ pc[t] = "scan" /\ pc' = [pc EXCEPT ![t] = "evict"]
        /\ victims' = [victims EXCEPT ![t] = keys] /\ count' = [count EXCEPT ![t] = n]
        /\ UNCHANGED <<cache, access_counter, evicting, now, skipped,
                       key, stamp, todo, heap, seen, took>>
    BY <1>8 DEF EvictChosen
  <2> HIDE DEF keys, n
  <2>4. TypeOK'
    BY <1>c, <2>1, <2>2, <2>3 DEF TypeOK, Steps, InsertSteps
  <2>5. Locals'
    BY <2>3 DEF TypeOK, Locals, GetSteps, InsertSteps
  <2> QED
    BY <2>4, <2>5
<1>9. ASSUME PrefixFound(t) PROVE Types'
  <2>1. Cardinality(victims[t]) \in Nat
    BY FS_Subset, FS_CardinalityType, ColdConstants DEF TypeOK
  <2> QED
    BY <1>9, <1>c, <2>1 DEF PrefixFound, TypeOK, Locals, Steps, GetSteps, InsertSteps
<1>10. ASSUME NEW k \in Key, EvictScan(t, k) PROVE Types'
  <2>1. CASE k \notin DOMAIN cache
    BY <1>10, <1>c, <2>1 DEF EvictScan, TypeOK, Locals, Steps, GetSteps, InsertSteps
  <2>2. CASE k \in DOMAIN cache
    <3> DEFINE x == <<cache[k].last_access, k>>
    <3>1. x \in Nat \X Key
      BY <2>2 DEF TypeOK
    <3>2. heap' = [heap EXCEPT ![t] = Offered(heap[t], x)]
          /\ seen' = [seen EXCEPT ![t] = seen[t] \cup {x}]
      BY <1>10, <2>2 DEF EvictScan
    <3> HIDE DEF x
    <3>3. /\ Offered(heap[t], x) \in SUBSET (Nat \X Key) /\ IsFiniteSet(Offered(heap[t], x))
          /\ seen[t] \cup {x} \in SUBSET (Nat \X Key) /\ IsFiniteSet(seen[t] \cup {x})
      <4>1. /\ heap[t] \in SUBSET (Nat \X Key) /\ IsFiniteSet(heap[t])
            /\ seen[t] \in SUBSET (Nat \X Key) /\ IsFiniteSet(seen[t])
        BY DEF TypeOK, Locals
      <4> QED
        BY <3>1, <4>1, OfferedTypes, FS_AddElement
    <3>4. /\ heap' \in [Thread -> SUBSET (Nat \X Key)] /\ seen' \in [Thread -> SUBSET (Nat \X Key)]
          /\ \A s \in Thread : IsFiniteSet(heap'[s]) /\ IsFiniteSet(seen'[s])
          /\ \A s \in Thread \ {t} : heap'[s] = heap[s] /\ seen'[s] = seen[s]
      BY <3>2, <3>3 DEF TypeOK, Locals
    <3>5. TypeOK'
      BY <1>10, <1>c, <3>4 DEF EvictScan, TypeOK
    <3>6. Locals'
      BY <1>10, <3>4 DEF EvictScan, TypeOK, Locals
    <3> QED
      BY <3>5, <3>6
  <2> QED
    BY <2>1, <2>2
<1>11. ASSUME NEW k \in Key, RemoveVictim(t, k) PROVE Types'
  BY <1>11, <1>c DEF RemoveVictim, TypeOK, Locals
<1>12. ASSUME NEW k \in Key, PrefixFind(t, k) PROVE Types'
  BY <1>12, <1>c DEF PrefixFind, TypeOK, Locals
<1> QED
  BY <1>1, <1>2, <1>3, <1>4, <1>5, <1>6, <1>7, <1>8, <1>9, <1>10, <1>11, <1>12
  DEF Call, Continue

LEMMA AlwaysTypes == Spec => []Types
<1>1. ASSUME Types, [Next]_vars PROVE Types'
  <2>1. CASE Tick
    BY <1>1, <2>1 DEF Tick, perThread, Types, TypeOK, Locals
  <2>2. CASE UNCHANGED vars
    BY <1>1, <2>2 DEF vars, perThread, Types, TypeOK, Locals
  <2> QED
    BY <1>1, <2>1, <2>2, StepTypes DEF Next
<1> QED
  BY <1>1, InitTypes, PTL DEF Spec

\* All variables keep their types.
THEOREM TypeCorrect == Spec => []TypeOK
<1>1. Types => TypeOK
  BY DEF Types
<1> QED
  BY <1>1, AlwaysTypes, PTL

\* A step of one thread leaves the locals of the others alone.
LEMMA OthersStay ==
  ASSUME Types, NEW t \in Thread, Call(t) \/ Continue(t), NEW s \in Thread \ {t}
  PROVE  /\ pc'[s] = pc[s] /\ key'[s] = key[s] /\ stamp'[s] = stamp[s] /\ todo'[s] = todo[s]
         /\ heap'[s] = heap[s] /\ seen'[s] = seen[s] /\ victims'[s] = victims[s]
         /\ count'[s] = count[s] /\ took'[s] = took[s]
<1> USE DEF Goto, FetchAdd, Return, Types, TypeOK
<1>1. CASE Call(t)
  BY <1>1
  DEF Call, GetLive, GetExpired, InsertCheck, Remove, PrefixStart, ClearStart, perThread
<1>2. CASE Continue(t)
  BY <1>2
  DEF Continue, GetCount, GetStore, Expire, EvictWon, EvictLost, EvictChosen, EvictDone,
      InsertCount, InsertPut, PrefixFound, RemovalDone, EvictScan, RemoveVictim, PrefixFind
<1> QED
  BY <1>1, <1>2

\* No thread moves when the clock does, or when nothing does.
Idles ==
  /\ UNCHANGED <<cache, access_counter, evicting, skipped>>
  /\ UNCHANGED <<pc, key, stamp, todo, heap, victims, count, seen, took>>

LEMMA StepCases ==
  ASSUME [Next]_vars
  PROVE  Idles \/ \E t \in Thread : Call(t) \/ Continue(t)
  BY DEF Next, Tick, vars, perThread, Idles

-----------------------------------------------------------------------------
\* The flag and the thread that holds it.
EvictorAlone ==
    /\ \A s, t \in Evictors : s = t
    /\ evicting <=> Evictors # {}

LEMMA FlagEffect ==
  ASSUME Types, NEW t \in Thread, Call(t) \/ Continue(t)
  PROVE  \/ EvictWon(t) /\ ~evicting /\ evicting' /\ t \notin Evictors /\ pc'[t] = "scan"
         \/ EvictDone(t) /\ ~evicting' /\ t \in Evictors /\ pc'[t] = "count"
         \/ evicting' = evicting /\ (pc[t] \in {"scan", "evict"} <=> pc'[t] \in {"scan", "evict"})
<1> USE DEF Goto, FetchAdd, Return, Types, TypeOK, Evictors
<1>1. CASE Call(t)
  BY <1>1
  DEF Call, GetLive, GetExpired, InsertCheck, Remove, PrefixStart, ClearStart, perThread
<1>2. CASE Continue(t)
  BY <1>2
  DEF Continue, GetCount, GetStore, Expire, EvictWon, EvictLost, EvictChosen, EvictDone,
      InsertCount, InsertPut, PrefixFound, RemovalDone, EvictScan, RemoveVictim, PrefixFind
<1> QED
  BY <1>1, <1>2

LEMMA AlwaysAlone == Spec => []EvictorAlone
<1>1. Init => EvictorAlone
  BY DEF Init, EvictorAlone, Evictors
<1>2. ASSUME Types, EvictorAlone, [Next]_vars PROVE EvictorAlone'
  <2>1. CASE Idles
    BY <1>2, <2>1 DEF Idles, EvictorAlone, Evictors
  <2>2. ASSUME NEW t \in Thread, Call(t) \/ Continue(t) PROVE EvictorAlone'
    <3>1. \A s \in Thread \ {t} : pc'[s] = pc[s]
      BY <1>2, <2>2, OthersStay
    <3>2. CASE EvictWon(t) /\ ~evicting /\ evicting' /\ t \notin Evictors /\ pc'[t] = "scan"
      <4>1. Evictors' = {t}
        BY <1>2, <3>1, <3>2 DEF EvictorAlone, Evictors
      <4> QED
        BY <3>2, <4>1 DEF EvictorAlone
    <3>3. CASE EvictDone(t) /\ ~evicting' /\ t \in Evictors /\ pc'[t] = "count"
      <4>1. Evictors' = {}
        BY <1>2, <3>1, <3>3 DEF EvictorAlone, Evictors
      <4> QED
        BY <3>3, <4>1 DEF EvictorAlone
    <3>4. CASE evicting' = evicting /\ (pc[t] \in {"scan", "evict"} <=> pc'[t] \in {"scan", "evict"})
      <4>1. Evictors' = Evictors
        BY <3>1, <3>4 DEF Evictors
      <4> QED
        BY <1>2, <3>4, <4>1 DEF EvictorAlone
    <3> QED
      BY <1>2, <2>2, <3>2, <3>3, <3>4, FlagEffect
  <2> QED
    BY <1>2, <2>1, <2>2, StepCases
<1> QED
  BY <1>1, <1>2, AlwaysTypes, PTL DEF Spec

\* The flag is up exactly while one thread scans or evicts (cold.rs:125-131,
\* 159): only the winner of the compare_exchange gets in, and it always lets
\* the flag go.
THEOREM OneEvictorAtATime == Spec => []SingleEvictor
<1>1. EvictorAlone => SingleEvictor
  <2> SUFFICES ASSUME EvictorAlone PROVE Cardinality(Evictors) <= 1
    BY DEF EvictorAlone, SingleEvictor
  <2>1. CASE Evictors = {}
    BY <2>1, FS_EmptySet
  <2>2. CASE Evictors # {}
    <3>1. PICK t : Evictors = {t}
      BY <2>2 DEF EvictorAlone
    <3>2. Cardinality({t}) = 1
      BY FS_Singleton
    <3> QED
      BY <3>1, <3>2
  <2> QED
    BY <2>1, <2>2
<1> QED
  BY <1>1, AlwaysAlone, PTL

-----------------------------------------------------------------------------
\* A call between its fetch_add and the store of the count.
Holding == {t \in Thread : pc[t] \in {"getStore", "put"}}

\* Counts handed out are below the counter, and no count is in two places.
StampsApart ==
    /\ \A k \in DOMAIN cache : cache[k].last_access < access_counter
    /\ \A t \in Holding : stamp[t] < access_counter
    /\ \A t \in Holding, k \in DOMAIN cache : stamp[t] # cache[k].last_access
    /\ \A s, t \in Holding : s # t => stamp[s] # stamp[t]
    /\ StampsUnique

LEMMA StampEffect ==
  ASSUME Types, NEW t \in Thread, Call(t) \/ Continue(t)
  PROVE  \/ /\ stamp'[t] = access_counter /\ access_counter' = access_counter + 1
            /\ cache' = cache
         \/ /\ t \in Holding /\ pc'[t] = "idle" /\ access_counter' = access_counter
            /\ \A j \in DOMAIN cache' :
                  \/ j \in DOMAIN cache /\ cache'[j] = cache[j]
                  \/ j = key[t] /\ cache'[j].last_access = stamp[t]
         \/ /\ pc'[t] \notin {"getStore", "put"} /\ access_counter' = access_counter
            /\ \A j \in DOMAIN cache' : j \in DOMAIN cache /\ cache'[j] = cache[j]
<1> USE DEF Types
<1>0. IsCache(cache)
  BY DEF TypeOK, IsCache, CacheEntry
<1>w. ASSUME NEW k
      PROVE  \A j \in DOMAIN Without(cache, k) :
                j \in DOMAIN cache /\ Without(cache, k)[j] = cache[j]
  BY DEF Without
<1>1. CASE Call(t)
  <2>1. ASSUME NEW k \in Key, Remove(t, k)
        PROVE  /\ access_counter' = access_counter /\ pc'[t] = "idle"
               /\ \A j \in DOMAIN cache' : j \in DOMAIN cache /\ cache'[j] = cache[j]
    BY <1>w, <2>1 DEF Remove, perThread
  <2> QED
    BY <1>1, <2>1
    DEF Call, GetLive, GetExpired, InsertCheck, PrefixStart, ClearStart, Goto, TypeOK
<1>2. CASE GetStore(t)
  <2>1. stamp[t] \in Nat
    BY DEF TypeOK
  <2> QED
    BY <1>0, <1>2, <2>1, AccessFacts, ReturnTypes DEF GetStore, Holding
<1>3. CASE InsertPut(t)
  <2> DEFINE e == [last_access |-> stamp[t], created_at |-> now]
  <2>1. key[t] \in Key /\ e \in CacheEntry /\ e.last_access = stamp[t]
    BY <1>3 DEF InsertPut, TypeOK, Locals, InsertSteps, CacheEntry
  <2>2. cache' = With(cache, key[t], e)
    BY <1>3 DEF InsertPut
  <2> HIDE DEF e
  <2>3. \A j \in DOMAIN cache' :
           \/ j \in DOMAIN cache /\ cache'[j] = cache[j]
           \/ j = key[t] /\ cache'[j].last_access = stamp[t]
    BY <2>1, <2>2 DEF With
  <2>4. pc'[t] = "idle"
    BY <1>3, ReturnTypes DEF InsertPut
  <2> QED
    BY <1>3, <2>3, <2>4 DEF InsertPut, Holding
<1>4. CASE Expire(t)
  <2>1. \A j \in DOMAIN cache' : j \in DOMAIN cache /\ cache'[j] = cache[j]
    BY <1>w, <1>4 DEF Expire
  <2> QED
    BY <1>4, <2>1, ReturnTypes DEF Expire
<1>6. CASE \E k \in Key : RemoveVictim(t, k)
  <2>1. \A j \in DOMAIN cache' : j \in DOMAIN cache /\ cache'[j] = cache[j]
    BY <1>w, <1>6 DEF RemoveVictim
  <2> QED
    BY <1>6, <2>1 DEF RemoveVictim
<1>5. CASE RemovalDone(t)
  BY <1>5, ReturnTypes DEF RemovalDone
<1> QED
  BY <1>1, <1>2, <1>3, <1>4, <1>5, <1>6
  DEF Continue, GetCount, EvictWon, EvictLost, EvictChosen, EvictDone, InsertCount,
      PrefixFound, EvictScan, PrefixFind, Goto, FetchAdd, TypeOK

LEMMA AlwaysApart == Spec => []StampsApart
<1>1. Init => StampsApart
  BY DEF Init, StampsApart, Holding, StampsUnique
<1>2. ASSUME Types, StampsApart, [Next]_vars PROVE StampsApart'
  <2> USE DEF StampsApart, Holding, StampsUnique
  <2>1. CASE Idles
    BY <1>2, <2>1 DEF Idles
  <2>2. ASSUME NEW t \in Thread, Call(t) \/ Continue(t) PROVE StampsApart'
    <3>0. /\ \A s \in Thread \ {t} : pc'[s] = pc[s] /\ stamp'[s] = stamp[s]
          /\ access_counter \in Nat /\ \A s \in Thread : stamp[s] \in Nat
          /\ \A k \in DOMAIN cache : cache[k].last_access \in Nat
      BY <1>2, <2>2, OthersStay DEF Types, TypeOK
    <3>1. CASE /\ stamp'[t] = access_counter /\ access_counter' = access_counter + 1
               /\ cache' = cache
      BY <1>2, <3>0, <3>1
    <3>2. CASE /\ t \in Holding /\ pc'[t] = "idle" /\ access_counter' = access_counter
               /\ \A j \in DOMAIN cache' :
                     \/ j \in DOMAIN cache /\ cache'[j] = cache[j]
                     \/ j = key[t] /\ cache'[j].last_access = stamp[t]
      BY <1>2, <3>0, <3>2
    <3>3. CASE /\ pc'[t] \notin {"getStore", "put"} /\ access_counter' = access_counter
               /\ \A j \in DOMAIN cache' : j \in DOMAIN cache /\ cache'[j] = cache[j]
      BY <1>2, <3>0, <3>3
    <3> QED
      BY <1>2, <2>2, <3>1, <3>2, <3>3, StampEffect
  <2> QED
    BY <1>2, <2>1, <2>2, StepCases
<1> QED
  BY <1>1, <1>2, AlwaysTypes, PTL DEF Spec

\* No two entries have the same access count, however gets, puts and evictions
\* interleave (cold.rs:87, 103): a count is handed out once, and moves from the
\* call that fetched it into one entry.
THEOREM StampsNeverTie == Spec => []StampsUnique
<1>1. StampsApart => StampsUnique
  BY DEF StampsApart
<1> QED
  BY <1>1, AlwaysApart, PTL

-----------------------------------------------------------------------------
\* A call that evicts or removes a prefix has removed what is no longer among
\* its victims at most.
ReportCovers ==
    \A t \in Thread : pc[t] \in {"evict", "drop"} =>
        took[t] + Cardinality(victims[t]) <= count[t]

\* As many keys as pairs, or fewer.
LEMMA KeysOfPairs ==
  ASSUME NEW H \in SUBSET (Nat \X Key), IsFiniteSet(H)
  PROVE  LET K == {x[2] : x \in H} IN
         /\ IsFiniteSet(K) /\ Cardinality(K) <= Cardinality(H)
<1> DEFINE K == {x[2] : x \in H}
           f == [x \in H |-> x[2]]
<1>1. f \in Surjection(H, K)
  BY DEF Surjection
<1> QED
  BY <1>1, FS_Surjection

LEMMA ReportEffect ==
  ASSUME Types, NEW t \in Thread, Call(t) \/ Continue(t), pc'[t] \in {"evict", "drop"}
  PROVE  \/ took'[t] = 0 /\ Cardinality(victims'[t]) <= count'[t]
         \/ /\ pc[t] = pc'[t] /\ count'[t] = count[t]
            /\ \E k \in victims[t] : victims'[t] = victims[t] \ {k} /\ took'[t] \in {took[t], took[t] + 1}
<1> USE DEF Types, TypeOK
<1>1. CASE EvictChosen(t)
  <2>1. /\ took'[t] = 0 /\ victims'[t] = {x[2] : x \in heap[t]} /\ count'[t] = Cardinality(heap[t])
    BY <1>1 DEF EvictChosen, Locals
  <2>2. Cardinality({x[2] : x \in heap[t]}) <= Cardinality(heap[t])
    BY KeysOfPairs DEF Locals
  <2> QED
    BY <2>1, <2>2
<1>2. CASE PrefixFound(t)
  <2>1. took'[t] = 0 /\ victims'[t] = victims[t] /\ count'[t] = Cardinality(victims[t])
    BY <1>2 DEF PrefixFound, Locals
  <2>2. Cardinality(victims[t]) \in Nat
    BY ColdConstants, FS_Subset, FS_CardinalityType
  <2> QED
    BY <2>1, <2>2
<1>3. CASE \E k \in Key : RemoveVictim(t, k)
  BY <1>3 DEF RemoveVictim
<1>4. ASSUME pc'[t] = "idle" PROVE FALSE
  BY <1>4
<1>5. CASE GetStore(t) \/ Expire(t) \/ InsertPut(t) \/ RemovalDone(t)
  BY <1>4, <1>5, ReturnTypes DEF GetStore, Expire, InsertPut, RemovalDone
<1>6. CASE Call(t)
  BY <1>6
  DEF Call, GetLive, GetExpired, InsertCheck, Remove, PrefixStart, ClearStart, Goto, perThread
<1> QED
  BY <1>1, <1>2, <1>3, <1>5, <1>6
  DEF Continue, GetCount, EvictWon, EvictLost, EvictDone, InsertCount, EvictScan,
      PrefixFind, Goto, FetchAdd

LEMMA AlwaysCovers == Spec => []ReportCovers
<1>1. Init => ReportCovers
  BY DEF Init, ReportCovers
<1>2. ASSUME Types, ReportCovers, [Next]_vars PROVE ReportCovers'
  <2>1. CASE Idles
    BY <1>2, <2>1 DEF Idles, ReportCovers
  <2>2. ASSUME NEW t \in Thread, Call(t) \/ Continue(t) PROVE ReportCovers'
    <3>1. \A s \in Thread \ {t} : /\ pc'[s] = pc[s] /\ victims'[s] = victims[s]
                                  /\ count'[s] = count[s] /\ took'[s] = took[s]
      BY <1>2, <2>2, OthersStay
    <3>2. ASSUME pc'[t] \in {"evict", "drop"}
          PROVE  took'[t] + Cardinality(victims'[t]) <= count'[t]
      <4>1. CASE took'[t] = 0 /\ Cardinality(victims'[t]) <= count'[t]
        <5>1. Cardinality(victims'[t]) \in Nat
          <6>1. victims'[t] \in SUBSET Key
            BY <1>2, <2>2, StepTypes DEF Types, TypeOK
          <6> QED
            BY <6>1, ColdConstants, FS_Subset, FS_CardinalityType
        <5> QED
          BY <4>1, <5>1
      <4>2. ASSUME pc[t] = pc'[t], count'[t] = count[t], NEW k \in victims[t],
                   victims'[t] = victims[t] \ {k}, took'[t] \in {took[t], took[t] + 1}
            PROVE  took'[t] + Cardinality(victims'[t]) <= count'[t]
        <5>1. /\ victims[t] \in SUBSET Key /\ took[t] \in Nat /\ count[t] \in Nat
              /\ took[t] + Cardinality(victims[t]) <= count[t]
          BY <1>2, <3>2, <4>2 DEF Types, TypeOK, ReportCovers
        <5>2. /\ Cardinality(victims[t]) \in Nat
              /\ Cardinality(victims[t] \ {k}) = Cardinality(victims[t]) - 1
          BY <5>1, ColdConstants, FS_Subset, FS_CardinalityType, FS_RemoveElement
        <5> QED
          BY <4>2, <5>1, <5>2
      <4> QED
        BY <1>2, <2>2, <3>2, <4>1, <4>2, ReportEffect
    <3> QED
      BY <1>2, <3>1, <3>2 DEF ReportCovers
  <2> QED
    BY <1>2, <2>1, <2>2, StepCases
<1> QED
  BY <1>1, <1>2, AlwaysTypes, PTL DEF Spec

\* No insert or remove_by_prefix reports less than it removed (cold.rs:154,
\* 191): the report counts the candidates before they are removed, and each
\* removal is of a candidate that is not removed again.
THEOREM NeverReportsLess == Spec => []ReportsNoLess
<1>1. Types /\ ReportCovers => ReportsNoLess
  <2> SUFFICES ASSUME Types, ReportCovers, NEW t \in Thread, pc[t] \in {"evict", "drop"}
               PROVE  took[t] <= count[t]
    BY DEF ReportsNoLess
  <2>1. Cardinality(victims[t]) \in Nat
    BY ColdConstants, FS_Subset, FS_CardinalityType DEF Types, TypeOK
  <2> QED
    BY <2>1 DEF ReportCovers, Types, TypeOK
<1> QED
  BY <1>1, AlwaysTypes, AlwaysCovers, PTL

-----------------------------------------------------------------------------
\* Access counts below a bound have a greatest one.
LEMMA NewestFacts ==
  ASSUME NEW H \in SUBSET (Nat \X Key), H # {}, NEW n \in Nat, \A x \in H : x[1] < n
  PROVE  Newest(H) \in H /\ \A y \in H : y[1] <= Newest(H)[1]
<1> DEFINE Gaps == {i \in Nat : \E x \in H : i = n - x[1]}
           Less == {p \in Nat \X Nat : p[1] < p[2]}
<1>1. Gaps # {}
  <2>1. PICK x \in H : TRUE
    OBVIOUS
  <2>2. x[1] \in Nat /\ x[1] < n
    OBVIOUS
  <2>3. n - x[1] \in Gaps
    BY <2>2
  <2> QED
    BY <2>3
<1>2. OpToRel(<, Nat) = Less
  BY Zenon DEF OpToRel
<1>3. IsWellFoundedOn(Less, Nat)
  BY <1>2, NatLessThanWellFounded, Zenon
<1>4. PICK i \in Gaps : \A j \in Gaps : ~(<<j, i>> \in Less)
  <2> HIDE DEF Gaps, Less
  <2>1. Gaps \subseteq Nat
    BY DEF Gaps
  <2> QED
    BY <1>1, <1>3, <2>1, WFMin
<1>5. ASSUME NEW j \in Gaps PROVE i <= j
  <2>1. ASSUME j < i PROVE FALSE
    <3>1. j \in Nat /\ i \in Nat
      OBVIOUS
    <3>2. <<j, i>> \in Less
      BY <2>1, <3>1
    <3> HIDE DEF Gaps, Less
    <3> QED
      BY <1>4, <3>2
  <2>2. j \in Nat /\ i \in Nat
    OBVIOUS
  <2> HIDE DEF Gaps
  <2> QED
    BY <2>1, <2>2
<1>6. PICK x \in H : i = n - x[1]
  OBVIOUS
<1>7. ASSUME NEW y \in H PROVE y[1] <= x[1]
  <2>1. y[1] \in Nat /\ y[1] < n /\ x[1] \in Nat /\ x[1] < n
    OBVIOUS
  <2>2. n - y[1] \in Gaps
    BY <2>1
  <2> QED
    BY <1>5, <1>6, <2>1, <2>2
<1> QED
  BY <1>7 DEF Newest

\* The candidates an eviction has so far.
OldestOf(H, S) ==
    /\ H \subseteq S
    /\ Cardinality(H) = Min({Batch, Cardinality(S)})
    /\ \A x \in H, y \in S \ H : x[1] <= y[1]

\* One step of the heap keeps the Batch oldest of the pairs it was offered.
LEMMA OfferedOldest ==
  ASSUME NEW S \in SUBSET (Nat \X Key), IsFiniteSet(S), NEW H, OldestOf(H, S),
         NEW n \in Nat, \A y \in S : y[1] < n,
         NEW x \in Nat \X Key, x \notin S
  PROVE  OldestOf(Offered(H, x), S \cup {x})
<1>1. /\ H \in SUBSET (Nat \X Key) /\ IsFiniteSet(H)
      /\ Cardinality(S) \in Nat /\ Cardinality(H) \in Nat /\ Batch \in Nat /\ Batch > 0
      /\ x \notin H
  BY FS_Subset, FS_CardinalityType, BatchFact DEF OldestOf
<1>2. Cardinality(S \cup {x}) = Cardinality(S) + 1
  BY FS_AddElement
<1>3. Cardinality(H) = IF Batch <= Cardinality(S) THEN Batch ELSE Cardinality(S)
  BY <1>1, MinOfTwo DEF OldestOf
<1>4. Min({Batch, Cardinality(S) + 1})
        = IF Batch <= Cardinality(S) + 1 THEN Batch ELSE Cardinality(S) + 1
  BY <1>1, MinOfTwo
<1>5. CASE Cardinality(H) < Batch
  <2>1. H = S
    BY <1>1, <1>3, <1>5, FS_Subset DEF OldestOf
  <2>2. Offered(H, x) = S \cup {x}
    BY <1>5, <2>1 DEF Offered
  <2> QED
    BY <1>1, <1>2, <1>3, <1>4, <1>5, <2>1, <2>2 DEF OldestOf
<1>6. CASE ~(Cardinality(H) < Batch)
  <2> DEFINE w == Newest(H)
  <2>1. /\ Cardinality(H) = Batch /\ Cardinality(S) >= Batch
        /\ Min({Batch, Cardinality(S \cup {x})}) = Batch
    <3>1. Batch <= Cardinality(S)
      BY <1>1, <1>3, <1>6
    <3>2. Cardinality(H) = Batch
      BY <1>3, <3>1
    <3>3. Batch <= Cardinality(S) + 1
      BY <1>1, <3>1
    <3> QED
      BY <1>2, <1>4, <3>1, <3>2, <3>3
  <2>2. w \in H /\ \A y \in H : y[1] <= w[1]
    <3>1. H # {}
      BY <1>1, <2>1, FS_EmptySet
    <3>2. \A y \in H : y[1] < n
      BY DEF OldestOf
    <3> QED
      BY <1>1, <3>1, <3>2, NewestFacts
  <2> HIDE DEF w
  <2>3. Offered(H, x) = IF x[1] < w[1] THEN (H \ {w}) \cup {x} ELSE H
    BY <1>6 DEF Offered, w
  <2>4. \A y \in S \cup {x} : y[1] \in Nat
    OBVIOUS
  <2>5. CASE x[1] < w[1]
    <3>1. Cardinality(H \ {w}) = Batch - 1 /\ IsFiniteSet(H \ {w})
      BY <1>1, <2>1, <2>2, FS_RemoveElement
    <3>2. Cardinality((H \ {w}) \cup {x}) = Batch
      <4>1. x \notin H \ {w}
        BY <1>1
      <4>2. Cardinality((H \ {w}) \cup {x}) = Cardinality(H \ {w}) + 1
        BY <3>1, <4>1, FS_AddElement
      <4> QED
        BY <1>1, <3>1, <4>2
    <3>3. \A y \in (H \ {w}) \cup {x}, z \in (S \cup {x}) \ ((H \ {w}) \cup {x}) : y[1] <= z[1]
      BY <1>1, <2>2, <2>4, <2>5 DEF OldestOf
    <3> QED
      BY <2>1, <2>3, <2>5, <3>2, <3>3 DEF OldestOf
  <2>6. CASE ~(x[1] < w[1])
    BY <1>1, <2>1, <2>2, <2>3, <2>4, <2>6 DEF OldestOf
  <2> QED
    BY <2>5, <2>6
<1> QED
  BY <1>5, <1>6

\* A scan has met keys it does not visit again, at counts handed out before.
Scanned ==
    \A t \in Thread : pc[t] = "scan" =>
        /\ OldestOf(heap[t], seen[t])
        /\ \A x \in seen[t] : x[2] \notin todo[t] /\ x[1] < access_counter

LEMMA ScanEffect ==
  ASSUME Types, NEW t \in Thread, Call(t) \/ Continue(t), pc'[t] = "scan"
  PROVE  \/ heap'[t] = {} /\ seen'[t] = {}
         \/ pc[t] = "scan" /\ heap'[t] = heap[t] /\ seen'[t] = seen[t] /\ todo'[t] \subseteq todo[t]
         \/ /\ pc[t] = "scan"
            /\ \E k \in todo[t] \cap DOMAIN cache :
                  LET x == <<cache[k].last_access, k>> IN
                  /\ heap'[t] = Offered(heap[t], x) /\ seen'[t] = seen[t] \cup {x}
                  /\ todo'[t] = todo[t] \ {k}
<1> USE DEF Types, TypeOK
<1>1. CASE EvictWon(t)
  BY <1>1 DEF EvictWon, Locals
<1>2. ASSUME NEW k \in Key, EvictScan(t, k)
      PROVE  /\ pc[t] = "scan" /\ k \in todo[t] /\ todo'[t] = todo[t] \ {k}
             /\ k \notin DOMAIN cache => heap'[t] = heap[t] /\ seen'[t] = seen[t]
             /\ k \in DOMAIN cache => LET x == <<cache[k].last_access, k>> IN
                  heap'[t] = Offered(heap[t], x) /\ seen'[t] = seen[t] \cup {x}
  BY <1>2 DEF EvictScan
<1>3. CASE GetStore(t) \/ Expire(t) \/ InsertPut(t) \/ RemovalDone(t)
  BY <1>3, ReturnTypes DEF GetStore, Expire, InsertPut, RemovalDone
<1>4. CASE Call(t)
  BY <1>4
  DEF Call, GetLive, GetExpired, InsertCheck, Remove, PrefixStart, ClearStart, Goto, perThread
<1>5. CASE \E k \in Key : EvictScan(t, k)
  BY <1>2, <1>5
<1> QED
  BY <1>1, <1>3, <1>4, <1>5
  DEF Continue, GetCount, EvictLost, EvictChosen, EvictDone, InsertCount, RemoveVictim,
      PrefixFound, PrefixFind, Goto, FetchAdd

LEMMA AlwaysScanned == Spec => []Scanned
<1>1. Init => Scanned
  BY DEF Init, Scanned
<1>2. ASSUME Types, StampsApart, Scanned, [Next]_vars PROVE Scanned'
  <2>1. CASE Idles
    BY <1>2, <2>1 DEF Idles, Scanned, OldestOf
  <2>2. ASSUME NEW t \in Thread, Call(t) \/ Continue(t) PROVE Scanned'
    <3>1. \A s \in Thread \ {t} : /\ pc'[s] = pc[s] /\ heap'[s] = heap[s]
                                  /\ seen'[s] = seen[s] /\ todo'[s] = todo[s]
      BY <1>2, <2>2, OthersStay
    <3>2. access_counter' >= access_counter /\ access_counter \in Nat /\ access_counter' \in Nat
      <4>1. access_counter \in Nat
        BY <1>2 DEF Types, TypeOK
      <4> QED
        BY <1>2, <2>2, <4>1, StampEffect
    <3>3. ASSUME pc'[t] = "scan"
          PROVE  /\ OldestOf(heap'[t], seen'[t])
                 /\ \A x \in seen'[t] : x[2] \notin todo'[t] /\ x[1] < access_counter'
      <4>0. /\ heap[t] \in SUBSET (Nat \X Key) /\ seen[t] \in SUBSET (Nat \X Key)
            /\ IsFiniteSet(seen[t])
        BY <1>2 DEF Types, TypeOK, Locals
      <4>1. CASE heap'[t] = {} /\ seen'[t] = {}
        BY <4>1, FS_EmptySet, BatchFact, MinOfTwo DEF OldestOf
      <4>2. CASE /\ pc[t] = "scan" /\ heap'[t] = heap[t] /\ seen'[t] = seen[t]
                 /\ todo'[t] \subseteq todo[t]
        BY <1>2, <3>2, <4>0, <4>2 DEF Scanned
      <4>3. ASSUME pc[t] = "scan", NEW k \in todo[t] \cap DOMAIN cache, NEW x,
                   x = <<cache[k].last_access, k>>,
                   heap'[t] = Offered(heap[t], x), seen'[t] = seen[t] \cup {x},
                   todo'[t] = todo[t] \ {k}
            PROVE  /\ OldestOf(heap'[t], seen'[t])
                   /\ \A y \in seen'[t] : y[2] \notin todo'[t] /\ y[1] < access_counter'
        <5>1. /\ OldestOf(heap[t], seen[t])
              /\ \A y \in seen[t] : y[2] \notin todo[t] /\ y[1] < access_counter
          BY <1>2, <4>3 DEF Scanned
        <5>2. x \in Nat \X Key /\ x[1] = cache[k].last_access /\ x[2] = k
          BY <1>2, <4>3 DEF Types, TypeOK
        <5>3. x[1] < access_counter /\ x \notin seen[t]
          BY <1>2, <4>3, <5>1, <5>2 DEF StampsApart
        <5>4. OldestOf(heap'[t], seen'[t])
          BY <3>2, <4>0, <4>3, <5>1, <5>2, <5>3, OfferedOldest
        <5>5. ASSUME NEW y \in seen'[t] PROVE y[2] \notin todo'[t] /\ y[1] < access_counter'
          BY <3>2, <4>0, <4>3, <5>1, <5>2, <5>3
        <5> QED
          BY <5>4, <5>5
      <4> QED
        BY <1>2, <2>2, <3>3, <4>1, <4>2, <4>3, ScanEffect
    <3>4. ASSUME NEW s \in Thread, pc'[s] = "scan"
          PROVE  /\ OldestOf(heap'[s], seen'[s])
                 /\ \A x \in seen'[s] : x[2] \notin todo'[s] /\ x[1] < access_counter'
      <4>1. CASE s = t
        BY <3>3, <3>4, <4>1
      <4>2. CASE s # t
        <5>1. /\ OldestOf(heap[s], seen[s]) /\ seen[s] \in SUBSET (Nat \X Key)
              /\ \A x \in seen[s] : x[2] \notin todo[s] /\ x[1] < access_counter
          BY <1>2, <3>1, <3>4, <4>2 DEF Scanned, Types, TypeOK
        <5> QED
          BY <3>1, <3>2, <4>2, <5>1
      <4> QED
        BY <4>1, <4>2
    <3> QED
      BY <3>4 DEF Scanned, OldestOf
  <2> QED
    BY <1>2, <2>1, <2>2, StepCases
<1> QED
  BY <1>1, <1>2, AlwaysTypes, AlwaysApart, PTL DEF Spec

\* The bounded heap ends with the Batch oldest of the entries the scan met,
\* although accesses and removals go on meanwhile (cold.rs:140-152).
THEOREM EvictsOldestSeen == Spec => []HeapIsOldestSeen
<1>1. Scanned => HeapIsOldestSeen
  BY DEF Scanned, OldestOf, HeapIsOldestSeen
<1> QED
  BY <1>1, AlwaysScanned, PTL

-----------------------------------------------------------------------------
\* Inserts past their length check, each of which will add an entry at most.
Pending == {t \in Thread : pc[t] \in {"count", "put"}}
Load    == Len(cache) + Cardinality(Pending)
Limit   == Max({MaxEntries, 1}) + Cardinality(Thread) - 1 + skipped

\* The eviction under way will remove an entry, whatever the other threads do.
Fruitful(t) ==
    /\ pc[t] = "scan" => /\ \A x \in heap[t] : x[2] \in DOMAIN cache
                         /\ heap[t] # {} \/ todo[t] \cap DOMAIN cache # {}
    /\ pc[t] = "evict" => victims[t] # {} /\ victims[t] \subseteq DOMAIN cache

\* The evicting thread will become pending in turn, so there is room for its
\* entry or it is to remove one.
RoomForAll ==
    /\ Load <= Limit
    /\ \A t \in Evictors : Load = Limit => Fruitful(t)

\* The kinds of step, by what they do to the entries and the pending inserts.
Passes(t) ==
    /\ DOMAIN cache' = DOMAIN cache /\ skipped' = skipped /\ Len(cache) < MaxEntries
    /\ t \notin Pending /\ t \notin Evictors /\ pc'[t] = "count"
Skips(t) ==
    /\ DOMAIN cache' = DOMAIN cache /\ skipped' = skipped + 1
    /\ t \notin Pending /\ t \notin Evictors /\ pc'[t] = "count"
HasEvicted(t) ==
    /\ DOMAIN cache' = DOMAIN cache /\ skipped' = skipped
    /\ pc[t] = "evict" /\ victims[t] = {} /\ pc'[t] = "count"
Puts(t) ==
    /\ \E k \in Key : DOMAIN cache' = DOMAIN cache \cup {k}
    /\ skipped' = skipped /\ t \in Pending /\ pc'[t] = "idle"
Takes(t) ==
    /\ skipped' = skipped /\ t \notin Pending /\ pc'[t] \notin {"count", "put"}
    /\ \E k \in Key : /\ DOMAIN cache' = DOMAIN cache \ {k}
                      /\ pc'[t] \in {"scan", "evict"} => pc[t] = "evict" /\ k \in victims[t]
                      /\ pc[t] = "evict" => pc'[t] = "evict" /\ victims'[t] = victims[t] \ {k}
Scans(t) ==
    \/ pc[t] = "cas" /\ pc'[t] = "scan" /\ heap'[t] = {} /\ todo'[t] = Key
    \/ /\ pc[t] = "scan" /\ pc'[t] = "scan"
       /\ \E k \in todo[t] :
             /\ todo'[t] = todo[t] \ {k}
             /\ IF k \in DOMAIN cache
                THEN heap'[t] # {} /\ \A x \in heap'[t] : x \in heap[t] \/ x[2] = k
                ELSE heap'[t] = heap[t]
    \/ /\ pc[t] = "scan" /\ pc'[t] = "evict" /\ todo[t] = {}
       /\ victims'[t] = {x[2] : x \in heap[t]}
Rests(t) ==
    /\ DOMAIN cache' = DOMAIN cache /\ skipped' = skipped
    /\ pc[t] \in {"count", "put"} <=> pc'[t] \in {"count", "put"}
    /\ Scans(t) \/ (pc'[t] \notin {"scan", "evict"})

LoadFacts ==
    /\ Len(cache) \in Nat /\ Cardinality(Pending) \in Nat
    /\ Cardinality(Thread) \in Nat /\ skipped \in Nat
    /\ IsFiniteSet(DOMAIN cache) /\ IsFiniteSet(Pending)
    /\ \A t \in Thread \ Pending : Cardinality(Pending) <= Cardinality(Thread) - 1
    /\ Limit \in Int /\ Limit >= MaxEntries + Cardinality(Thread) - 1 + skipped
    /\ Limit >= Cardinality(Thread) + skipped

LEMMA LoadTypes == Types => LoadFacts
<1> SUFFICES ASSUME Types PROVE LoadFacts
  OBVIOUS
<1>1. IsFiniteSet(DOMAIN cache) /\ Len(cache) \in Nat
  BY ColdConstants, FS_Subset, FS_CardinalityType DEF Types, TypeOK, Len
<1>2. Pending \in SUBSET Thread
  BY DEF Pending
<1>3. IsFiniteSet(Pending) /\ Cardinality(Pending) \in Nat /\ Cardinality(Thread) \in Nat
  BY <1>2, ColdConstants, FS_Subset, FS_CardinalityType
<1>4. ASSUME NEW t \in Thread \ Pending PROVE Cardinality(Pending) <= Cardinality(Thread) - 1
  <2>1. Pending \in SUBSET (Thread \ {t})
    BY <1>2
  <2>2. IsFiniteSet(Thread \ {t}) /\ Cardinality(Thread \ {t}) = Cardinality(Thread) - 1
    BY ColdConstants, FS_RemoveElement
  <2> QED
    BY <2>1, <2>2, FS_Subset
<1>5. skipped \in Nat /\ MaxEntries \in Nat
  BY ColdConstants DEF Types, TypeOK
<1>6. /\ Max({MaxEntries, 1}) \in Nat /\ Max({MaxEntries, 1}) >= MaxEntries
      /\ Max({MaxEntries, 1}) >= 1
  BY <1>5, MaxOfTwo
<1> QED
  BY <1>1, <1>3, <1>4, <1>5, <1>6 DEF Limit, LoadFacts

LEMMA LoadTypesNext == Types' => LoadFacts'
  BY LoadTypes, PTL

LEMMA LoadEffect ==
  ASSUME Types, NEW t \in Thread, Call(t) \/ Continue(t)
  PROVE  \/ Passes(t) \/ Skips(t) \/ HasEvicted(t) \/ Puts(t) \/ Takes(t) \/ Rests(t)
<1> USE DEF Types
<1>0. IsCache(cache)
  BY DEF TypeOK, IsCache, CacheEntry
<1>r. ASSUME NEW k PROVE DOMAIN Without(cache, k) = DOMAIN cache \ {k}
  BY DEF Without
<1>1. ASSUME NEW k \in Key, InsertCheck(t, k) PROVE Passes(t) \/ Rests(t)
  <2>1. Len(cache) \in Nat /\ MaxEntries \in Nat
    BY LoadTypes, ColdConstants DEF LoadFacts
  <2>2. /\ pc[t] = "idle" /\ cache' = cache /\ skipped' = skipped
        /\ pc'[t] = IF Len(cache) >= MaxEntries THEN "cas" ELSE "count"
    BY <1>1 DEF InsertCheck, Goto, TypeOK
  <2>3. CASE Len(cache) < MaxEntries
    BY <2>1, <2>2, <2>3 DEF Passes, Pending, Evictors
  <2>4. CASE ~(Len(cache) < MaxEntries)
    BY <2>1, <2>2, <2>4 DEF Rests
  <2> QED
    BY <2>3, <2>4
<1>2. ASSUME NEW k \in Key, GetLive(t, k) \/ GetExpired(t, k) PROVE Rests(t)
  BY <1>2 DEF GetLive, GetExpired, Goto, TypeOK, Rests
<1>3. ASSUME NEW k \in Key, Remove(t, k) PROVE Takes(t)
  BY <1>r, <1>3 DEF Remove, perThread, Takes, Pending
<1>4. ASSUME (\E P \in UrlPrefix : PrefixStart(t, P)) \/ ClearStart(t) PROVE Rests(t)
  BY <1>4 DEF PrefixStart, ClearStart, Goto, TypeOK, Rests
<1>5. ASSUME GetStore(t) PROVE Rests(t)
  <2>1. stamp[t] \in Nat
    BY DEF TypeOK
  <2>2. DOMAIN cache' = DOMAIN cache
    BY <1>0, <1>5, <2>1, AccessFacts DEF GetStore
  <2> QED
    BY <1>5, <2>2, ReturnTypes DEF GetStore, Rests
<1>6. ASSUME Expire(t) PROVE Takes(t)
  <2>1. pc[t] = "expire" /\ pc'[t] = "idle" /\ key[t] \in Key /\ skipped' = skipped
    BY <1>6, ReturnTypes DEF Expire, Locals, GetSteps
  <2> QED
    BY <1>r, <1>6, <2>1 DEF Expire, Takes, Pending
<1>7. ASSUME InsertPut(t) PROVE Puts(t)
  <2>1. pc[t] = "put" /\ pc'[t] = "idle" /\ key[t] \in Key /\ skipped' = skipped
    BY <1>7, ReturnTypes DEF InsertPut, Locals, InsertSteps
  <2>2. DOMAIN cache' = DOMAIN cache \cup {key[t]}
    BY <1>7 DEF InsertPut, With
  <2> QED
    BY <2>1, <2>2 DEF Puts, Pending
<1>8. ASSUME NEW k \in Key, RemoveVictim(t, k) PROVE Takes(t)
  BY <1>r, <1>8 DEF RemoveVictim, TypeOK, Takes, Pending
<1>9. ASSUME RemovalDone(t) PROVE Rests(t)
  BY <1>9, ReturnTypes DEF RemovalDone, Rests
<1>10. ASSUME EvictWon(t) PROVE Rests(t)
  BY <1>10 DEF EvictWon, Goto, TypeOK, Locals, Rests, Scans
<1>11. ASSUME EvictLost(t) PROVE Skips(t)
  BY <1>11 DEF EvictLost, Goto, TypeOK, Skips, Pending, Evictors
<1>12. ASSUME EvictDone(t) PROVE HasEvicted(t)
  BY <1>12 DEF EvictDone, Goto, TypeOK, HasEvicted
<1>13. ASSUME EvictChosen(t) PROVE Rests(t)
  BY <1>13 DEF EvictChosen, Goto, TypeOK, Rests, Scans
<1>14. ASSUME NEW k \in Key, EvictScan(t, k) PROVE Rests(t)
  <2> DEFINE x == <<cache[k].last_access, k>>
  <2>1. /\ pc[t] = "scan" /\ pc'[t] = "scan" /\ k \in todo[t] /\ todo'[t] = todo[t] \ {k}
        /\ DOMAIN cache' = DOMAIN cache /\ skipped' = skipped
        /\ k \notin DOMAIN cache => heap'[t] = heap[t]
        /\ k \in DOMAIN cache => heap'[t] = Offered(heap[t], x)
    BY <1>14 DEF EvictScan, TypeOK
  <2>2. CASE k \in DOMAIN cache
    <3>1. x \in Nat \X Key /\ x[2] = k
      BY <2>2 DEF TypeOK
    <3>2. heap[t] \in SUBSET (Nat \X Key) /\ IsFiniteSet(heap[t])
      BY DEF TypeOK, Locals
    <3> HIDE DEF x
    <3>3. heap'[t] # {} /\ heap'[t] \subseteq heap[t] \cup {x}
      BY <2>1, <2>2, <3>1, <3>2, OfferedTypes
    <3> QED
      BY <2>1, <2>2, <3>1, <3>3 DEF Rests, Scans
  <2>3. CASE k \notin DOMAIN cache
    BY <2>1, <2>3 DEF Rests, Scans
  <2> QED
    BY <2>2, <2>3
<1>15. ASSUME GetCount(t) \/ InsertCount(t) \/ PrefixFound(t) \/ \E k \in Key : PrefixFind(t, k)
       PROVE  Rests(t)
  BY <1>15
  DEF GetCount, InsertCount, PrefixFound, PrefixFind, FetchAdd, Goto, TypeOK, Rests
<1> QED
  BY <1>1, <1>2, <1>3, <1>4, <1>5, <1>6, <1>7, <1>8, <1>9, <1>10, <1>11, <1>12, <1>13, <1>14, <1>15
  DEF Call, Continue

LEMMA RoomStep ==
  ASSUME Types, Types', EvictorAlone, RoomForAll, NEW t \in Thread, Call(t) \/ Continue(t)
  PROVE  RoomForAll'
<1> DEFINE N  == Cardinality(DOMAIN cache)
           N2 == Cardinality(DOMAIN cache')
           P  == Cardinality(Pending)
           P2 == Cardinality(Pending')
           T  == Cardinality(Thread)
           L  == Limit
           L2 == Limit'
<1>1. /\ N \in Nat /\ P \in Nat /\ T \in Nat /\ skipped \in Nat /\ L \in Int
      /\ IsFiniteSet(DOMAIN cache) /\ IsFiniteSet(Pending)
      /\ L >= MaxEntries + T - 1 + skipped /\ L >= T + skipped
      /\ \A s \in Thread \ Pending : P <= T - 1
      /\ MaxEntries \in Nat
  BY LoadTypes, ColdConstants DEF Len, LoadFacts
<1>2. /\ N2 \in Nat /\ P2 \in Nat /\ L2 \in Int
      /\ \A s \in Thread \ Pending' : P2 <= T - 1
  BY LoadTypesNext DEF Len, LoadFacts
<1>3. \A s \in Thread \ {t} :
         /\ pc'[s] = pc[s] /\ heap'[s] = heap[s] /\ todo'[s] = todo[s] /\ victims'[s] = victims[s]
  BY OthersStay
<1>4. N + P <= L /\ \A s \in Evictors : N + P = L => Fruitful(s)
  BY DEF RoomForAll, Load, Len
<1>5. SUFFICES N2 + P2 <= L2 /\ \A s \in Evictors' : N2 + P2 = L2 => Fruitful(s)'
  BY DEF RoomForAll, Load, Len
<1>6. Max({MaxEntries, 1}) \in Nat
  BY <1>1, MaxOfTwo
<1>7. (skipped' = skipped => L2 = L) /\ (skipped' = skipped + 1 => L2 = L + 1)
  BY <1>1, <1>6 DEF Limit
\* Who is pending after the step.
<1>8. t \notin Pending /\ pc'[t] = "count" => P2 = P + 1
  <2> SUFFICES ASSUME t \notin Pending, pc'[t] = "count" PROVE P2 = P + 1
    OBVIOUS
  <2>1. Pending' = Pending \cup {t}
    BY <1>3 DEF Pending
  <2> QED
    BY <1>1, <2>1, FS_AddElement
<1>9. t \in Pending /\ pc'[t] = "idle" => P2 = P - 1
  <2> SUFFICES ASSUME t \in Pending, pc'[t] = "idle" PROVE P2 = P - 1
    OBVIOUS
  <2>1. Pending' = Pending \ {t}
    BY <1>3 DEF Pending
  <2> QED
    BY <1>1, <2>1, FS_RemoveElement
<1>10. (pc[t] \in {"count", "put"} <=> pc'[t] \in {"count", "put"}) => P2 = P
  <2> SUFFICES ASSUME pc[t] \in {"count", "put"} <=> pc'[t] \in {"count", "put"} PROVE P2 = P
    OBVIOUS
  <2>1. Pending' = Pending
    BY <1>3 DEF Pending
  <2> QED
    BY <2>1
<1> HIDE DEF N, N2, P, P2, T, L, L2
\* An eviction stays fruitful while another thread adds entries.
<1>11. ASSUME DOMAIN cache \subseteq DOMAIN cache', NEW s \in Thread \ {t}, Fruitful(s)
       PROVE  Fruitful(s)'
  BY <1>3, <1>11 DEF Fruitful
<1>12. ASSUME NEW s \in Evictors', s # t PROVE s \in Evictors /\ s \in Thread \ Pending'
  BY <1>3, <1>12 DEF Evictors, Pending
<1>13. CASE Passes(t)
  <2>1. N2 = N /\ N < MaxEntries /\ P2 = P + 1 /\ P <= T - 1 /\ t \notin Evictors'
    BY <1>1, <1>8, <1>13 DEF Passes, Evictors, Len, N, N2
  <2>2. N2 + P2 <= L2
    BY <1>1, <1>7, <1>13, <2>1 DEF Passes
  <2>3. ASSUME NEW s \in Evictors' PROVE N2 + P2 < L2
    <3>1. P2 <= T - 1
      BY <1>2, <1>12, <2>1, <2>3
    <3> QED
      BY <1>1, <1>2, <1>7, <1>13, <2>1, <3>1 DEF Passes
  <2> QED
    BY <1>2, <2>2, <2>3
<1>14. CASE Skips(t)
  <2>1. N2 = N /\ P2 = P + 1 /\ L2 = L + 1 /\ t \notin Evictors'
    BY <1>7, <1>8, <1>14 DEF Skips, Evictors, N, N2
  <2>2. DOMAIN cache' = DOMAIN cache
    BY <1>14 DEF Skips
  <2> QED
    BY <1>1, <1>4, <1>11, <1>12, <2>1, <2>2
<1>15. CASE HasEvicted(t)
  <2>1. N2 = N /\ P2 = P + 1 /\ L2 = L /\ t \in Evictors /\ ~Fruitful(t)
    BY <1>7, <1>8, <1>15 DEF HasEvicted, Evictors, Pending, Fruitful, N, N2
  <2>2. N2 + P2 <= L2
    BY <1>1, <1>4, <2>1
  <2>3. Evictors' = {}
    BY <1>3, <1>15, <2>1 DEF EvictorAlone, Evictors, HasEvicted
  <2> QED
    BY <2>2, <2>3
<1>16. CASE Puts(t)
  <2>1. PICK k \in Key : DOMAIN cache' = DOMAIN cache \cup {k}
    BY <1>16 DEF Puts
  <2>2. N2 <= N + 1
    BY <1>1, <2>1, FS_AddElement DEF N, N2
  <2>3. P2 = P - 1 /\ L2 = L /\ t \notin Evictors'
    BY <1>7, <1>9, <1>16 DEF Puts, Evictors
  <2> QED
    BY <1>1, <1>2, <1>4, <1>11, <1>12, <2>1, <2>2, <2>3
<1>17. CASE Takes(t)
  <2>1. PICK k \in Key : /\ DOMAIN cache' = DOMAIN cache \ {k}
                         /\ pc'[t] \in {"scan", "evict"} => pc[t] = "evict" /\ k \in victims[t]
    BY <1>17 DEF Takes
  <2>2. P2 = P /\ L2 = L
    BY <1>7, <1>10, <1>17 DEF Takes, Pending
  <2>3. CASE k \in DOMAIN cache
    <3>1. N2 = N - 1
      BY <1>1, <2>1, <2>3, FS_RemoveElement DEF N, N2
    <3> QED
      BY <1>1, <1>2, <1>4, <2>2, <3>1
  <2>4. CASE k \notin DOMAIN cache
    <3>1. DOMAIN cache' = DOMAIN cache /\ N2 = N
      BY <2>1, <2>4 DEF N, N2
    <3>2. ASSUME t \in Evictors' PROVE N + P # L
      <4>1. t \in Evictors /\ ~Fruitful(t)
        BY <2>1, <2>4, <3>2 DEF Evictors, Fruitful
      <4> QED
        BY <1>4, <4>1
    <3> QED
      BY <1>4, <1>11, <1>12, <2>2, <3>1, <3>2
  <2> QED
    BY <2>3, <2>4
<1>18. CASE Rests(t)
  <2>1. DOMAIN cache' = DOMAIN cache /\ N2 = N /\ P2 = P /\ L2 = L
    BY <1>7, <1>10, <1>18 DEF Rests, N, N2
  <2>2. ASSUME N + P = L, t \in Evictors' PROVE Fruitful(t)'
    <3>0. Scans(t)
      BY <1>18, <2>2 DEF Rests, Evictors
    <3>1. CASE pc[t] = "cas" /\ pc'[t] = "scan" /\ heap'[t] = {} /\ todo'[t] = Key
      <4>1. P <= T - 1
        BY <1>1, <3>1 DEF Pending
      <4>2. DOMAIN cache # {}
        BY <1>1, <2>2, <4>1, FS_EmptySet DEF N
      <4>3. DOMAIN cache \subseteq Key
        BY DEF Types, TypeOK
      <4> QED
        BY <2>1, <3>1, <4>2, <4>3 DEF Fruitful
    <3>2. ASSUME pc[t] = "scan", pc'[t] = "scan", NEW k \in todo[t], todo'[t] = todo[t] \ {k},
                 IF k \in DOMAIN cache
                 THEN heap'[t] # {} /\ \A x \in heap'[t] : x \in heap[t] \/ x[2] = k
                 ELSE heap'[t] = heap[t]
          PROVE  Fruitful(t)'
      <4>1. /\ \A x \in heap[t] : x[2] \in DOMAIN cache
            /\ heap[t] # {} \/ todo[t] \cap DOMAIN cache # {}
        BY <1>4, <2>2, <3>2 DEF Evictors, Fruitful
      <4>2. CASE k \in DOMAIN cache
        BY <2>1, <3>2, <4>1, <4>2 DEF Fruitful
      <4>3. CASE k \notin DOMAIN cache
        BY <2>1, <3>2, <4>1, <4>3 DEF Fruitful
      <4> QED
        BY <4>2, <4>3
    <3>3. CASE /\ pc[t] = "scan" /\ pc'[t] = "evict" /\ todo[t] = {}
               /\ victims'[t] = {x[2] : x \in heap[t]}
      BY <1>4, <2>1, <2>2, <3>3 DEF Evictors, Fruitful
    <3> QED
      BY <3>0, <3>1, <3>2, <3>3 DEF Scans
  <2> QED
    BY <1>4, <1>11, <1>12, <2>1, <2>2
<1> QED
  BY <1>13, <1>14, <1>15, <1>16, <1>17, <1>18, LoadEffect

LEMMA AlwaysRoom == Spec => []RoomForAll
<1>1. Init => RoomForAll
  <2> SUFFICES ASSUME Init PROVE RoomForAll
    OBVIOUS
  <2>1. DOMAIN cache = {} /\ Pending = {} /\ Evictors = {}
    BY DEF Init, Pending, Evictors
  <2>2. Load = 0
    BY <2>1, FS_EmptySet DEF Load, Len
  <2>3. Limit >= 0 /\ Limit \in Int
    <3>1. LoadFacts
      BY InitTypes, LoadTypes
    <3>2. Limit >= Cardinality(Thread) + skipped /\ Cardinality(Thread) \in Nat /\ skipped \in Nat /\ Limit \in Int
      BY <3>1 DEF LoadFacts
    <3> QED
      BY <3>2
  <2> QED
    BY <2>1, <2>2, <2>3 DEF RoomForAll
<1>2. ASSUME Types, Types', EvictorAlone, RoomForAll, [Next]_vars PROVE RoomForAll'
  <2>1. CASE Idles
    BY <1>2, <2>1
    DEF Idles, RoomForAll, Load, Limit, Len, Pending, Evictors, Fruitful
  <2> QED
    BY <1>2, <2>1, RoomStep, StepCases
<1> QED
  BY <1>1, <1>2, AlwaysTypes, AlwaysAlone, PTL DEF Spec

\* The cache outgrows max_entries by an entry for each other thread between its
\* length check and its put and for each insert that found another thread
\* evicting, and by no more (cold.rs:97-115, 125-131): the thread that evicts
\* makes room for its own entry, whatever the others insert and remove.
THEOREM GrowthBounded == Spec => []BoundedOvershoot
<1>1. Types /\ RoomForAll => BoundedOvershoot
  BY LoadTypes DEF LoadFacts, RoomForAll, Load, Limit, BoundedOvershoot
<1> QED
  BY <1>1, AlwaysTypes, AlwaysRoom, PTL
=============================================================================
