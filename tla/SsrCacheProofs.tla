--------------------------- MODULE SsrCacheProofs ---------------------------
(***************************************************************************)
(* Theorems of SsrCache, for every set of threads, URLs, pages and         *)
(* prefixes, every cache size, every TTL and every bound.                  *)
(***************************************************************************)
EXTENDS SsrCache, HotCacheLemmas

\* A thread in a call knows the call's arguments.
CallOK ==
    \A t \in Thread :
        /\ pc[t] \in {"coldGet", "coldExpire", "promote"} \cup InsertSteps => key[t] \in Key
        /\ pc[t] \in {"promote"} \cup InsertSteps => page[t] \in Html

\* DashMap::remove keeps the cold cache a map of entries.
LEMMA ColdMapTypes ==
  ASSUME NEW m, IsColdMap(m), NEW k \in Key
  PROVE  /\ IsColdMap(Without(m, k))
         /\ DOMAIN Without(m, k) = DOMAIN m \ {k}
         /\ \A j \in DOMAIN m \ {k} : Without(m, k)[j] = m[j]
  BY DEF IsColdMap, Without, Restrict

\* DashMap::insert files the entry and keeps the others.
LEMMA ColdPutTypes ==
  ASSUME NEW m, IsColdMap(m), NEW k \in Key, NEW html \in Html, NEW c \in Nat
  PROVE  LET r == Put(m, k, [html |-> html, created_at |-> c])
         IN  /\ IsColdMap(r)
             /\ DOMAIN r = DOMAIN m \cup {k}
             /\ r[k].html = html
             /\ \A j \in DOMAIN m \ {k} : r[j] = m[j]
  BY DEF IsColdMap, Put

\* get_or_init_hot_cache hands out a well-formed hot cache (ssr.rs:243-262).
LEMMA RefreshedType ==
  ASSUME TypeOK, NEW t \in Thread
  PROVE  IsHotCache(Refreshed(t))
  BY NewHotCacheFacts DEF TypeOK, Refreshed

-----------------------------------------------------------------------------
\* The state a new SsrCache starts in (ssr.rs:104-110) is well-typed.
LEMMA InitTypes == Init => TypeOK /\ CallOK
<1> SUFFICES ASSUME Init  PROVE TypeOK /\ CallOK
  OBVIOUS
<1>1. CallOK
  BY DEF Init, CallOK, InsertSteps
<1>2. \A t \in Thread : IsHotCache(hot[t])
  BY NewHotCacheFacts DEF Init
<1> QED BY <1>1, <1>2 DEF Init, TypeOK, IsColdMap, Steps

\* Lookups keep every variable of its type.
LEMMA LookupTypes ==
  ASSUME TypeOK, CallOK, NEW t \in Thread, Lookup(t)
  PROVE  TypeOK' /\ CallOK'
<1>1. ASSUME NEW k \in Key, LookupHot(t, k)  PROVE TypeOK' /\ CallOK'
  <2>1. IsHotCache(Refreshed(t))
    BY RefreshedType
  <2>2. DOMAIN hot' = Thread /\ \A u \in Thread : IsHotCache(hot'[u])
    BY <1>1, <2>1 DEF LookupHot, TypeOK
  <2>3. TypeOK'
    BY <1>1, <2>2 DEF LookupHot, TypeOK, Goto, local, history, Steps, IsColdMap
  <2>4. CallOK'
    BY <1>1 DEF LookupHot, CallOK, TypeOK, Goto, local, history, InsertSteps
  <2> QED BY <2>3, <2>4
<1>2. CASE ColdMiss(t)
  BY <1>2 DEF ColdMiss, Return, Goto, TypeOK, CallOK, history, Steps, InsertSteps, IsColdMap
<1>3. CASE ColdHit(t)
  <2>1. key[t] \in Key /\ cold[key[t]].html \in Html
    BY <1>3 DEF ColdHit, CallOK, TypeOK, IsColdMap
  <2> QED
    BY <1>3, <2>1 DEF ColdHit, Goto, TypeOK, CallOK, Steps, InsertSteps, IsColdMap
<1>6. CASE Promote(t)
  <2>1. key[t] \in Key /\ page[t] \in Html
    BY <1>6 DEF Promote, CallOK
  <2>2. IsHotCache(HotInsert(hot[t], key[t], page[t], now))
    BY <2>1, HotInsertFacts DEF TypeOK
  <2>3. DOMAIN hot' = Thread /\ \A u \in Thread : IsHotCache(hot'[u])
    BY <1>6, <2>2 DEF Promote, TypeOK
  <2>4. TypeOK'
    BY <1>6, <2>3 DEF Promote, Return, Goto, TypeOK, Steps, IsColdMap
  <2>5. CallOK'
    BY <1>6 DEF Promote, Return, Goto, TypeOK, CallOK, InsertSteps
  <2> QED
    BY <2>4, <2>5
<1>4. CASE ColdExpired(t)
  BY <1>4 DEF ColdExpired, Goto, TypeOK, CallOK, history, Steps, InsertSteps, IsColdMap
<1>5. CASE ColdExpire(t)
  <2>1. IsColdMap(cold')
    BY <1>5, ColdMapTypes DEF ColdExpire, CallOK, TypeOK
  <2> QED
    BY <1>5, <2>1 DEF ColdExpire, Return, Goto, TypeOK, CallOK, history, Steps, InsertSteps
<1> QED BY <1>1, <1>2, <1>3, <1>4, <1>5, <1>6 DEF Lookup

\* Inserts keep every variable of its type.
LEMMA InsertTypes ==
  ASSUME TypeOK, CallOK, NEW t \in Thread, Insert(t)
  PROVE  TypeOK' /\ CallOK'
<1>1. ASSUME NEW k \in Key, NEW p \in Html, InsertStart(t, k, p)
      PROVE  TypeOK' /\ CallOK'
  <2>1. PICK victims \in SUBSET Key :
          /\ todo' = [todo EXCEPT ![t] = victims]
          /\ Goto(t, IF victims = {} THEN "put" ELSE "evict")
    BY <1>1 DEF InsertStart
  <2>2. TypeOK'
    BY <1>1, <2>1 DEF InsertStart, Goto, TypeOK, Steps, InsertSteps, IsColdMap
  <2>3. CallOK'
    BY <1>1, <2>1 DEF InsertStart, Goto, TypeOK, CallOK, Steps, InsertSteps
  <2> QED BY <2>2, <2>3
<1>2. ASSUME NEW k \in Key, Evict(t, k)  PROVE TypeOK' /\ CallOK'
  <2>1. IsColdMap(cold')
    BY <1>2, ColdMapTypes DEF Evict, TypeOK
  <2> QED BY <1>2, <2>1 DEF Evict, Goto, TypeOK, CallOK, history, Steps, InsertSteps
<1>3. CASE ColdPut(t)
  <2>1. IsColdMap(cold')
    BY <1>3, ColdPutTypes DEF ColdPut, TypeOK, CallOK, InsertSteps
  <2> QED BY <1>3, <2>1 DEF ColdPut, Goto, TypeOK, CallOK, history, Steps, InsertSteps
<1>4. CASE HotFill(t)
  <2>1. key[t] \in Key /\ page[t] \in Html /\ IsHotCache(Refreshed(t))
    BY <1>4, RefreshedType DEF HotFill, CallOK, InsertSteps
  <2>2. IsHotCache(HotInsert(Refreshed(t), key[t], page[t], now))
    BY <2>1, HotInsertFacts DEF TypeOK
  <2>3. DOMAIN hot' = Thread /\ \A u \in Thread : IsHotCache(hot'[u])
    BY <1>4, <2>2 DEF HotFill, TypeOK
  <2>4. TypeOK'
    BY <1>4, <2>1, <2>3 DEF HotFill, Return, Goto, TypeOK, Steps, IsColdMap
  <2>5. CallOK'
    BY <1>4 DEF HotFill, Return, Goto, TypeOK, CallOK, InsertSteps
  <2> QED BY <2>4, <2>5
<1> QED BY <1>1, <1>2, <1>3, <1>4 DEF Insert

\* Revocations keep every variable of its type.
LEMMA RevokeTypes ==
  ASSUME TypeOK, CallOK, NEW t \in Thread, Revoke(t)
  PROVE  TypeOK' /\ CallOK'
<1>0. \A K : DoneOf(K) \in SUBSET Html
  BY DEF DoneOf, TypeOK
<1>1. ASSUME NEW k \in Key, Invalidate(t, k)  PROVE TypeOK' /\ CallOK'
  <2>1. IsColdMap(cold')
    <3>1. cold' = cold \/ cold' = Without(cold, k)
      BY <1>1 DEF Invalidate
    <3>2. IsColdMap(cold) /\ IsColdMap(Without(cold, k))
      BY ColdMapTypes DEF TypeOK
    <3> QED BY <3>1, <3>2 DEF IsColdMap
  <2>2. TypeOK'
    BY <1>0, <1>1, <2>1 DEF Invalidate, Goto, TypeOK, Steps
  <2>3. CallOK'
    BY <1>1 DEF Invalidate, Goto, TypeOK, CallOK, InsertSteps
  <2> QED BY <2>2, <2>3
<1>2. ASSUME NEW P \in UrlPrefix, PrefixStart(t, P)  PROVE TypeOK' /\ CallOK'
  <2>1. P \in SUBSET Key
    BY SsrConstants
  <2>2. TypeOK'
    BY <1>0, <1>2, <2>1 DEF PrefixStart, Goto, TypeOK, Steps, IsColdMap
  <2>3. CallOK'
    BY <1>2 DEF PrefixStart, Goto, TypeOK, CallOK, InsertSteps
  <2> QED BY <2>2, <2>3
<1>3. ASSUME NEW k \in Key, Scan(t, k)  PROVE TypeOK' /\ CallOK'
  BY <1>3 DEF Scan, TypeOK, CallOK, history, IsColdMap
<1>4. ASSUME NEW k \in Key, Drop(t, k)  PROVE TypeOK' /\ CallOK'
  <2>1. IsColdMap(cold')
    BY <1>4, ColdMapTypes DEF Drop, TypeOK
  <2> QED BY <1>4, <2>1 DEF Drop, Goto, TypeOK, CallOK, Steps, InsertSteps
<1>5. CASE ScanEmpty(t)
  BY <1>5 DEF ScanEmpty, Return, Goto, TypeOK, CallOK, Steps, InsertSteps, IsColdMap
<1>6. CASE ScanDone(t)
  BY <1>6 DEF ScanDone, Goto, TypeOK, CallOK, history, Steps, InsertSteps, IsColdMap
<1>7. CASE ClearStart(t)
  BY <1>7 DEF ClearStart, Goto, TypeOK, CallOK, Steps, InsertSteps, IsColdMap
<1>8. CASE Bump(t)
  BY <1>8 DEF Bump, Return, Goto, TypeOK, CallOK, Steps, InsertSteps, IsColdMap
<1> QED BY <1>1, <1>2, <1>3, <1>4, <1>5, <1>6, <1>7, <1>8 DEF Revoke

\* No step of any call, and no tick of the clock, leaves the types.
LEMMA NextTypes == TypeOK /\ CallOK /\ [Next]_vars => TypeOK' /\ CallOK'
<1> SUFFICES ASSUME TypeOK, CallOK, [Next]_vars  PROVE TypeOK' /\ CallOK'
  OBVIOUS
<1>1. CASE Tick
  BY <1>1 DEF Tick, TypeOK, CallOK, local, history, IsColdMap
<1>2. CASE UNCHANGED vars
  BY <1>2 DEF vars, TypeOK, CallOK, local, history, IsColdMap
<1> QED BY <1>1, <1>2, LookupTypes, InsertTypes, RevokeTypes DEF Next

\* The argument checks hold all along.
LEMMA TypesInvariant == Spec => [](TypeOK /\ CallOK)
  BY InitTypes, NextTypes, PTL DEF Spec

\* Whatever the threads do, the caches stay well-formed (ssr.rs:114-262).
THEOREM TypeCorrect == Spec => []TypeOK
  BY TypesInvariant, PTL

-----------------------------------------------------------------------------
(***************************************************************************)
(* The strengthening that makes PurgedUnreachable inductive.               *)
(***************************************************************************)

\* The page of an insert call belongs to that call alone until it returns.
CarriedOnce ==
    \A t \in Thread : pc[t] \in InsertSteps =>
        /\ owner[page[t]] = key[t] /\ page[t] \notin done
        /\ \A u \in Thread \ {t} : pc[u] \in InsertSteps => page[u] # page[t]

\* Only returned inserts can be revoked.
RevokesDone ==
    /\ \A p \in done : owner[p] # None
    /\ purged \subseteq done
    /\ \A t \in Thread : doomed[t] \subseteq done

\* The cold cache files a page under its own key, and holds no purged page.
ColdSound ==
    \A k \in DOMAIN cold : owner[cold[k].html] = k /\ cold[k].html \notin purged

\* A doomed page still in the cold cache is on the revoking thread's list.
DoomedListed ==
    \A t \in Thread, k \in DOMAIN cold : cold[k].html \in doomed[t] =>
        /\ pc[t] = "scan" => k \in todo[t] \cup found[t]
        /\ pc[t] = "drop" => k \in todo[t]
        /\ pc[t] # "bump"

\* What a lookup is about to promote is a page of the key it looks for, and
\* purged only if the hot cache it goes to no longer counts.
FoundSound ==
    \A t \in Thread : pc[t] = "promote" =>
        /\ owner[page[t]] = key[t]
        /\ hotGen[t] = generation => page[t] \notin purged

\* A hot cache of the current generation holds no purged page.
HotSound ==
    \A t \in Thread :
        /\ hotGen[t] <= generation
        /\ hotGen[t] = generation => HotPages(hot[t]) \cap purged = {}

PurgeInv ==
    /\ TypeOK /\ CallOK /\ CarriedOnce /\ RevokesDone /\ ColdSound /\ DoomedListed
    /\ FoundSound /\ HotSound

\* What a step of thread t may do, for proofs by cases.
LEMMA StepCases ==
  ASSUME [Next]_vars
  PROVE  \/ Tick \/ UNCHANGED vars
         \/ \E t \in Thread :
               \/ \E k \in Key : LookupHot(t, k) \/ Evict(t, k) \/ Invalidate(t, k)
                                 \/ Scan(t, k) \/ Drop(t, k)
               \/ ColdMiss(t) \/ ColdHit(t) \/ Promote(t) \/ ColdExpired(t) \/ ColdExpire(t)
               \/ \E k \in Key, p \in Html : InsertStart(t, k, p)
               \/ ColdPut(t) \/ HotFill(t)
               \/ \E P \in UrlPrefix : PrefixStart(t, P)
               \/ ScanEmpty(t) \/ ScanDone(t) \/ ClearStart(t) \/ Bump(t)
  BY DEF Next, Lookup, Insert, Revoke

\* What a removal and a put leave in the cold cache.
LEMMA Removal ==
  ASSUME NEW k, cold' = Without(cold, k)
  PROVE  /\ DOMAIN cold' = DOMAIN cold \ {k}
         /\ \A j \in DOMAIN cold' : cold'[j] = cold[j]
  BY DEF Without, Restrict

\* A put leaves its entry under its key and every other entry alone.
LEMMA Addition ==
  ASSUME NEW k, NEW e, cold' = Put(cold, k, e)
  PROVE  /\ DOMAIN cold' = DOMAIN cold \cup {k} /\ cold'[k] = e
         /\ \A j \in DOMAIN cold \ {k} : cold'[j] = cold[j]
  BY DEF Put

\* No step hands the page of an insert call to another call.
LEMMA CarriedOnceStep ==
  ASSUME PurgeInv, [Next]_vars
  PROVE  CarriedOnce'
<1> USE DEF PurgeInv, TypeOK, CarriedOnce, InsertSteps, Goto, Return, local, history
<1>1. CASE Tick \/ UNCHANGED vars
  BY <1>1 DEF Tick, vars
<1>2. ASSUME NEW t \in Thread, NEW k \in Key,
             LookupHot(t, k) \/ Invalidate(t, k) \/ Scan(t, k) \/ Drop(t, k)
      PROVE  CarriedOnce'
  BY <1>2 DEF LookupHot, Invalidate, Scan, Drop
<1>3. ASSUME NEW t \in Thread, NEW k \in Key, Evict(t, k)  PROVE CarriedOnce'
  BY <1>3 DEF Evict
<1>4. ASSUME NEW t \in Thread,
             ColdMiss(t) \/ ColdHit(t) \/ Promote(t) \/ ColdExpired(t) \/ ColdExpire(t)
      PROVE  CarriedOnce'
  <2>1. /\ pc[t] \notin InsertSteps /\ owner' = owner /\ done' = done
        /\ \A u \in Thread \ {t} :
              pc'[u] = pc[u] /\ key'[u] = key[u] /\ page'[u] = page[u]
        /\ pc'[t] \notin InsertSteps
    BY <1>4 DEF ColdMiss, ColdHit, Promote, ColdExpired, ColdExpire
  <2> QED BY <2>1
<1>5. ASSUME NEW t \in Thread, NEW k \in Key, NEW p \in Html, InsertStart(t, k, p)
      PROVE  CarriedOnce'
  <2>1. /\ owner[p] = None /\ p \notin done /\ pc[t] = "idle"
        /\ \A u \in Thread : pc[u] \in InsertSteps => page[u] # p
    BY <1>5, SsrConstants DEF InsertStart, RevokesDone, CallOK
  <2>2. /\ owner' = [owner EXCEPT ![p] = k] /\ key' = [key EXCEPT ![t] = k]
        /\ page' = [page EXCEPT ![t] = p] /\ done' = done
        /\ \A u \in Thread \ {t} : pc'[u] = pc[u]
    BY <1>5 DEF InsertStart
  <2>3. \A u \in Thread \ {t} : pc[u] \in InsertSteps => page[u] \in Html
    BY DEF CallOK
  <2> QED BY <2>1, <2>2, <2>3
<1>6. ASSUME NEW t \in Thread, ColdPut(t)  PROVE CarriedOnce'
  BY <1>6 DEF ColdPut
<1>7. ASSUME NEW t \in Thread, HotFill(t)  PROVE CarriedOnce'
  BY <1>7 DEF HotFill
<1>8. ASSUME NEW t \in Thread,
             \/ \E P \in UrlPrefix : PrefixStart(t, P)
             \/ ScanEmpty(t) \/ ScanDone(t) \/ ClearStart(t) \/ Bump(t)
      PROVE  CarriedOnce'
  BY <1>8 DEF PrefixStart, ScanEmpty, ScanDone, ClearStart, Bump
<1> QED BY <1>1, <1>2, <1>3, <1>4, <1>5, <1>6, <1>7, <1>8, StepCases

\* No step dooms or purges a page whose insert has not returned.
LEMMA RevokesDoneStep ==
  ASSUME PurgeInv, [Next]_vars
  PROVE  RevokesDone'
<1> USE DEF PurgeInv, TypeOK, RevokesDone, Goto, Return, local, history
<1>1. CASE Tick \/ UNCHANGED vars
  BY <1>1 DEF Tick, vars
<1>2. ASSUME NEW t \in Thread, NEW k \in Key,
             LookupHot(t, k) \/ Evict(t, k) \/ Scan(t, k) \/ Drop(t, k)
      PROVE  RevokesDone'
  BY <1>2 DEF LookupHot, Evict, Scan, Drop
<1>3. ASSUME NEW t \in Thread,
             \/ ColdMiss(t) \/ ColdHit(t) \/ Promote(t) \/ ColdExpired(t) \/ ColdExpire(t)
             \/ ColdPut(t) \/ ScanDone(t)
      PROVE  RevokesDone'
  BY <1>3 DEF ColdMiss, ColdHit, Promote, ColdExpired, ColdExpire, ColdPut, ScanDone
<1>4. ASSUME NEW t \in Thread, NEW k \in Key, NEW p \in Html, InsertStart(t, k, p)
      PROVE  RevokesDone'
  BY <1>4, SsrConstants DEF InsertStart
<1>5. ASSUME NEW t \in Thread, HotFill(t)  PROVE RevokesDone'
  <2>1. page[t] \in Html /\ owner[page[t]] \in Key
    BY <1>5 DEF HotFill, CallOK, CarriedOnce, InsertSteps
  <2> QED BY <1>5, <2>1, SsrConstants DEF HotFill
<1>6. ASSUME NEW t \in Thread, NEW k \in Key, Invalidate(t, k)  PROVE RevokesDone'
  BY <1>6 DEF Invalidate, DoneOf
<1>7. ASSUME NEW t \in Thread, NEW P \in UrlPrefix, PrefixStart(t, P)
      PROVE  RevokesDone'
  BY <1>7 DEF PrefixStart, DoneOf
<1>8. ASSUME NEW t \in Thread, ScanEmpty(t) \/ ClearStart(t) \/ Bump(t)
      PROVE  RevokesDone'
  BY <1>8 DEF ScanEmpty, ClearStart, Bump
<1> QED BY <1>1, <1>2, <1>3, <1>4, <1>5, <1>6, <1>7, <1>8, StepCases

\* No lookup, promotion or fill brings a purged page into a hot cache that
\* still counts, and a bump makes every hot cache stale (ssr.rs:243-259).
LEMMA HotSoundStep ==
  ASSUME PurgeInv, [Next]_vars
  PROVE  HotSound'
<1> USE DEF PurgeInv, TypeOK, HotSound
<1>1. CASE Tick \/ UNCHANGED vars
  BY <1>1 DEF Tick, vars, history
<1>2. ASSUME NEW t \in Thread, NEW k \in Key, LookupHot(t, k)  PROVE HotSound'
  BY <1>2, NewHotCachePages DEF LookupHot, Refreshed, history
<1>3. ASSUME NEW t \in Thread, NEW k \in Key,
             Evict(t, k) \/ Invalidate(t, k) \/ Scan(t, k) \/ Drop(t, k)
      PROVE  HotSound'
  BY <1>3 DEF Evict, Invalidate, Scan, Drop, history
<1>4. ASSUME NEW t \in Thread,
             \/ ColdMiss(t) \/ ColdHit(t) \/ ColdExpired(t) \/ ColdExpire(t) \/ ColdPut(t)
             \/ ScanEmpty(t) \/ ScanDone(t) \/ ClearStart(t)
             \/ \E P \in UrlPrefix : PrefixStart(t, P)
             \/ \E k \in Key, p \in Html : InsertStart(t, k, p)
      PROVE  HotSound'
  BY <1>4 DEF ColdMiss, ColdHit, ColdExpired, ColdExpire, ColdPut, ScanEmpty, ScanDone,
              ClearStart, PrefixStart, InsertStart, history
<1>5. ASSUME NEW t \in Thread, Promote(t)  PROVE HotSound'
  <2> DEFINE p == page[t]
  <2>1. /\ key[t] \in Key /\ p \in Html /\ IsHotCache(hot[t])
        /\ hotGen[t] = generation => p \notin purged
    BY <1>5 DEF Promote, CallOK, FoundSound
  <2>2. HotPages(HotInsert(hot[t], key[t], p, now)) \subseteq HotPages(hot[t]) \cup {p}
    BY <2>1, HotInsertPages
  <2> QED BY <1>5, <2>1, <2>2 DEF Promote
<1>6. ASSUME NEW t \in Thread, HotFill(t)  PROVE HotSound'
  <2> DEFINE p == page[t]
  <2>1. key[t] \in Key /\ p \in Html /\ p \notin purged /\ IsHotCache(Refreshed(t))
    BY <1>6, RefreshedType DEF HotFill, CallOK, CarriedOnce, RevokesDone, InsertSteps
  <2>2. /\ HotPages(HotInsert(Refreshed(t), key[t], p, now))
              \subseteq HotPages(Refreshed(t)) \cup {p}
        /\ HotPages(Refreshed(t)) \cap purged = {}
    BY <2>1, HotInsertPages, NewHotCachePages DEF Refreshed
  <2> QED BY <1>6, <2>1, <2>2 DEF HotFill
<1>7. ASSUME NEW t \in Thread, Bump(t)  PROVE HotSound'
  BY <1>7 DEF Bump
<1> QED BY <1>1, <1>2, <1>3, <1>4, <1>5, <1>6, <1>7, StepCases

\* A lookup takes with it only what the cold cache holds; a bump that purges
\* it makes its hot cache stale (ssr.rs:131-142).
LEMMA FoundSoundStep ==
  ASSUME PurgeInv, [Next]_vars
  PROVE  FoundSound'
<1> USE DEF PurgeInv, TypeOK, FoundSound, Goto, Return
<1>1. CASE Tick \/ UNCHANGED vars
  BY <1>1 DEF Tick, vars, local, history
<1>2. ASSUME NEW t \in Thread, NEW k \in Key, LookupHot(t, k)  PROVE FoundSound'
  BY <1>2 DEF LookupHot, local, history
<1>3. ASSUME NEW t \in Thread, NEW k \in Key,
             Evict(t, k) \/ Invalidate(t, k) \/ Scan(t, k) \/ Drop(t, k)
      PROVE  FoundSound'
  BY <1>3 DEF Evict, Invalidate, Scan, Drop, history
<1>4. ASSUME NEW t \in Thread,
             \/ ColdMiss(t) \/ Promote(t) \/ ColdExpired(t) \/ ColdExpire(t)
             \/ ColdPut(t) \/ HotFill(t)
      PROVE  FoundSound'
  BY <1>4 DEF ColdMiss, Promote, ColdExpired, ColdExpire, ColdPut, HotFill, history
<1>5. ASSUME NEW t \in Thread, ColdHit(t)  PROVE FoundSound'
  BY <1>5 DEF ColdHit, ColdSound
<1>6. ASSUME NEW t \in Thread, NEW k \in Key, NEW p \in Html, InsertStart(t, k, p)
      PROVE  FoundSound'
  <2>1. /\ owner[p] = None /\ owner' = [owner EXCEPT ![p] = k]
        /\ key' = [key EXCEPT ![t] = k] /\ page' = [page EXCEPT ![t] = p]
        /\ pc'[t] \in InsertSteps /\ \A u \in Thread \ {t} : pc'[u] = pc[u]
        /\ hotGen' = hotGen /\ generation' = generation /\ purged' = purged
    BY <1>6 DEF InsertStart, InsertSteps
  <2>2. \A u \in Thread : pc[u] = "promote" => key[u] # None /\ page[u] \in Html
    BY SsrConstants DEF CallOK
  <2> QED
    BY <2>1, <2>2 DEF InsertSteps
<1>7. ASSUME NEW t \in Thread,
             \/ \E P \in UrlPrefix : PrefixStart(t, P)
             \/ ScanEmpty(t) \/ ScanDone(t) \/ ClearStart(t)
      PROVE  FoundSound'
  BY <1>7 DEF PrefixStart, ScanEmpty, ScanDone, ClearStart, history
<1>8. ASSUME NEW t \in Thread, Bump(t)  PROVE FoundSound'
  BY <1>8 DEF Bump, HotSound
<1> QED BY <1>1, <1>2, <1>3, <1>4, <1>5, <1>6, <1>7, <1>8, StepCases

\* A page that leaves the cold cache leaves a smaller cold cache.
LEMMA ColdSoundStep ==
  ASSUME PurgeInv, [Next]_vars
  PROVE  ColdSound'
<1> USE DEF PurgeInv, TypeOK, ColdSound
<1>1. CASE Tick \/ UNCHANGED vars
  BY <1>1 DEF Tick, vars, history
<1>2. ASSUME NEW t \in Thread, NEW k \in Key, Evict(t, k) \/ Drop(t, k) \/ Invalidate(t, k)
      PROVE  ColdSound'
  <2>1. cold' = cold \/ cold' = Without(cold, k)
    BY <1>2 DEF Evict, Drop, Invalidate
  <2>2. owner' = owner /\ purged' = purged
    BY <1>2 DEF Evict, Drop, Invalidate, history
  <2>3. CASE cold' = Without(cold, k)
    <3>1. DOMAIN cold' \subseteq DOMAIN cold /\ \A j \in DOMAIN cold' : cold'[j] = cold[j]
      BY <2>3, Removal
    <3> QED BY <2>2, <3>1
  <2> QED BY <2>1, <2>2, <2>3
<1>3. ASSUME NEW t \in Thread, ColdExpire(t)  PROVE ColdSound'
  <2>1. DOMAIN cold' \subseteq DOMAIN cold /\ \A j \in DOMAIN cold' : cold'[j] = cold[j]
    BY <1>3, Removal DEF ColdExpire
  <2> QED BY <1>3, <2>1 DEF ColdExpire, history
<1>4. ASSUME NEW t \in Thread, NEW k \in Key, LookupHot(t, k) \/ Scan(t, k)
      PROVE  ColdSound'
  BY <1>4 DEF LookupHot, Scan, history
<1>5. ASSUME NEW t \in Thread,
             \/ ColdMiss(t) \/ ColdHit(t) \/ Promote(t) \/ ColdExpired(t) \/ HotFill(t)
             \/ ScanEmpty(t) \/ ScanDone(t) \/ ClearStart(t)
             \/ \E P \in UrlPrefix : PrefixStart(t, P)
      PROVE  ColdSound'
  BY <1>5 DEF ColdMiss, ColdHit, Promote, ColdExpired, HotFill, ScanEmpty, ScanDone,
              ClearStart, PrefixStart, history
<1>6. ASSUME NEW t \in Thread, NEW k \in Key, NEW p \in Html, InsertStart(t, k, p)
      PROVE  ColdSound'
  <2>1. \A j \in DOMAIN cold : j \in Key /\ cold[j].html # p
    BY <1>6, SsrConstants DEF InsertStart, IsColdMap
  <2> QED BY <1>6, <2>1 DEF InsertStart, IsColdMap
<1>7. ASSUME NEW t \in Thread, ColdPut(t)  PROVE ColdSound'
  <2>1. /\ key[t] \in Key /\ page[t] \in Html /\ owner[page[t]] = key[t]
        /\ page[t] \notin purged
    BY <1>7 DEF ColdPut, CallOK, CarriedOnce, RevokesDone, InsertSteps
  <2>2. /\ DOMAIN cold' = DOMAIN cold \cup {key[t]} /\ cold'[key[t]].html = page[t]
        /\ \A j \in DOMAIN cold \ {key[t]} : cold'[j] = cold[j]
    <3> DEFINE e == [html |-> page[t], created_at |-> now]
    <3>1. cold' = Put(cold, key[t], e) /\ e.html = page[t]
      BY <1>7 DEF ColdPut
    <3> HIDE DEF e
    <3> QED BY <3>1, Addition
  <2> QED BY <1>7, <2>1, <2>2 DEF ColdPut, history
<1>8. ASSUME NEW t \in Thread, Bump(t)  PROVE ColdSound'
  BY <1>8 DEF Bump, DoomedListed
<1> QED BY <1>1, <1>2, <1>3, <1>4, <1>5, <1>6, <1>7, <1>8, StepCases

\* No put brings a doomed page back, no removal takes a listed key off the
\* list without taking its entry (ssr.rs:169-197).
LEMMA DoomedListedStep ==
  ASSUME PurgeInv, [Next]_vars
  PROVE  DoomedListed'
<1> USE DEF PurgeInv, TypeOK, DoomedListed, Goto, Return
<1>1. CASE Tick \/ UNCHANGED vars
  BY <1>1 DEF Tick, vars, local, history
<1>2. ASSUME NEW t \in Thread, NEW k \in Key, Evict(t, k)  PROVE DoomedListed'
  <2>1. DOMAIN cold' \subseteq DOMAIN cold /\ \A j \in DOMAIN cold' : cold'[j] = cold[j]
    BY <1>2, Removal DEF Evict
  <2> QED BY <1>2, <2>1 DEF Evict, history
<1>3. ASSUME NEW t \in Thread, NEW k \in Key, Drop(t, k)  PROVE DoomedListed'
  <2>1. DOMAIN cold' = DOMAIN cold \ {k} /\ \A j \in DOMAIN cold' : cold'[j] = cold[j]
    BY <1>3, Removal DEF Drop
  <2> QED BY <1>3, <2>1 DEF Drop
<1>4. ASSUME NEW t \in Thread, NEW k \in Key, Invalidate(t, k)  PROVE DoomedListed'
  <2>1. CASE k \notin DOMAIN cold
    BY <1>4, <2>1 DEF Invalidate
  <2>2. CASE k \in DOMAIN cold
    <3>1. /\ DOMAIN cold' = DOMAIN cold \ {k}
          /\ \A j \in DOMAIN cold' : cold'[j] = cold[j]
          /\ doomed' = [doomed EXCEPT ![t] = DoneOf({k})]
      <4>1. cold' = Without(cold, k) /\ doomed' = [doomed EXCEPT ![t] = DoneOf({k})]
        BY <1>4, <2>2 DEF Invalidate
      <4> QED BY <4>1, Removal
    <3>2. \A j \in DOMAIN cold' : cold'[j].html \notin DoneOf({k})
      BY <3>1 DEF ColdSound, DoneOf
    <3> QED BY <1>4, <2>2, <3>1, <3>2 DEF Invalidate
  <2> QED BY <2>1, <2>2
<1>5. ASSUME NEW t \in Thread, ColdExpire(t)  PROVE DoomedListed'
  <2>1. DOMAIN cold' \subseteq DOMAIN cold /\ \A j \in DOMAIN cold' : cold'[j] = cold[j]
    BY <1>5, Removal DEF ColdExpire
  <2> QED BY <1>5, <2>1 DEF ColdExpire, history
<1>6. ASSUME NEW t \in Thread, ColdPut(t)  PROVE DoomedListed'
  <2>1. /\ key[t] \in Key /\ page[t] \in Html
        /\ \A u \in Thread : page[t] \notin doomed[u]
    BY <1>6 DEF ColdPut, CallOK, CarriedOnce, RevokesDone, InsertSteps
  <2>2. /\ DOMAIN cold' = DOMAIN cold \cup {key[t]} /\ cold'[key[t]].html = page[t]
        /\ \A j \in DOMAIN cold \ {key[t]} : cold'[j] = cold[j]
    <3> DEFINE e == [html |-> page[t], created_at |-> now]
    <3>1. cold' = Put(cold, key[t], e) /\ e.html = page[t]
      BY <1>6 DEF ColdPut
    <3> HIDE DEF e
    <3> QED BY <3>1, Addition
  <2> QED BY <1>6, <2>1, <2>2 DEF ColdPut, history
<1>7. ASSUME NEW t \in Thread, NEW P \in UrlPrefix, PrefixStart(t, P)
      PROVE  DoomedListed'
  <2>1. \A j \in DOMAIN cold : cold[j].html \in DoneOf(P) => j \in P
    BY DEF ColdSound, DoneOf
  <2> QED BY <1>7, <2>1, SsrConstants DEF PrefixStart
<1>8. ASSUME NEW t \in Thread, ClearStart(t)  PROVE DoomedListed'
  BY <1>8 DEF ClearStart, IsColdMap
<1>9. ASSUME NEW t \in Thread, NEW k \in Key, Scan(t, k)  PROVE DoomedListed'
  BY <1>9 DEF Scan, history
<1>10. ASSUME NEW t \in Thread, ScanEmpty(t) \/ ScanDone(t) \/ Bump(t)
       PROVE  DoomedListed'
  BY <1>10 DEF ScanEmpty, ScanDone, Bump, history
<1>11. ASSUME NEW t \in Thread, NEW k \in Key, LookupHot(t, k)  PROVE DoomedListed'
  <2>1. /\ pc[t] = "idle" /\ pc'[t] \in {"idle", "coldGet"}
        /\ \A u \in Thread \ {t} : pc'[u] = pc[u]
        /\ todo' = todo /\ found' = found /\ cold' = cold /\ doomed' = doomed
    BY <1>11 DEF LookupHot, local, history
  <2> QED BY <2>1
<1>12. ASSUME NEW t \in Thread,
              ColdMiss(t) \/ ColdHit(t) \/ Promote(t) \/ ColdExpired(t) \/ HotFill(t)
       PROVE  DoomedListed'
  BY <1>12 DEF ColdMiss, ColdHit, Promote, ColdExpired, HotFill, InsertSteps, history
<1>13. ASSUME NEW t \in Thread, NEW k \in Key, NEW p \in Html, InsertStart(t, k, p)
       PROVE  DoomedListed'
  <2>1. /\ pc[t] = "idle" /\ pc'[t] \in InsertSteps
        /\ \A u \in Thread \ {t} : pc'[u] = pc[u] /\ todo'[u] = todo[u]
        /\ found' = found /\ cold' = cold /\ doomed' = doomed
    BY <1>13 DEF InsertStart, InsertSteps
  <2> QED BY <2>1 DEF InsertSteps
<1> QED
  BY <1>1, <1>2, <1>3, <1>4, <1>5, <1>6, <1>7, <1>8, <1>9, <1>10, <1>11, <1>12,
     <1>13, StepCases

-----------------------------------------------------------------------------
\* The strengthening is inductive.
LEMMA PurgeInvInvariant == Spec => []PurgeInv
<1>1. Init => PurgeInv
  <2> SUFFICES ASSUME Init  PROVE PurgeInv
    OBVIOUS
  <2> QED
    BY InitTypes, NewHotCachePages DEF Init, PurgeInv, CarriedOnce, RevokesDone,
       ColdSound, DoomedListed, FoundSound, HotSound, InsertSteps
<1>2. PurgeInv /\ [Next]_vars => PurgeInv'
  BY NextTypes, CarriedOnceStep, RevokesDoneStep, ColdSoundStep, DoomedListedStep,
     FoundSoundStep, HotSoundStep DEF PurgeInv
<1> QED BY <1>1, <1>2, PTL DEF Spec

\* After an effective invalidate, invalidate_prefix or clear no thread is
\* answered a page that was fully inserted before the call (ssr.rs:169-197).
THEOREM PurgedStaysUnreachable == Spec => []PurgedUnreachable
<1>1. PurgeInv => PurgedUnreachable
  <2> SUFFICES ASSUME PurgeInv, NEW t \in Thread, NEW k \in Key, LookupNow(t, k) # None
               PROVE  LookupNow(t, k) \notin purged
    BY DEF PurgedUnreachable, Reachable
  <2>1. HotPages(Refreshed(t)) \cap purged = {}
    BY NewHotCachePages DEF Refreshed, PurgeInv, HotSound
  <2>2. HotPeek(Refreshed(t), k, now) \in HotPages(Refreshed(t)) \cup {None}
    BY RefreshedType, HotPeekFacts DEF PurgeInv
  <2> QED BY <2>1, <2>2 DEF LookupNow, Answer, PurgeInv, ColdSound
<1> QED BY <1>1, PurgeInvInvariant, PTL

-----------------------------------------------------------------------------
(***************************************************************************)
(* What one step does to the caches, for the invariants about entries.     *)
(***************************************************************************)

\* A page's history is written once, when its insert starts.
LEMMA HistoryStays ==
  ASSUME TypeOK, [Next]_vars, NEW p \in Html, owner[p] # None
  PROVE  owner'[p] = owner[p] /\ born'[p] = born[p]
<1> USE DEF TypeOK, history
<1>1. CASE Tick \/ UNCHANGED vars
  BY <1>1 DEF Tick, vars
<1>2. ASSUME NEW t \in Thread, NEW k \in Key,
             LookupHot(t, k) \/ Evict(t, k) \/ Invalidate(t, k) \/ Scan(t, k) \/ Drop(t, k)
      PROVE  owner'[p] = owner[p] /\ born'[p] = born[p]
  BY <1>2 DEF LookupHot, Evict, Invalidate, Scan, Drop
<1>3. ASSUME NEW t \in Thread,
             \/ ColdMiss(t) \/ ColdHit(t) \/ Promote(t) \/ ColdExpired(t) \/ ColdExpire(t)
             \/ ColdPut(t) \/ HotFill(t) \/ \E P \in UrlPrefix : PrefixStart(t, P)
             \/ ScanEmpty(t) \/ ScanDone(t) \/ ClearStart(t) \/ Bump(t)
      PROVE  owner'[p] = owner[p] /\ born'[p] = born[p]
  BY <1>3 DEF ColdMiss, ColdHit, Promote, ColdExpired, ColdExpire, ColdPut, HotFill, PrefixStart,
              ScanEmpty, ScanDone, ClearStart, Bump
<1>4. ASSUME NEW t \in Thread, NEW k \in Key, NEW q \in Html, InsertStart(t, k, q)
      PROVE  owner'[p] = owner[p] /\ born'[p] = born[p]
  BY <1>4 DEF InsertStart
<1> QED
  BY <1>1, <1>2, <1>3, <1>4, StepCases

\* Entries that a thread brings into its hot cache: what it has found live in
\* the cold cache, and what it inserts.
Promoted(t) ==
    {e \in HotEntry :
        pc[t] = "promote" /\ e = [url_hash |-> key[t], html |-> page[t], created_at |-> now]}
Filled(t) ==
    {e \in HotEntry :
        pc[t] = "fill" /\ e = [url_hash |-> key[t], html |-> page[t], created_at |-> now]}

LEMMA RefreshedEntries ==
  ASSUME NEW t \in Thread
  PROVE  /\ Entries(Refreshed(t)) \subseteq Entries(hot[t])
         /\ Filed(hot[t]) => Filed(Refreshed(t))
  BY NewHotCacheEntries DEF Refreshed

\* A hot cache changes only by the calls of its own thread.
LEMMA HotStep ==
  ASSUME TypeOK, CallOK, [Next]_vars, NEW t \in Thread
  PROVE  /\ Entries(hot'[t]) \subseteq Entries(hot[t]) \cup Promoted(t) \cup Filled(t)
         /\ Filed(hot[t]) => Filed(hot'[t])
<1> DEFINE Goal == /\ Entries(hot'[t]) \subseteq Entries(hot[t]) \cup Promoted(t) \cup Filled(t)
                   /\ Filed(hot[t]) => Filed(hot'[t])
<1> SUFFICES Goal
  OBVIOUS
<1>0. ASSUME hot'[t] = hot[t] PROVE Goal
  BY <1>0
<1>1. CASE Tick \/ UNCHANGED vars
  BY <1>0, <1>1 DEF Tick, vars
<1>2. ASSUME NEW u \in Thread, NEW k \in Key, LookupHot(u, k) PROVE Goal
  <2>1. hot'[t] = hot[t] \/ hot'[t] = Refreshed(t)
    BY <1>2 DEF LookupHot, TypeOK
  <2> QED
    BY <2>1, RefreshedEntries
<1>3. ASSUME NEW u \in Thread, NEW k \in Key,
             Evict(u, k) \/ Invalidate(u, k) \/ Scan(u, k) \/ Drop(u, k)
      PROVE  Goal
  BY <1>0, <1>3 DEF Evict, Invalidate, Scan, Drop
<1>4. ASSUME NEW u \in Thread,
             \/ ColdMiss(u) \/ ColdHit(u) \/ ColdExpired(u) \/ ColdExpire(u) \/ ColdPut(u)
             \/ \E P \in UrlPrefix : PrefixStart(u, P)
             \/ ScanEmpty(u) \/ ScanDone(u) \/ ClearStart(u) \/ Bump(u)
             \/ \E k \in Key, p \in Html : InsertStart(u, k, p)
      PROVE  Goal
  BY <1>0, <1>4 DEF ColdMiss, ColdHit, ColdExpired, ColdExpire, ColdPut, PrefixStart, ScanEmpty,
                    ScanDone, ClearStart, Bump, InsertStart
<1>5. ASSUME NEW u \in Thread, Promote(u) PROVE Goal
  <2>1. CASE u # t
    BY <1>0, <1>5, <2>1 DEF Promote, TypeOK
  <2>2. CASE u = t
    <3> DEFINE p == page[t]
               e == [url_hash |-> key[t], html |-> p, created_at |-> now]
    <3>1. key[t] \in Key /\ p \in Html /\ IsHotCache(hot[t]) /\ now \in Nat
      BY <1>5, <2>2 DEF Promote, CallOK, TypeOK
    <3>2. hot'[t] = HotInsert(hot[t], key[t], p, now)
      BY <1>5, <2>2 DEF Promote, TypeOK
    <3>3. /\ Entries(hot'[t]) \subseteq Entries(hot[t]) \cup {e}
          /\ Filed(hot[t]) => Filed(hot'[t])
      BY <3>1, <3>2, HotInsertEntries
    <3>4. e \in Promoted(t)
      BY <1>5, <2>2, <3>1 DEF Promote, Promoted, HotEntry
    <3> QED
      BY <3>3, <3>4
  <2> QED
    BY <2>1, <2>2
<1>6. ASSUME NEW u \in Thread, HotFill(u) PROVE Goal
  <2>1. CASE u # t
    BY <1>0, <1>6, <2>1 DEF HotFill, TypeOK
  <2>2. CASE u = t
    <3> DEFINE r == Refreshed(t)
               e == [url_hash |-> key[t], html |-> page[t], created_at |-> now]
    <3>1. key[t] \in Key /\ page[t] \in Html /\ IsHotCache(r) /\ now \in Nat
      BY <1>6, <2>2, RefreshedType DEF HotFill, CallOK, InsertSteps, TypeOK
    <3>2. hot'[t] = HotInsert(r, key[t], page[t], now)
      BY <1>6, <2>2 DEF HotFill, TypeOK
    <3>3. Entries(r) \subseteq Entries(hot[t]) /\ (Filed(hot[t]) => Filed(r))
      BY RefreshedEntries
    <3> HIDE DEF r
    <3>4. /\ Entries(hot'[t]) \subseteq Entries(r) \cup {e}
          /\ Filed(r) => Filed(hot'[t])
      BY <3>1, <3>2, HotInsertEntries
    <3>5. e \in Filled(t)
      BY <1>6, <2>2, <3>1 DEF HotFill, Filled, HotEntry
    <3> QED
      BY <3>3, <3>4, <3>5
  <2> QED
    BY <2>1, <2>2
<1> HIDE DEF Goal
<1> QED
  BY <1>1, <1>2, <1>3, <1>4, <1>5, <1>6, StepCases

\* An entry enters the cold cache only by the put of an insert call.
LEMMA ColdStep ==
  ASSUME TypeOK, CallOK, [Next]_vars, NEW k \in DOMAIN cold'
  PROVE  \/ k \in DOMAIN cold /\ cold'[k] = cold[k]
         \/ \E t \in Thread : /\ pc[t] = "put" /\ key[t] = k
                              /\ cold'[k] = [html |-> page[t], created_at |-> now]
<1> DEFINE Goal == \/ k \in DOMAIN cold /\ cold'[k] = cold[k]
                   \/ \E t \in Thread : /\ pc[t] = "put" /\ key[t] = k
                                        /\ cold'[k] = [html |-> page[t], created_at |-> now]
<1> SUFFICES Goal
  OBVIOUS
<1>0. ASSUME cold' = cold \/ \E j : cold' = Without(cold, j) PROVE Goal
  <2>1. CASE cold' = cold
    BY <2>1
  <2>2. ASSUME NEW j, cold' = Without(cold, j) PROVE Goal
    BY <2>2, Removal
  <2> QED
    BY <1>0, <2>1, <2>2
<1>1. CASE Tick \/ UNCHANGED vars
  BY <1>0, <1>1 DEF Tick, vars
<1>2. ASSUME NEW t \in Thread, NEW j \in Key,
             LookupHot(t, j) \/ Evict(t, j) \/ Invalidate(t, j) \/ Scan(t, j) \/ Drop(t, j)
      PROVE  Goal
  <2>1. cold' = cold \/ cold' = Without(cold, j)
    BY <1>2 DEF LookupHot, Evict, Invalidate, Scan, Drop
  <2> HIDE DEF Goal
  <2> QED
    BY <1>0, <2>1
<1>3. ASSUME NEW t \in Thread,
             \/ ColdMiss(t) \/ ColdHit(t) \/ Promote(t)
             \/ ColdExpired(t) \/ ColdExpire(t) \/ HotFill(t)
             \/ \E P \in UrlPrefix : PrefixStart(t, P)
             \/ ScanEmpty(t) \/ ScanDone(t) \/ ClearStart(t) \/ Bump(t)
             \/ \E j \in Key, p \in Html : InsertStart(t, j, p)
      PROVE  Goal
  <2>1. cold' = cold \/ cold' = Without(cold, key[t])
    BY <1>3 DEF ColdMiss, ColdHit, Promote, ColdExpired, ColdExpire, HotFill, PrefixStart,
                ScanEmpty, ScanDone, ClearStart, Bump, InsertStart
  <2> HIDE DEF Goal
  <2> QED
    BY <1>0, <2>1
<1>4. ASSUME NEW t \in Thread, ColdPut(t) PROVE Goal
  <2> DEFINE e == [html |-> page[t], created_at |-> now]
  <2>1. pc[t] = "put" /\ cold' = Put(cold, key[t], e)
    BY <1>4 DEF ColdPut
  <2> HIDE DEF e
  <2>2. /\ DOMAIN cold' = DOMAIN cold \cup {key[t]} /\ cold'[key[t]] = e
        /\ \A j \in DOMAIN cold \ {key[t]} : cold'[j] = cold[j]
    BY <2>1, Addition
  <2> QED
    BY <2>1, <2>2 DEF e
<1> HIDE DEF Goal
<1> QED
  BY <1>1, <1>2, <1>3, <1>4, StepCases

-----------------------------------------------------------------------------
\* A hot cache files every page under the key its insert call named.
HotOwned ==
    \A t \in Thread : Filed(hot[t]) /\ \A e \in Entries(hot[t]) : owner[e.html] = e.url_hash

LEMMA HotOwnedStep ==
  ASSUME PurgeInv, HotOwned, [Next]_vars
  PROVE  HotOwned'
<1> SUFFICES ASSUME NEW t \in Thread
             PROVE  Filed(hot'[t]) /\ \A e \in Entries(hot'[t]) : owner'[e.html] = e.url_hash
  BY DEF HotOwned
<1>1. TypeOK /\ CallOK /\ Filed(hot[t])
  BY DEF PurgeInv, HotOwned
<1>2. /\ Entries(hot'[t]) \subseteq Entries(hot[t]) \cup Promoted(t) \cup Filled(t)
      /\ Filed(hot'[t])
  BY <1>1, HotStep
<1>3. ASSUME NEW e \in Entries(hot'[t]) PROVE owner[e.html] = e.url_hash /\ e \in HotEntry
  <2>1. CASE e \in Entries(hot[t])
    BY <1>1, <2>1, EntriesTypes DEF HotOwned, TypeOK
  <2>2. CASE e \in Promoted(t)
    BY <2>2 DEF Promoted, PurgeInv, FoundSound
  <2>3. CASE e \in Filled(t)
    BY <2>3 DEF Filled, PurgeInv, CarriedOnce, InsertSteps
  <2> QED
    BY <1>2, <1>3, <2>1, <2>2, <2>3
<1>4. ASSUME NEW e \in Entries(hot'[t]) PROVE owner'[e.html] = e.url_hash
  <2>1. e.html \in Html /\ owner[e.html] # None
    BY <1>3, SsrConstants DEF HotEntry
  <2> QED
    BY <1>1, <1>3, <2>1, HistoryStays
<1> QED
  BY <1>2, <1>4

LEMMA AlwaysOwned == Spec => [](PurgeInv /\ HotOwned)
<1>1. Init => HotOwned
  BY NewHotCacheEntries DEF Init, HotOwned
<1>2. PurgeInv /\ HotOwned /\ [Next]_vars => HotOwned'
  BY HotOwnedStep
<1> QED
  BY <1>1, <1>2, PurgeInvInvariant, PTL DEF Spec

\* What a lookup answers lies in a cache, live and under the key looked for.
LEMMA LookupEntry ==
  ASSUME PurgeInv, HotOwned, NEW t \in Thread, NEW k \in Key, LookupNow(t, k) # None
  PROVE  \/ \E e \in Entries(hot[t]) :
               e.url_hash = k /\ e.html = LookupNow(t, k) /\ ~IsExpired(e, now)
         \/ /\ k \in DOMAIN cold /\ cold[k].html = LookupNow(t, k)
            /\ ~IsExpired(cold[k], now)
<1> DEFINE r == Refreshed(t)
<1>1. Filed(r) /\ Entries(r) \subseteq Entries(hot[t])
  BY RefreshedEntries DEF HotOwned
<1>2. CASE HotPeek(r, k, now) # None
  <2>1. LookupNow(t, k) = HotPeek(r, k, now)
    BY <1>2 DEF LookupNow
  <2> HIDE DEF r
  <2>2. \E e \in Entries(r) : e.url_hash = k /\ e.html = HotPeek(r, k, now) /\ ~IsExpired(e, now)
    BY <1>1, <1>2, HotPeekEntry
  <2> QED
    BY <1>1, <2>1, <2>2
<1>3. CASE HotPeek(r, k, now) = None
  BY <1>3 DEF LookupNow, Answer
<1> QED
  BY <1>2, <1>3

\* No interleaving of lookups, inserts and invalidations answers a URL with
\* the page of another (ssr.rs:114-163).
THEOREM AnswersTheUrl == Spec => []AnswersOwnUrl
<1>1. PurgeInv /\ HotOwned => AnswersOwnUrl
  <2> SUFFICES ASSUME PurgeInv, HotOwned, NEW t \in Thread, NEW k \in Key, LookupNow(t, k) # None
               PROVE  owner[LookupNow(t, k)] = k
    BY DEF AnswersOwnUrl
  <2>1. CASE \E e \in Entries(hot[t]) : e.url_hash = k /\ e.html = LookupNow(t, k)
    BY <2>1 DEF HotOwned
  <2>2. CASE k \in DOMAIN cold /\ cold[k].html = LookupNow(t, k)
    BY <2>2 DEF PurgeInv, ColdSound
  <2> QED
    BY <2>1, <2>2, LookupEntry
<1> QED
  BY <1>1, AlwaysOwned, PTL

-----------------------------------------------------------------------------
\* How old a page may be where it lies: an insert call lasts MaxInsertTicks at
\* most, a lookup finds an entry at most one TTL old, and it promotes it within
\* MaxLookupTicks.
InsertsInTime ==
    \A t \in Thread : pc[t] \in InsertSteps => now - born[page[t]] <= MaxInsertTicks
ColdDated ==
    \A k \in DOMAIN cold : cold[k].created_at - born[cold[k].html] <= MaxInsertTicks
LookupsInTime ==
    \A t \in Thread : pc[t] = "promote" => now - since[t] <= MaxLookupTicks
FoundDated ==
    TTL > 0 => \A t \in Thread : pc[t] = "promote" =>
        since[t] - born[page[t]] <= TTL + MaxInsertTicks
HotDated ==
    TTL > 0 => \A t \in Thread : \A e \in Entries(hot[t]) :
        e.created_at - born[e.html] <= TTL + MaxInsertTicks + MaxLookupTicks

Dated == InsertsInTime /\ LookupsInTime /\ ColdDated /\ FoundDated /\ HotDated

\* No step lets a call run past its time: the clock waits for it.
LEMMA InsertsInTimeStep ==
  ASSUME PurgeInv, InsertsInTime, [Next]_vars
  PROVE  InsertsInTime'
<1> USE DEF InsertsInTime
<1>0. TypeOK /\ CallOK /\ MaxInsertTicks \in Nat
  BY SsrConstants DEF PurgeInv
<1>1. CASE Tick
  <2>0. pc' = pc /\ page' = page /\ born' = born /\ now' = now + 1
    BY <1>1 DEF Tick, local, history
  <2> SUFFICES ASSUME NEW t \in Thread, pc'[t] \in InsertSteps
               PROVE  now' - born'[page'[t]] <= MaxInsertTicks
    OBVIOUS
  <2>1. now - born[page[t]] < MaxInsertTicks /\ now \in Nat /\ born[page[t]] \in Nat
    BY <1>0, <1>1, <2>0 DEF Tick, TypeOK, CallOK
  <2> QED
    BY <1>0, <2>0, <2>1
<1>2. ASSUME now' = now, NEW t \in Thread, pc'[t] \in InsertSteps,
             pc[t] \in InsertSteps, page'[t] = page[t]
      PROVE  now' - born'[page'[t]] <= MaxInsertTicks
  <2>1. page[t] \in Html /\ owner[page[t]] # None
    BY <1>0, <1>2, SsrConstants DEF PurgeInv, CarriedOnce, CallOK, InsertSteps
  <2>2. born'[page[t]] = born[page[t]]
    BY <1>0, <2>1, HistoryStays
  <2> QED
    BY <1>2, <2>2
<1>3. ASSUME NEW u \in Thread, NEW k \in Key, NEW p \in Html, InsertStart(u, k, p)
      PROVE  InsertsInTime'
  <2> SUFFICES ASSUME NEW t \in Thread, pc'[t] \in InsertSteps
               PROVE  now' - born'[page'[t]] <= MaxInsertTicks
    OBVIOUS
  <2>1. CASE t = u
    <3>1. page'[t] = p /\ born'[p] = now /\ now' = now /\ now \in Nat
      BY <1>0, <1>3, <2>1 DEF InsertStart, TypeOK
    <3> QED
      BY <1>0, <3>1
  <2>2. CASE t # u
    BY <1>0, <1>2, <1>3, <2>2 DEF InsertStart, TypeOK, Goto
  <2> QED
    BY <2>1, <2>2
<1>4. ASSUME now' = now,
             \A t \in Thread : pc'[t] \in InsertSteps => pc[t] \in InsertSteps /\ page'[t] = page[t]
      PROVE  InsertsInTime'
  BY <1>2, <1>4
<1> HIDE DEF InsertsInTime
<1>5. ASSUME NEW t \in Thread, NEW k \in Key, LookupHot(t, k) PROVE InsertsInTime'
  BY <1>0, <1>4, <1>5 DEF LookupHot, TypeOK, Goto, local, InsertSteps
<1>6. ASSUME NEW t \in Thread, NEW k \in Key,
             Evict(t, k) \/ Invalidate(t, k) \/ Scan(t, k) \/ Drop(t, k)
      PROVE  InsertsInTime'
  BY <1>0, <1>4, <1>6 DEF Evict, Invalidate, Scan, Drop, TypeOK, Goto, InsertSteps
<1>7. ASSUME NEW t \in Thread,
             \/ ColdMiss(t) \/ ColdHit(t) \/ Promote(t) \/ ColdExpired(t) \/ ColdExpire(t)
             \/ ColdPut(t) \/ HotFill(t)
      PROVE  InsertsInTime'
  BY <1>0, <1>4, <1>7 DEF ColdMiss, ColdHit, Promote, ColdExpired, ColdExpire, ColdPut,
                          HotFill, TypeOK, Goto, Return, InsertSteps
<1>8. ASSUME NEW t \in Thread,
             \/ \E P \in UrlPrefix : PrefixStart(t, P)
             \/ ScanEmpty(t) \/ ScanDone(t) \/ ClearStart(t) \/ Bump(t)
      PROVE  InsertsInTime'
  BY <1>0, <1>4, <1>8 DEF PrefixStart, ScanEmpty, ScanDone, ClearStart, Bump,
                          TypeOK, Goto, Return, InsertSteps
<1>9. CASE UNCHANGED vars
  BY <1>4, <1>9 DEF vars, local
<1> QED
  BY <1>1, <1>3, <1>5, <1>6, <1>7, <1>8, <1>9, StepCases

\* A put dates its entry within the call.
LEMMA ColdDatedStep ==
  ASSUME PurgeInv, InsertsInTime, ColdDated, [Next]_vars
  PROVE  ColdDated'
<1> SUFFICES ASSUME NEW k \in DOMAIN cold'
             PROVE  cold'[k].created_at - born'[cold'[k].html] <= MaxInsertTicks
  BY DEF ColdDated
<1>0. TypeOK /\ CallOK
  BY DEF PurgeInv
<1>1. CASE k \in DOMAIN cold /\ cold'[k] = cold[k]
  <2>1. cold[k].html \in Html /\ owner[cold[k].html] # None
    BY <1>0, <1>1, SsrConstants DEF PurgeInv, ColdSound, TypeOK, IsColdMap
  <2> QED
    BY <1>0, <1>1, <2>1, HistoryStays DEF ColdDated
<1>2. ASSUME NEW t \in Thread, pc[t] = "put", key[t] = k,
             cold'[k] = [html |-> page[t], created_at |-> now]
      PROVE  cold'[k].created_at - born'[cold'[k].html] <= MaxInsertTicks
  <2>1. page[t] \in Html /\ owner[page[t]] # None /\ now - born[page[t]] <= MaxInsertTicks
    BY <1>0, <1>2, SsrConstants DEF PurgeInv, CarriedOnce, CallOK, InsertSteps, InsertsInTime
  <2>2. born'[page[t]] = born[page[t]]
    BY <1>0, <2>1, HistoryStays
  <2> QED
    BY <1>2, <2>1, <2>2
<1> QED
  BY <1>0, <1>1, <1>2, ColdStep

\* A thread promotes what it found, or finds a live entry and dates the find.
LEMMA PromoteStep ==
  ASSUME TypeOK, [Next]_vars, NEW t \in Thread, pc'[t] = "promote"
  PROVE  \/ /\ pc[t] = "promote" /\ page'[t] = page[t] /\ since'[t] = since[t]
            /\ now' = now \/ Tick
         \/ /\ pc[t] = "coldGet" /\ key[t] \in DOMAIN cold /\ ~IsExpired(cold[key[t]], now)
            /\ page'[t] = cold[key[t]].html /\ since'[t] = now /\ now' = now
<1> DEFINE Kept  == /\ pc[t] = "promote" /\ page'[t] = page[t] /\ since'[t] = since[t]
                    /\ now' = now \/ Tick
           Found == /\ pc[t] = "coldGet" /\ key[t] \in DOMAIN cold
                    /\ ~IsExpired(cold[key[t]], now)
                    /\ page'[t] = cold[key[t]].html /\ since'[t] = now /\ now' = now
<1> USE DEF TypeOK, Goto, Return, InsertSteps, local, history
<1>1. ASSUME Tick \/ UNCHANGED vars PROVE Kept
  BY <1>1 DEF Tick, vars
<1>2. ASSUME NEW u \in Thread, NEW k \in Key,
             LookupHot(u, k) \/ Evict(u, k) \/ Invalidate(u, k) \/ Scan(u, k) \/ Drop(u, k)
      PROVE  Kept
  BY <1>2 DEF LookupHot, Evict, Invalidate, Scan, Drop
<1>3. ASSUME NEW u \in Thread, ColdHit(u) PROVE Kept \/ Found
  <2>1. CASE u = t
    BY <1>3, <2>1 DEF ColdHit
  <2>2. CASE u # t
    BY <1>3, <2>2 DEF ColdHit
  <2> QED
    BY <2>1, <2>2
<1>4. ASSUME NEW u \in Thread,
             \/ ColdMiss(u) \/ Promote(u) \/ ColdExpired(u) \/ ColdExpire(u)
             \/ ColdPut(u) \/ HotFill(u)
      PROVE  Kept
  BY <1>4 DEF ColdMiss, Promote, ColdExpired, ColdExpire, ColdPut, HotFill
<1>5. ASSUME NEW u \in Thread, NEW k \in Key, NEW p \in Html, InsertStart(u, k, p)
      PROVE  Kept
  BY <1>5 DEF InsertStart
<1>6. ASSUME NEW u \in Thread,
             \/ \E P \in UrlPrefix : PrefixStart(u, P)
             \/ ScanEmpty(u) \/ ScanDone(u) \/ ClearStart(u) \/ Bump(u)
      PROVE  Kept
  BY <1>6 DEF PrefixStart, ScanEmpty, ScanDone, ClearStart, Bump
<1> HIDE DEF Kept, Found, TypeOK, Goto, Return, InsertSteps, local, history
<1>7. Kept \/ Found
  BY <1>1, <1>2, <1>3, <1>4, <1>5, <1>6, StepCases
<1> QED
  BY <1>7 DEF Kept, Found

\* The clock waits for a lookup too, and what a lookup finds is live.
LEMMA FoundDatedStep ==
  ASSUME PurgeInv, ColdDated, LookupsInTime, FoundDated, [Next]_vars
  PROVE  LookupsInTime' /\ FoundDated'
<1>0. /\ TypeOK /\ CallOK /\ now \in Nat /\ TTL \in Nat
      /\ MaxInsertTicks \in Nat /\ MaxLookupTicks \in Nat
  BY HotConstants, SsrConstants DEF PurgeInv, TypeOK
<1>1. ASSUME NEW t \in Thread, pc[t] = "promote", page'[t] = page[t], since'[t] = since[t]
      PROVE  /\ now' = now \/ Tick => now' - since'[t] <= MaxLookupTicks
             /\ TTL > 0 => since'[t] - born'[page'[t]] <= TTL + MaxInsertTicks
  <2>1. page[t] \in Html /\ owner[page[t]] # None
    BY <1>0, <1>1, SsrConstants DEF PurgeInv, FoundSound, CallOK
  <2>2. born'[page[t]] = born[page[t]]
    BY <1>0, <2>1, HistoryStays
  <2>3. since[t] \in Nat /\ now - since[t] <= MaxLookupTicks
    BY <1>0, <1>1 DEF TypeOK, LookupsInTime
  <2>4. Tick => now' = now + 1 /\ now - since[t] < MaxLookupTicks
    BY <1>1 DEF Tick
  <2>5. now' = now \/ Tick => now' - since'[t] <= MaxLookupTicks
    BY <1>0, <1>1, <2>3, <2>4
  <2> QED
    BY <1>1, <2>2, <2>5 DEF FoundDated
<1>2. ASSUME NEW t \in Thread, pc[t] = "coldGet", key[t] \in DOMAIN cold,
             ~IsExpired(cold[key[t]], now),
             page'[t] = cold[key[t]].html, since'[t] = now, now' = now
      PROVE  /\ now' - since'[t] <= MaxLookupTicks
             /\ TTL > 0 => since'[t] - born'[page'[t]] <= TTL + MaxInsertTicks
  <2> DEFINE c == cold[key[t]]
  <2>1. /\ c.html \in Html /\ owner[c.html] # None
        /\ c.created_at \in Nat /\ born[c.html] \in Nat
        /\ c.created_at - born[c.html] <= MaxInsertTicks
    BY <1>0, <1>2, SsrConstants DEF PurgeInv, ColdSound, ColdDated, TypeOK, IsColdMap
  <2>2. TTL > 0 => now - c.created_at <= TTL
    BY <1>0, <1>2, <2>1 DEF IsExpired
  <2>3. born'[c.html] = born[c.html]
    BY <1>0, <2>1, HistoryStays
  <2>4. page'[t] = c.html
    BY <1>2
  <2> HIDE DEF c
  <2> QED
    BY <1>0, <1>2, <2>1, <2>2, <2>3, <2>4
<1>3. ASSUME NEW t \in Thread, pc'[t] = "promote"
      PROVE  /\ now' - since'[t] <= MaxLookupTicks
             /\ TTL > 0 => since'[t] - born'[page'[t]] <= TTL + MaxInsertTicks
  BY <1>0, <1>1, <1>2, <1>3, PromoteStep
<1> QED
  BY <1>3 DEF LookupsInTime, FoundDated

\* A promotion dates its entry within the time of a lookup after the find, a
\* fill within the time of its insert.
LEMMA HotDatedStep ==
  ASSUME PurgeInv, HotOwned, Dated, [Next]_vars
  PROVE  HotDated'
<1> SUFFICES ASSUME TTL > 0, NEW t \in Thread, NEW e \in Entries(hot'[t])
             PROVE  e.created_at - born'[e.html] <= TTL + MaxInsertTicks + MaxLookupTicks
  BY DEF HotDated
<1>0. /\ TypeOK /\ CallOK /\ now \in Nat /\ TTL \in Nat
      /\ MaxInsertTicks \in Nat /\ MaxLookupTicks \in Nat
  BY HotConstants, SsrConstants DEF PurgeInv, TypeOK
<1>1. e \in Entries(hot[t]) \cup Promoted(t) \cup Filled(t)
  BY <1>0, HotStep
<1>2. /\ e.html \in Html /\ owner[e.html] # None
      /\ e.created_at - born[e.html] <= TTL + MaxInsertTicks + MaxLookupTicks
  <2>1. CASE e \in Entries(hot[t])
    <3>1. e \in HotEntry /\ owner[e.html] = e.url_hash
      BY <1>0, <2>1, EntriesTypes DEF TypeOK, HotOwned
    <3> QED
      BY <2>1, <3>1, SsrConstants DEF Dated, HotDated, HotEntry
  <2>2. CASE e \in Promoted(t)
    <3>1. e.html = page[t] /\ e.created_at = now /\ pc[t] = "promote"
      BY <2>2 DEF Promoted
    <3>2. /\ page[t] \in Html /\ owner[page[t]] # None
          /\ born[page[t]] \in Nat /\ since[t] \in Nat
      BY <1>0, <3>1, SsrConstants DEF PurgeInv, FoundSound, CallOK, TypeOK
    <3>3. /\ now - since[t] <= MaxLookupTicks
          /\ since[t] - born[page[t]] <= TTL + MaxInsertTicks
      BY <3>1 DEF Dated, LookupsInTime, FoundDated
    <3> QED
      BY <1>0, <3>1, <3>2, <3>3
  <2>3. CASE e \in Filled(t)
    <3>1. e.html = page[t] /\ e.created_at = now /\ pc[t] = "fill"
      BY <2>3 DEF Filled
    <3>2. /\ page[t] \in Html /\ owner[page[t]] # None /\ born[page[t]] \in Nat
          /\ now - born[page[t]] <= MaxInsertTicks
      BY <1>0, <3>1, SsrConstants
         DEF PurgeInv, CarriedOnce, CallOK, InsertSteps, Dated, InsertsInTime, TypeOK
    <3> QED
      BY <1>0, <3>1, <3>2
  <2> QED
    BY <1>1, <2>1, <2>2, <2>3
<1>3. born'[e.html] = born[e.html]
  BY <1>0, <1>2, HistoryStays
<1> QED
  BY <1>2, <1>3

LEMMA AlwaysDated == Spec => []Dated
<1>1. Init => Dated
  BY NewHotCacheEntries DEF Init, Dated, InsertsInTime, LookupsInTime, ColdDated, FoundDated,
                            HotDated, InsertSteps
<1>2. PurgeInv /\ HotOwned /\ Dated /\ [Next]_vars => Dated'
  BY InsertsInTimeStep, FoundDatedStep, ColdDatedStep, HotDatedStep DEF Dated
<1> QED
  BY <1>1, <1>2, AlwaysOwned, PTL DEF Spec

\* A page is answered at most two TTLs after its insert began, and the time an
\* insert call and the lookup that promoted it take (ssr.rs:136, cold.rs:80,
\* hot.rs:132).
THEOREM TwoLivesAtMost == Spec => []AgeBound
<1>1. PurgeInv /\ HotOwned /\ Dated => AgeBound
  <2> SUFFICES ASSUME PurgeInv, HotOwned, Dated, TTL > 0, NEW p \in Reachable \cup Answering
               PROVE  now - born[p] <= 2 * TTL + MaxInsertTicks + MaxLookupTicks
    BY DEF AgeBound
  <2>0. /\ TypeOK /\ now \in Nat /\ TTL \in Nat
        /\ MaxInsertTicks \in Nat /\ MaxLookupTicks \in Nat
    BY HotConstants, SsrConstants DEF PurgeInv, TypeOK
  <2>1. ASSUME NEW t \in Thread, NEW e \in Entries(hot[t]), e.html = p, ~IsExpired(e, now)
        PROVE  now - born[p] <= 2 * TTL + MaxInsertTicks + MaxLookupTicks
    <3>1. /\ e \in HotEntry
          /\ e.created_at - born[e.html] <= TTL + MaxInsertTicks + MaxLookupTicks
      BY <2>0, EntriesTypes DEF TypeOK, Dated, HotDated
    <3>2. e.created_at \in Nat /\ born[e.html] \in Nat /\ now - e.created_at <= TTL
      BY <2>0, <2>1, <3>1 DEF HotEntry, IsExpired, TypeOK
    <3> QED
      BY <2>0, <2>1, <3>1, <3>2
  <2>2. ASSUME NEW k \in DOMAIN cold, cold[k].html = p, ~IsExpired(cold[k], now)
        PROVE  now - born[p] <= 2 * TTL + MaxInsertTicks + MaxLookupTicks
    <3>1. /\ cold[k].created_at \in Nat /\ born[cold[k].html] \in Nat
          /\ cold[k].created_at - born[cold[k].html] <= MaxInsertTicks
          /\ now - cold[k].created_at <= TTL
      BY <2>0, <2>2 DEF IsExpired, TypeOK, IsColdMap, Dated, ColdDated
    <3> QED
      BY <2>0, <2>2, <3>1
  <2>3. ASSUME NEW t \in Thread, pc[t] = "promote", page[t] = p
        PROVE  now - born[p] <= 2 * TTL + MaxInsertTicks + MaxLookupTicks
    <3>1. /\ born[page[t]] \in Nat /\ since[t] \in Nat
          /\ now - since[t] <= MaxLookupTicks
          /\ since[t] - born[page[t]] <= TTL + MaxInsertTicks
      BY <2>3 DEF PurgeInv, CallOK, TypeOK, Dated, LookupsInTime, FoundDated
    <3> QED
      BY <2>0, <2>3, <3>1
  <2>4. CASE p \in Answering
    BY <2>3, <2>4 DEF Answering, Promoting
  <2>5. CASE p \in Reachable
    <3>1. PICK t \in Thread, k \in Key : p = LookupNow(t, k) /\ p # None
      BY <2>5 DEF Reachable
    <3> QED
      BY <2>1, <2>2, <3>1, LookupEntry
  <2> QED
    BY <2>4, <2>5
<1> QED
  BY <1>1, AlwaysOwned, AlwaysDated, PTL

-----------------------------------------------------------------------------
(***************************************************************************)
(* SsrCache implements PageCache.                                          *)
(***************************************************************************)

\* Where a page is held, in terms of entries.
HeldIs ==
    \A p : p \in Held <=>
        \/ \E k \in DOMAIN cold : cold[k].html = p
        \/ \E t \in Thread : hotGen[t] = generation /\ \E e \in Entries(hot[t]) : e.html = p
        \/ \E t \in Thread : hotGen[t] = generation /\ pc[t] = "promote" /\ page[t] = p

LEMMA HeldAt == HeldIs
<1> SUFFICES ASSUME NEW p
             PROVE  p \in Held <=>
                      \/ \E k \in DOMAIN cold : cold[k].html = p
                      \/ \E t \in Thread : hotGen[t] = generation
                                             /\ \E e \in Entries(hot[t]) : e.html = p
                      \/ \E t \in Thread : hotGen[t] = generation
                                             /\ pc[t] = "promote" /\ page[t] = p
  BY DEF HeldIs
<1>1. \A t \in Thread : p \in HotPages(Refreshed(t)) <=>
          hotGen[t] = generation /\ \E e \in Entries(hot[t]) : e.html = p
  <2> SUFFICES ASSUME NEW t \in Thread
               PROVE  p \in HotPages(Refreshed(t)) <=>
                        hotGen[t] = generation /\ \E e \in Entries(hot[t]) : e.html = p
    OBVIOUS
  <2>1. CASE hotGen[t] = generation
    BY <2>1, EntriesAndPages DEF Refreshed
  <2>2. CASE hotGen[t] # generation
    BY <2>2, NewHotCachePages DEF Refreshed
  <2> QED
    BY <2>1, <2>2
<1>2. p \in Held <=> \/ \E k \in DOMAIN cold : cold[k].html = p
                     \/ \E t \in Thread : p \in HotPages(Refreshed(t))
                     \/ \E t \in Thread : /\ hotGen[t] = generation /\ pc[t] = "promote"
                                           /\ page[t] = p
  <2>1. p \in {page[t] : t \in {u \in Promoting : hotGen[u] = generation}} <=>
          \E t \in Thread : hotGen[t] = generation /\ pc[t] = "promote" /\ page[t] = p
    BY DEF Promoting
  <2> QED
    BY <2>1 DEF Held
<1> QED
  BY <1>1, <1>2

\* The stage of a page, written out.
LifeIs ==
    Life = [p \in Html |-> IF owner[p] = None THEN "new"
                           ELSE IF p \in Carried THEN "offered"
                           ELSE IF p \in Held THEN "stored" ELSE "gone"]
LEMMA LifeAt == LifeIs
  BY DEF LifeIs, Life

\* A stale hot cache counts again only when its thread empties it
\* (ssr.rs:243-262).
LEMMA CountsAgain ==
  ASSUME PurgeInv, [Next]_vars, NEW t \in Thread,
         hotGen[t] # generation, hotGen'[t] = generation'
  PROVE  (\E k \in Key : LookupHot(t, k)) \/ HotFill(t)
<1>1. TypeOK
  BY DEF PurgeInv
<1> DEFINE quiet == generation' = generation /\ hotGen' = hotGen
<1>2. quiet \/ \E u \in Thread : Bump(u) \/ HotFill(u) \/ \E k \in Key : LookupHot(u, k)
  <2>1. ASSUME Tick \/ UNCHANGED vars PROVE quiet
    BY <2>1 DEF Tick, vars
  <2>2. ASSUME NEW u \in Thread, NEW k \in Key,
               Evict(u, k) \/ Invalidate(u, k) \/ Scan(u, k) \/ Drop(u, k)
        PROVE  quiet
    BY <2>2 DEF Evict, Invalidate, Scan, Drop
  <2>3. ASSUME NEW u \in Thread,
               ColdMiss(u) \/ ColdHit(u) \/ Promote(u) \/ ColdExpired(u) \/ ColdExpire(u)
        PROVE  quiet
    BY <2>3 DEF ColdMiss, ColdHit, Promote, ColdExpired, ColdExpire
  <2>4. ASSUME NEW u \in Thread,
               \/ \E k \in Key, p \in Html : InsertStart(u, k, p)
               \/ ColdPut(u) \/ \E P \in UrlPrefix : PrefixStart(u, P)
        PROVE  quiet
    BY <2>4 DEF InsertStart, ColdPut, PrefixStart
  <2>5. ASSUME NEW u \in Thread, ScanEmpty(u) \/ ScanDone(u) \/ ClearStart(u) PROVE quiet
    BY <2>5 DEF ScanEmpty, ScanDone, ClearStart
  <2> HIDE DEF quiet
  <2> QED
    BY <2>1, <2>2, <2>3, <2>4, <2>5, StepCases
<1>3. ~ \E u \in Thread : Bump(u)
  BY <1>1 DEF Bump, PurgeInv, HotSound, TypeOK
<1>4. hotGen'[t] # hotGen[t]
  <2>1. generation' = generation
    BY <1>2, <1>3 DEF HotFill, LookupHot
  <2> QED
    BY <2>1
<1>5. \E u \in Thread : HotFill(u) \/ \E k \in Key : LookupHot(u, k)
  BY <1>2, <1>3, <1>4
<1>6. ASSUME NEW u \in Thread, hotGen' = [hotGen EXCEPT ![u] = generation]
      PROVE  u = t
  BY <1>1, <1>4, <1>6 DEF TypeOK
<1>7. ASSUME NEW u \in Thread, HotFill(u) PROVE u = t
  BY <1>6, <1>7 DEF HotFill
<1>8. ASSUME NEW u \in Thread, NEW k \in Key, LookupHot(u, k) PROVE u = t
  BY <1>6, <1>8 DEF LookupHot
<1> QED
  BY <1>4, <1>5, <1>7, <1>8

\* A hot cache that counts after a step holds what counted before, or what its
\* thread brought in: no step revives a stale hot cache (ssr.rs:243-262).
LEMMA RefreshedStep ==
  ASSUME PurgeInv, [Next]_vars, NEW t \in Thread, hotGen'[t] = generation',
         NEW e \in Entries(hot'[t])
  PROVE  \/ hotGen[t] = generation /\ e \in Entries(hot[t]) \cup Promoted(t)
         \/ e \in Filled(t)
<1>1. TypeOK /\ CallOK
  BY DEF PurgeInv
<1>2. CASE hotGen[t] = generation
  BY <1>1, <1>2, HotStep
<1>3. CASE hotGen[t] # generation
  <2>4. (\E k \in Key : LookupHot(t, k)) \/ HotFill(t)
    BY <1>3, CountsAgain
  <2>5. Refreshed(t) = NewHotCache
    BY <1>3 DEF Refreshed
  <2>6. CASE \E k \in Key : LookupHot(t, k)
    <3>1. hot'[t] = NewHotCache
      BY <1>1, <2>5, <2>6 DEF LookupHot, TypeOK
    <3> QED
      BY <3>1, NewHotCacheEntries
  <2>7. CASE HotFill(t)
    <3> DEFINE f == [url_hash |-> key[t], html |-> page[t], created_at |-> now]
               r == NewHotCache
    <3>1. key[t] \in Key /\ page[t] \in Html /\ now \in Nat /\ IsHotCache(r)
      BY <1>1, <2>7, NewHotCacheFacts DEF HotFill, CallOK, InsertSteps, TypeOK
    <3>2. hot'[t] = HotInsert(r, key[t], page[t], now)
      BY <1>1, <2>5, <2>7 DEF HotFill, TypeOK
    <3>3. Entries(r) = {}
      BY NewHotCacheEntries
    <3> HIDE DEF r
    <3>4. Entries(HotInsert(r, key[t], page[t], now)) \subseteq Entries(r) \cup {f}
      BY <3>1, HotInsertEntries
    <3> HIDE DEF f
    <3>5. e = f
      BY <3>2, <3>3, <3>4
    <3> QED
      BY <2>7, <3>1, <3>5 DEF f, HotFill, Filled, HotEntry
  <2> QED
    BY <2>4, <2>6, <2>7
<1> QED
  BY <1>2, <1>3

\* A page is held only where it was held, or where an insert call carried it:
\* nothing that is gone comes back (ssr.rs:114-197).
LEMMA HeldStep ==
  ASSUME PurgeInv, [Next]_vars, NEW p \in Held'
  PROVE  p \in Held \cup Carried
<1>1. HeldIs'
  BY HeldAt, PTL
<1>2. TypeOK /\ CallOK /\ HeldIs
  BY HeldAt DEF PurgeInv
<1>3. ASSUME NEW k \in DOMAIN cold', cold'[k].html = p PROVE p \in Held \cup Carried
  <2>1. CASE k \in DOMAIN cold /\ cold'[k] = cold[k]
    BY <1>2, <1>3, <2>1 DEF HeldIs
  <2>2. ASSUME NEW t \in Thread, pc[t] = "put",
               cold'[k] = [html |-> page[t], created_at |-> now]
        PROVE  p \in Carried
    BY <1>3, <2>2 DEF Carried, InsertSteps
  <2> QED
    BY <1>2, <2>1, <2>2, ColdStep
<1>4. ASSUME NEW t \in Thread, hotGen'[t] = generation', NEW e \in Entries(hot'[t]), e.html = p
      PROVE  p \in Held \cup Carried
  <2>1. CASE hotGen[t] = generation /\ e \in Entries(hot[t])
    BY <1>2, <1>4, <2>1 DEF HeldIs
  <2>2. CASE hotGen[t] = generation /\ e \in Promoted(t)
    <3>1. pc[t] = "promote" /\ p = page[t]
      BY <1>4, <2>2 DEF Promoted
    <3> QED
      BY <1>2, <2>2, <3>1 DEF HeldIs
  <2>3. CASE e \in Filled(t)
    <3>1. pc[t] = "fill" /\ p = page[t]
      BY <1>4, <2>3 DEF Filled
    <3> QED
      BY <3>1 DEF Carried, InsertSteps
  <2> QED
    BY <1>4, <2>1, <2>2, <2>3, RefreshedStep
<1>5. ASSUME NEW t \in Thread, hotGen'[t] = generation', pc'[t] = "promote", page'[t] = p
      PROVE  p \in Held \cup Carried
  <2>1. CASE pc[t] = "promote" /\ page'[t] = page[t]
    <3>1. hotGen[t] = generation
      BY <1>5, <2>1, CountsAgain DEF LookupHot, HotFill
    <3> QED
      BY <1>2, <1>5, <2>1, <3>1 DEF HeldIs
  <2>2. CASE key[t] \in DOMAIN cold /\ page'[t] = cold[key[t]].html
    BY <1>2, <1>5, <2>2 DEF HeldIs
  <2> QED
    BY <1>2, <1>5, <2>1, <2>2, PromoteStep
<1> QED
  BY <1>1, <1>3, <1>4, <1>5 DEF HeldIs

\* Steps that neither start nor finish an insert call, nor purge: pages can
\* only be lost.
LEMMA LosesAtMost ==
  ASSUME PurgeInv, [Next]_vars, owner' = owner, purged' = purged, Carried' = Carried
  PROVE  \E Lost \in SUBSET Html : Promise!Lose(Lost)
<1>1. LifeIs /\ LifeIs'
  BY LifeAt, PTL
<1>2. \A p \in Held' : p \in Held \cup Carried
  BY HeldStep
<1> DEFINE Lost == {p \in Html : Life[p] = "stored" /\ p \notin Held'}
<1> SUFFICES Promise!Lose(Lost)
  OBVIOUS
<1>3. ASSUME NEW p \in Html PROVE Life'[p] = IF p \in Lost THEN "gone" ELSE Life[p]
  BY <1>1, <1>2 DEF LifeIs
<1>4. Life' = [p \in Html |-> IF p \in Lost THEN "gone" ELSE Life[p]]
  BY <1>1, <1>3 DEF LifeIs
<1>5. Lost \subseteq Promise!In("stored")
  BY DEF Promise!In
<1> HIDE DEF Lost
<1> QED
  BY <1>4, <1>5 DEF Promise!Lose, Promise!Move

\* What an insert call's start and its second half do to the pages carried.
LEMMA CarriedByStart ==
  ASSUME PurgeInv, NEW t \in Thread, NEW k \in Key, NEW p \in Html, InsertStart(t, k, p)
  PROVE  Carried' = Carried \cup {p}
<1>1. /\ pc[t] \notin InsertSteps /\ pc'[t] \in InsertSteps /\ page'[t] = p
      /\ \A u \in Thread \ {t} : pc'[u] = pc[u] /\ page'[u] = page[u]
  BY DEF InsertStart, PurgeInv, TypeOK, Goto, InsertSteps
<1>2. \A q : q \in Carried <=> \E u \in Thread : pc[u] \in InsertSteps /\ page[u] = q
  BY DEF Carried
<1>3. \A q : q \in Carried' <=> \E u \in Thread : pc'[u] \in InsertSteps /\ page'[u] = q
  BY DEF Carried
<1> QED
  BY <1>1, <1>2, <1>3

LEMMA CarriedByFill ==
  ASSUME PurgeInv, NEW t \in Thread, HotFill(t)
  PROVE  Carried' = Carried \ {page[t]} /\ page[t] \in Carried
<1>1. /\ pc[t] \in InsertSteps /\ pc'[t] \notin InsertSteps
      /\ \A u \in Thread \ {t} : pc'[u] = pc[u] /\ page'[u] = page[u]
      /\ \A u \in Thread \ {t} : pc[u] \in InsertSteps => page[u] # page[t]
  BY DEF HotFill, PurgeInv, TypeOK, CarriedOnce, Goto, Return, InsertSteps
<1>2. \A q : q \in Carried <=> \E u \in Thread : pc[u] \in InsertSteps /\ page[u] = q
  BY DEF Carried
<1>3. \A q : q \in Carried' <=> \E u \in Thread : pc'[u] \in InsertSteps /\ page'[u] = q
  BY DEF Carried
<1> QED
  BY <1>1, <1>2, <1>3

LEMMA CarriedStays ==
  ASSUME \A u \in Thread : /\ pc'[u] \in InsertSteps <=> pc[u] \in InsertSteps
                           /\ pc[u] \in InsertSteps => page'[u] = page[u]
  PROVE  Carried' = Carried
<1>1. \A q : q \in Carried <=> \E u \in Thread : pc[u] \in InsertSteps /\ page[u] = q
  BY DEF Carried
<1>2. \A q : q \in Carried' <=> \E u \in Thread : pc'[u] \in InsertSteps /\ page'[u] = q
  BY DEF Carried
<1> QED
  BY <1>1, <1>2

\* insert offers its page (ssr.rs:152).
LEMMA StartOffers ==
  ASSUME PurgeInv, NEW t \in Thread, NEW k \in Key, NEW p \in Html, InsertStart(t, k, p)
  PROVE  Promise!Offer(p)
<1>1. LifeIs /\ LifeIs' /\ HeldIs /\ HeldIs'
  BY LifeAt, HeldAt, PTL
<1>2. /\ owner[p] = None /\ owner'[p] = k /\ k # None /\ purged' = purged
      /\ \A q \in Html \ {p} : owner'[q] = owner[q]
  BY SsrConstants DEF InsertStart, PurgeInv, TypeOK
<1>3. Carried' = Carried \cup {p}
  BY CarriedByStart
<1>4. Held' = Held
  <2>1. cold' = cold /\ generation' = generation /\ hotGen' = hotGen /\ hot' = hot
    BY DEF InsertStart
  <2>2. /\ pc[t] # "promote" /\ pc'[t] # "promote"
        /\ \A u \in Thread \ {t} : pc'[u] = pc[u] /\ page'[u] = page[u]
    BY DEF InsertStart, PurgeInv, TypeOK, Goto
  <2>3. \A q, u : u \in Thread =>
          ((pc'[u] = "promote" /\ page'[u] = q) <=> (pc[u] = "promote" /\ page[u] = q))
    BY <2>2
  <2>4. \A q : q \in Held' <=> q \in Held
    <3> SUFFICES ASSUME NEW q PROVE q \in Held' <=> q \in Held
      OBVIOUS
    <3>1. (\E u \in Thread : hotGen'[u] = generation' /\ pc'[u] = "promote" /\ page'[u] = q)
            <=> \E u \in Thread : hotGen[u] = generation /\ pc[u] = "promote" /\ page[u] = q
      BY <2>1, <2>3
    <3> QED
      BY <1>1, <2>1, <3>1 DEF HeldIs
  <2> QED
    BY <2>4
<1>5. ASSUME NEW q \in Html PROVE Life'[q] = IF q = p THEN "offered" ELSE Life[q]
  BY <1>1, <1>2, <1>3, <1>4 DEF LifeIs
<1>6. Life' = [q \in Html |-> IF q = p THEN "offered" ELSE Life[q]]
  BY <1>1, <1>5 DEF LifeIs
<1>7. Life[p] = "new"
  BY <1>1, <1>2 DEF LifeIs
<1> QED
  BY <1>2, <1>6, <1>7 DEF Promise!Offer, Promise!Move

\* When insert returns its page is stored (ssr.rs:153-162).
LEMMA FillStores ==
  ASSUME PurgeInv, [Next]_vars, NEW t \in Thread, HotFill(t)
  PROVE  \E p \in Html, Lost \in SUBSET Html : Promise!Store(p, Lost)
<1> DEFINE p == page[t]
           Lost == {q \in Html : Life[q] = "stored" /\ q \notin Held'}
<1>1. LifeIs /\ LifeIs' /\ HeldIs'
  BY LifeAt, HeldAt, PTL
<1>2. \A q \in Held' : q \in Held \cup Carried
  BY HeldStep
<1>3. Carried' = Carried \ {p} /\ p \in Carried
  BY CarriedByFill
<1>4. /\ p \in Html /\ key[t] \in Key /\ owner[p] = key[t] /\ owner[p] # None
      /\ owner' = owner /\ purged' = purged
  BY SsrConstants DEF HotFill, PurgeInv, CallOK, CarriedOnce, InsertSteps
<1>5. p \in Held'
  <2> DEFINE e == [url_hash |-> key[t], html |-> p, created_at |-> now]
             r == Refreshed(t)
  <2>1. /\ hotGen'[t] = generation' /\ hot'[t] = HotInsert(r, key[t], p, now)
        /\ IsHotCache(r) /\ now \in Nat
    BY RefreshedType DEF HotFill, PurgeInv, TypeOK
  <2> HIDE DEF r, p
  <2>2. e \in Entries(HotInsert(r, key[t], p, now))
    BY <1>4, <2>1, HotInsertEntries
  <2>3. e \in Entries(hot'[t]) /\ e.html = p
    BY <2>1, <2>2
  <2> QED
    BY <1>1, <2>1, <2>3 DEF HeldIs
<1> HIDE DEF p
<1>6. ASSUME NEW q \in Html
      PROVE  Life'[q] = IF q \in Lost THEN "gone" ELSE IF q = p THEN "stored" ELSE Life[q]
  BY <1>1, <1>2, <1>3, <1>4, <1>5 DEF LifeIs
<1>7. Life' = [q \in Html |-> IF q \in Lost THEN "gone"
                              ELSE IF q = p THEN "stored" ELSE Life[q]]
  BY <1>1, <1>6 DEF LifeIs
<1>8. Life[p] = "offered"
  BY <1>1, <1>3, <1>4 DEF LifeIs
<1>9. Lost \subseteq Promise!In("stored") /\ Lost \in SUBSET Html
  BY DEF Promise!In
<1> HIDE DEF Lost
<1>10. Promise!Store(p, Lost)
  BY <1>4, <1>7, <1>8, <1>9 DEF Promise!Store, Promise!Move
<1> QED
  BY <1>4, <1>9, <1>10

\* The bump purges what the call was to make unreachable (ssr.rs:171-196).
LEMMA BumpPurges ==
  ASSUME PurgeInv, [Next]_vars, NEW t \in Thread, Bump(t)
  PROVE  \E P, Lost \in SUBSET Html : Promise!Purge(P, Lost)
<1> DEFINE P == doomed[t]
           Lost == {q \in Html : Life[q] = "stored" /\ q \notin Held'}
<1>1. LifeIs /\ LifeIs' /\ HeldIs'
  BY LifeAt, HeldAt, PTL
<1>2. \A q \in Held' : q \in Held \cup Carried
  BY HeldStep
<1>3. Carried' = Carried
  <2>1. \A u \in Thread : /\ pc'[u] \in InsertSteps <=> pc[u] \in InsertSteps
                          /\ pc[u] \in InsertSteps => page'[u] = page[u]
    BY DEF Bump, Return, Goto, PurgeInv, TypeOK, InsertSteps
  <2> QED
    BY <2>1, CarriedStays
<1>4. owner' = owner /\ purged' = purged \cup P /\ P \in SUBSET Html
  BY DEF Bump, PurgeInv, TypeOK
<1>5. \A q \in P : owner[q] # None /\ q \notin Carried
  BY DEF PurgeInv, RevokesDone, CarriedOnce, Carried
<1>6. \A q \in P : q \notin Held'
  <2>1. \A k \in DOMAIN cold' : cold'[k].html \notin P
    BY DEF Bump, PurgeInv, DoomedListed
  <2>2. \A u \in Thread : hotGen'[u] # generation'
    BY DEF Bump, PurgeInv, HotSound, TypeOK
  <2> QED
    BY <1>1, <2>1, <2>2 DEF HeldIs
<1> HIDE DEF P
<1>7. ASSUME NEW q \in Html
      PROVE  Life'[q] = IF q \in P \cup Lost THEN "gone" ELSE Life[q]
  BY <1>1, <1>2, <1>3, <1>4, <1>5, <1>6 DEF LifeIs
<1>8. Life' = [q \in Html |-> IF q \in P \cup Lost THEN "gone" ELSE Life[q]]
  BY <1>1, <1>7 DEF LifeIs
<1>9. P \subseteq Promise!In("stored") \cup Promise!In("gone")
  BY <1>1, <1>4, <1>5 DEF Promise!In, LifeIs
<1>10. Lost \subseteq Promise!In("stored") /\ Lost \in SUBSET Html
  BY DEF Promise!In
<1> HIDE DEF Lost
<1>11. Promise!Purge(P, Lost)
  BY <1>4, <1>8, <1>9, <1>10 DEF Promise!Purge, Promise!Move
<1> QED
  BY <1>4, <1>10, <1>11

\* Every step is one the abstract cache may take.
LEMMA NextKeepsPromise ==
  ASSUME PurgeInv, [Next]_vars
  PROVE  Promise!Next
<1>0. ASSUME owner' = owner, purged' = purged,
             \A u \in Thread : /\ pc'[u] \in InsertSteps <=> pc[u] \in InsertSteps
                               /\ pc[u] \in InsertSteps => page'[u] = page[u]
      PROVE  Promise!Next
  <2>1. Carried' = Carried
    BY <1>0, CarriedStays
  <2> QED
    BY <1>0, <2>1, LosesAtMost DEF Promise!Next
<1> USE DEF PurgeInv, TypeOK, Goto, Return, InsertSteps, local, history
<1>1. CASE Tick \/ UNCHANGED vars
  BY <1>0, <1>1 DEF Tick, vars
<1>2. ASSUME NEW t \in Thread, NEW k \in Key,
             LookupHot(t, k) \/ Evict(t, k)
      PROVE  Promise!Next
  BY <1>0, <1>2 DEF LookupHot, Evict
<1>3. ASSUME NEW t \in Thread, NEW k \in Key,
             Invalidate(t, k) \/ Scan(t, k) \/ Drop(t, k)
      PROVE  Promise!Next
  BY <1>0, <1>3 DEF Invalidate, Scan, Drop
<1>4. ASSUME NEW t \in Thread,
             \/ ColdMiss(t) \/ ColdHit(t) \/ Promote(t) \/ ColdExpired(t)
             \/ ColdExpire(t) \/ ColdPut(t)
      PROVE  Promise!Next
  BY <1>0, <1>4 DEF ColdMiss, ColdHit, Promote, ColdExpired, ColdExpire, ColdPut
<1>5. ASSUME NEW t \in Thread,
             \/ \E P \in UrlPrefix : PrefixStart(t, P)
             \/ ScanEmpty(t) \/ ScanDone(t) \/ ClearStart(t)
      PROVE  Promise!Next
  BY <1>0, <1>5 DEF PrefixStart, ScanEmpty, ScanDone, ClearStart
<1>6. ASSUME NEW t \in Thread, NEW k \in Key, NEW p \in Html, InsertStart(t, k, p)
      PROVE  Promise!Next
  BY <1>6, StartOffers DEF Promise!Next
<1>7. ASSUME NEW t \in Thread, HotFill(t) PROVE Promise!Next
  BY <1>7, FillStores DEF Promise!Next
<1>8. ASSUME NEW t \in Thread, Bump(t) PROVE Promise!Next
  BY <1>8, BumpPurges DEF Promise!Next
<1> QED
  BY <1>1, <1>2, <1>3, <1>4, <1>5, <1>6, <1>7, <1>8, StepCases

\* The caches of all threads together are one cache whose pages live once: no
\* promotion, second half of an insert or stale hot cache puts back a page
\* that is gone (ssr.rs:114-197).
THEOREM PagesLiveOnce == Spec => ImplementsPageCache
<1>1. Init => Promise!Init
  <2> SUFFICES ASSUME Init PROVE Promise!Init
    OBVIOUS
  <2>1. LifeIs
    BY LifeAt
  <2>2. Life = [p \in Html |-> "new"]
    BY <2>1 DEF LifeIs, Init
  <2> QED
    BY <2>2 DEF Init, Promise!Init
<1>2. PurgeInv /\ [Next]_vars => [Promise!Next]_<<Life, purged>>
  BY NextKeepsPromise
<1> QED
  BY <1>1, <1>2, PurgeInvInvariant, PTL DEF Spec, ImplementsPageCache, Promise!Spec
=============================================================================
