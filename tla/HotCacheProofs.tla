--------------------------- MODULE HotCacheProofs ---------------------------
(***************************************************************************)
(* Theorems of HotCache, for every number of keys, pages and slots, every  *)
(* capacity, every TTL and every bound.                                    *)
(***************************************************************************)
EXTENDS HotCache, HotCacheLemmas, FiniteSetTheorems

\* The clock and the history variables keep their types in every step.
LEMMA HistoryTypes ==
  ASSUME TypeOK, [Next]_vars
  PROVE  /\ now' \in Nat /\ latest' \in [Key -> Html \cup {None}]
         /\ clean' \in BOOLEAN
<1>1. ASSUME NEW k \in Key, NEW html \in Html, Insert(k, html)
      PROVE  /\ now' \in Nat /\ latest' \in [Key -> Html \cup {None}]
             /\ clean' \in BOOLEAN
  BY <1>1 DEF TypeOK, Insert
<1>2. ASSUME NEW k \in Key, Get(k)
      PROVE  /\ now' \in Nat /\ latest' \in [Key -> Html \cup {None}]
             /\ clean' \in BOOLEAN
  BY <1>2 DEF TypeOK, Get
<1>3. CASE Clear
  BY <1>3 DEF TypeOK, Clear
<1>4. CASE Tick
  BY <1>4 DEF TypeOK, Tick
<1>5. CASE UNCHANGED vars
  BY <1>5 DEF TypeOK, vars
<1> QED BY <1>1, <1>2, <1>3, <1>4, <1>5 DEF Next

\* No sequence of calls leaves the cache value ill-formed (hot.rs:75-202).
THEOREM TypeCorrect == Spec => []TypeOK
<1>1. Init => TypeOK
  BY NewHotCacheFacts DEF Init, TypeOK
<1>2. TypeOK /\ [Next]_vars => TypeOK'
  <2> SUFFICES ASSUME TypeOK, [Next]_vars  PROVE TypeOK'
    OBVIOUS
  <2>1. IsHotCache(hot')
    <3>1. ASSUME NEW k \in Key, NEW html \in Html, Insert(k, html)
          PROVE  IsHotCache(hot')
      BY <3>1, HotInsertFacts DEF Insert, TypeOK
    <3>2. ASSUME NEW k \in Key, Get(k)  PROVE IsHotCache(hot')
      BY <3>2, AfterGetFacts DEF Get, TypeOK
    <3>3. CASE Clear
      BY <3>3, NewHotCacheFacts DEF Clear
    <3>4. CASE Tick \/ UNCHANGED vars
      BY <3>4 DEF Tick, vars, TypeOK
    <3> QED BY <3>1, <3>2, <3>3, <3>4 DEF Next
  <2> QED BY <2>1, HistoryTypes DEF TypeOK, IsHotCache
<1> QED BY <1>1, <1>2, PTL DEF Spec

\* Eviction can reach every entry of the map: its key is queued
\* (hot.rs:147-158, 161-167).
THEOREM EvictionReachesAll == Spec => []OrderCoversMap
<1>1. Init => OrderCoversMap
  BY NewHotCacheFacts DEF Init, OrderCoversMap, Covered
<1>2. TypeOK /\ OrderCoversMap /\ [Next]_vars => OrderCoversMap'
  <2> SUFFICES ASSUME TypeOK, OrderCoversMap, [Next]_vars  PROVE Covered(hot')
    BY DEF OrderCoversMap, Covered
  <2>1. ASSUME NEW k \in Key, NEW html \in Html, Insert(k, html)
        PROVE  Covered(hot')
    BY <2>1, HotInsertFacts DEF Insert, TypeOK, OrderCoversMap, Covered
  <2>2. ASSUME NEW k \in Key, Get(k)  PROVE Covered(hot')
    BY <2>2, AfterGetFacts DEF Get, TypeOK, OrderCoversMap, Covered
  <2>3. CASE Clear
    BY <2>3, NewHotCacheFacts DEF Clear
  <2>4. CASE Tick \/ UNCHANGED vars
    BY <2>4 DEF Tick, vars, OrderCoversMap, Covered
  <2> QED BY <2>1, <2>2, <2>3, <2>4 DEF Next
<1> QED BY <1>1, <1>2, TypeCorrect, PTL DEF Spec

-----------------------------------------------------------------------------
\* The age of a slot in the ring, without the remainder.
RingAge(next, i) == IF i >= next THEN i - next ELSE i - next + ULTRA_HOT_SIZE

LEMMA RingAges ==
  ASSUME NEW n \in Slots, NEW i \in Slots
  PROVE  /\ (i - n) % ULTRA_HOT_SIZE = RingAge(n, i)
         /\ RingAge(n, i) \in 0 .. ULTRA_HOT_SIZE - 1 /\ (RingAge(n, i) = 0 <=> i = n)
         /\ NextSlot(n) = IF n + 1 = ULTRA_HOT_SIZE THEN 0 ELSE n + 1
         /\ RingAge(NextSlot(n), i) = IF i = n THEN ULTRA_HOT_SIZE - 1 ELSE RingAge(n, i) - 1
<1>1. /\ ULTRA_HOT_SIZE \in Nat /\ ULTRA_HOT_SIZE > 0 /\ n \in Nat /\ i \in Nat
      /\ n < ULTRA_HOT_SIZE /\ i < ULTRA_HOT_SIZE
  BY HotConstants DEF Slots
<1>2. (i - n) % ULTRA_HOT_SIZE = RingAge(n, i)
  BY <1>1 DEF RingAge
<1>3. NextSlot(n) = IF n + 1 = ULTRA_HOT_SIZE THEN 0 ELSE n + 1
  BY <1>1 DEF NextSlot
<1> QED
  BY <1>1, <1>2, <1>3 DEF RingAge

\* Slots were written in the order the pointer reaches them; what has spilled
\* into the map was written before anything still in the array; nothing is
\* dated in the future.
Ring(h) ==
    \A i, j \in Slots :
        h.ultra_hot[i] # None /\ RingAge(h.ultra_hot_next, i) <= RingAge(h.ultra_hot_next, j) =>
            /\ h.ultra_hot[j] # None
            /\ h.ultra_hot[i].created_at <= h.ultra_hot[j].created_at

Spilled(h) ==
    \A k \in DOMAIN h.hot_map : \A i \in Slots :
        h.ultra_hot[i] # None => h.hot_map[k].created_at <= h.ultra_hot[i].created_at

Dated(h, t) ==
    /\ \A i \in Slots : h.ultra_hot[i] # None => h.ultra_hot[i].created_at <= t
    /\ \A k \in DOMAIN h.hot_map : h.hot_map[k].created_at <= t

Aged(h, t) == Ring(h) /\ Spilled(h) /\ Dated(h, t)

LEMMA SmallerMapAged ==
  ASSUME NEW h, NEW t, Aged(h, t), NEW r,
         r.ultra_hot = h.ultra_hot, r.ultra_hot_next = h.ultra_hot_next,
         \A j \in DOMAIN r.hot_map : j \in DOMAIN h.hot_map /\ r.hot_map[j] = h.hot_map[j]
  PROVE  Aged(r, t)
  BY DEF Aged, Ring, Spilled, Dated

\* insert takes over the oldest slot, and what it spills is as old as that.
LEMMA HotInsertAged ==
  ASSUME NEW h, IsHotCache(h), NEW k \in Key, NEW html \in Html, NEW t \in Nat, Aged(h, t)
  PROVE  Aged(HotInsert(h, k, html, t), t)
<1> DEFINE n == h.ultra_hot_next
           e == [url_hash |-> k, html |-> html, created_at |-> t]
           r == HotInsert(h, k, html, t)
<1>1. /\ r.ultra_hot = [h.ultra_hot EXCEPT ![n] = e] /\ r.ultra_hot_next = NextSlot(n)
      /\ \A j \in DOMAIN r.hot_map :
             \/ j \in DOMAIN h.hot_map /\ r.hot_map[j] = h.hot_map[j]
             \/ h.ultra_hot[n] # None /\ r.hot_map[j] = h.ultra_hot[n]
  BY HotInsertFacts
<1>2. /\ n \in Slots /\ h.ultra_hot \in [Slots -> HotEntry \cup {None}]
      /\ e # None /\ e.created_at = t
  BY HotConstants DEF IsHotCache, HotEntry
<1> HIDE DEF n, e, r
<1>3. /\ r.ultra_hot[n] = e /\ \A i \in Slots : i # n => r.ultra_hot[i] = h.ultra_hot[i]
  BY <1>1, <1>2
<1>4. \A i \in Slots : h.ultra_hot[i] # None =>
          h.ultra_hot[i].created_at \in Nat /\ h.ultra_hot[i].created_at <= t
  BY <1>2 DEF HotEntry, Aged, Dated
<1>5. \A j \in DOMAIN h.hot_map : h.hot_map[j].created_at \in Nat /\ h.hot_map[j].created_at <= t
  BY DEF IsHotCache, IsHotMap, HotEntry, Aged, Dated
<1>6. \A i \in Slots : h.ultra_hot[n] # None =>
          h.ultra_hot[i] # None /\ h.ultra_hot[n].created_at <= h.ultra_hot[i].created_at
  <2>1. \A i \in Slots : RingAge(n, n) <= RingAge(n, i)
    BY <1>2, RingAges
  <2> QED
    BY <1>2, <2>1 DEF Aged, Ring, n
<1>7. Dated(r, t)
  BY <1>1, <1>2, <1>3, <1>4, <1>5 DEF Dated
<1>8. Spilled(r)
  <2> SUFFICES ASSUME NEW j \in DOMAIN r.hot_map, NEW i \in Slots, r.ultra_hot[i] # None
               PROVE  r.hot_map[j].created_at <= r.ultra_hot[i].created_at
    BY DEF Spilled
  <2>1. CASE i = n
    BY <1>2, <1>3, <1>7, <2>1 DEF Dated
  <2>2. CASE i # n
    BY <1>1, <1>2, <1>3, <1>6, <2>2 DEF Aged, Spilled
  <2> QED
    BY <2>1, <2>2
<1>9. Ring(r)
  <2> SUFFICES ASSUME NEW i \in Slots, NEW j \in Slots, r.ultra_hot[i] # None,
                      RingAge(NextSlot(n), i) <= RingAge(NextSlot(n), j)
               PROVE  r.ultra_hot[j] # None /\ r.ultra_hot[i].created_at <= r.ultra_hot[j].created_at
    BY <1>1 DEF Ring
  <2>1. CASE j = n
    BY <1>2, <1>3, <1>7, <2>1 DEF Dated
  <2>2. CASE j # n
    <3>1. i # n /\ RingAge(n, i) <= RingAge(n, j)
      <4>1. /\ RingAge(NextSlot(n), i) = IF i = n THEN ULTRA_HOT_SIZE - 1 ELSE RingAge(n, i) - 1
            /\ RingAge(NextSlot(n), j) = RingAge(n, j) - 1
            /\ RingAge(n, i) \in 0 .. ULTRA_HOT_SIZE - 1 /\ RingAge(n, j) \in 0 .. ULTRA_HOT_SIZE - 1
        BY <1>2, <2>2, RingAges
      <4>2. ULTRA_HOT_SIZE \in Nat
        BY HotConstants
      <4> QED
        BY <4>1, <4>2
    <3> QED
      BY <1>3, <2>2, <3>1 DEF Aged, Ring, n
  <2> QED
    BY <2>1, <2>2
<1> QED
  BY <1>7, <1>8, <1>9 DEF Aged, r

LEMMA AfterGetAged ==
  ASSUME NEW h, IsHotCache(h), NEW k \in Key, NEW t \in Nat, Aged(h, t)
  PROVE  Aged(AfterGet(h, k, t), t)
<1> DEFINE g == AfterGet(h, k, t)
<1>1. CASE g = h
  BY <1>1
<1>2. CASE g # h /\ IsExpired(h.hot_map[k], t)
  <2>1. /\ g.ultra_hot = h.ultra_hot /\ g.ultra_hot_next = h.ultra_hot_next
        /\ g.hot_map = Without(h.hot_map, k)
    BY <1>2 DEF AfterGet, HotCacheOf
  <2>2. \A j \in DOMAIN g.hot_map : j \in DOMAIN h.hot_map /\ g.hot_map[j] = h.hot_map[j]
    BY <2>1 DEF Without, Restrict
  <2> QED
    BY <2>1, <2>2, SmallerMapAged
<1>3. CASE g # h /\ ~IsExpired(h.hot_map[k], t)
  <2>1. k \in DOMAIN h.hot_map /\ g = HotInsert(Unmapped(h, k), k, h.hot_map[k].html, t)
    BY <1>3 DEF AfterGet, PromoteToUltraHot
  <2>2. h.hot_map[k].html \in Html
    BY <2>1 DEF IsHotCache, IsHotMap, HotEntry
  <2> DEFINE u == Unmapped(h, k)
  <2>3. IsHotCache(u) /\ Aged(u, t)
    BY UnmappedFacts, SmallerMapAged
  <2> HIDE DEF u
  <2>4. Aged(HotInsert(u, k, h.hot_map[k].html, t), t)
    BY <2>2, <2>3, HotInsertAged
  <2> QED
    BY <2>1, <2>4 DEF u
<1> QED
  BY <1>1, <1>2, <1>3

LEMMA AlwaysAged == Spec => []Aged(hot, now)
<1>1. Init => Aged(hot, now)
  BY HotConstants DEF Init, Aged, Ring, Spilled, Dated, NewHotCache, HotCacheOf
<1>2. TypeOK /\ Aged(hot, now) /\ [Next]_vars => Aged(hot, now)'
  <2> SUFFICES ASSUME TypeOK, Aged(hot, now), [Next]_vars PROVE Aged(hot', now')
    OBVIOUS
  <2>1. IsHotCache(hot) /\ now \in Nat
    BY DEF TypeOK
  <2>2. ASSUME NEW k \in Key, NEW html \in Html, Insert(k, html) PROVE Aged(hot', now')
    <3>1. Aged(HotInsert(hot, k, html, now), now)
      BY <2>1, HotInsertAged
    <3> QED
      BY <2>2, <3>1 DEF Insert
  <2>3. ASSUME NEW k \in Key, Get(k) PROVE Aged(hot', now')
    <3>1. Aged(AfterGet(hot, k, now), now)
      BY <2>1, AfterGetAged
    <3> QED
      BY <2>3, <3>1 DEF Get
  <2>4. CASE Clear
    BY <2>4, HotConstants DEF Clear, Aged, Ring, Spilled, Dated, NewHotCache, HotCacheOf
  <2>5. CASE Tick
    <3>1. /\ \A i \in Slots : hot.ultra_hot[i] # None => hot.ultra_hot[i].created_at \in Nat
          /\ \A k \in DOMAIN hot.hot_map : hot.hot_map[k].created_at \in Nat
      BY <2>1 DEF IsHotCache, IsHotMap, HotEntry
    <3> QED
      BY <2>1, <2>5, <3>1 DEF Tick, Aged, Ring, Spilled, Dated
  <2>6. CASE UNCHANGED vars
    BY <2>6 DEF vars
  <2> QED
    BY <2>2, <2>3, <2>4, <2>5, <2>6 DEF Next
<1> QED
  BY <1>1, <1>2, TypeCorrect, PTL DEF Spec

\* The slot overwritten next is the oldest, for every array size (hot.rs:128-144).
THEOREM OverwritesOldest == Spec => []RingInOrder
<1>1. TypeOK /\ Aged(hot, now) => RingInOrder
  <2> SUFFICES ASSUME TypeOK, Aged(hot, now) PROVE RingInOrder
    OBVIOUS
  <2>1. \A i \in Slots : Age(i) = RingAge(hot.ultra_hot_next, i)
    BY RingAges DEF Age, TypeOK, IsHotCache
  <2> QED
    BY <2>1 DEF Aged, Ring, RingInOrder
<1> QED
  BY <1>1, TypeCorrect, AlwaysAged, PTL

\* A lookup that stops at the array hides nothing newer in the map, and a
\* promotion puts back nothing older (hot.rs:77-84, 94-95).
THEOREM SpillsOldest == Spec => []SpilledIsOlder
<1>1. Aged(hot, now) => SpilledIsOlder
  BY DEF Aged, Spilled, SpilledIsOlder, SlotsOf
<1> QED
  BY <1>1, AlwaysAged, PTL

-----------------------------------------------------------------------------
\* A clean cache: the queue lists the keys of the map once each, in the order
\* their entries were written, and no key is held twice.
Listed(h) ==
    /\ IsInjective(h.access_order) /\ ToSet(h.access_order) = DOMAIN h.hot_map
    /\ IsFiniteSet(DOMAIN h.hot_map)

InOrder(h) ==
    \A a, b \in DOMAIN h.access_order : a <= b =>
        h.hot_map[h.access_order[a]].created_at <= h.hot_map[h.access_order[b]].created_at

KeysApart(h) ==
    \A i \in Slots : h.ultra_hot[i] # None =>
        /\ h.ultra_hot[i].url_hash \notin DOMAIN h.hot_map
        /\ \A j \in Slots : h.ultra_hot[j] # None /\ h.ultra_hot[i].url_hash = h.ultra_hot[j].url_hash
                            => i = j

Fits(h) == Cardinality(DOMAIN h.hot_map) <= HOT_MAP_CAPACITY

Tidy(h) == Listed(h) /\ InOrder(h) /\ KeysApart(h) /\ Fits(h)

LEMMA InOrderFacts ==
  ASSUME NEW h, InOrder(h), NEW a \in DOMAIN h.access_order, NEW b \in DOMAIN h.access_order, a <= b
  PROVE  h.hot_map[h.access_order[a]].created_at <= h.hot_map[h.access_order[b]].created_at
  BY DEF InOrder

\* Without the head of its queue the cache is still in order.
LEMMA WithoutHeadTidy ==
  ASSUME NEW h, IsHotCache(h), Listed(h), InOrder(h), h.access_order # << >>, NEW r,
         r.hot_map = Without(h.hot_map, Head(h.access_order)), r.access_order = Tail(h.access_order)
  PROVE  /\ Listed(r) /\ InOrder(r)
         /\ Cardinality(DOMAIN r.hot_map) = Cardinality(DOMAIN h.hot_map) - 1
<1> DEFINE o == h.access_order
<1>1. /\ o \in Seq(Key) /\ Head(o) \in Key /\ Tail(o) \in Seq(Key)
      /\ ToSet(o) = ToSet(Tail(o)) \cup {Head(o)} /\ IsInjective(Tail(o))
      /\ Head(o) \notin ToSet(Tail(o))
  BY TailFacts DEF IsHotCache, Listed
<1>2. /\ DOMAIN r.hot_map = DOMAIN h.hot_map \ {Head(o)}
      /\ \A j \in DOMAIN r.hot_map : r.hot_map[j] = h.hot_map[j]
  BY DEF Without, Restrict
<1>3. /\ IsFiniteSet(DOMAIN r.hot_map) /\ Head(o) \in DOMAIN h.hot_map
      /\ Cardinality(DOMAIN r.hot_map) = Cardinality(DOMAIN h.hot_map) - 1
  BY <1>1, <1>2, FS_RemoveElement DEF Listed
<1>4. Listed(r)
  BY <1>1, <1>2, <1>3 DEF Listed
<1>5. InOrder(r)
  <2>1. DOMAIN Tail(o) = 1 .. Len(o) - 1 /\ DOMAIN o = 1 .. Len(o) /\ Len(o) \in Nat
        /\ \A a \in 1 .. Len(o) - 1 : Tail(o)[a] = o[a + 1]
    BY <1>1
  <2> SUFFICES ASSUME NEW a \in DOMAIN Tail(o), NEW b \in DOMAIN Tail(o), a <= b
               PROVE  r.hot_map[Tail(o)[a]].created_at <= r.hot_map[Tail(o)[b]].created_at
    BY DEF InOrder
  <2>2. a + 1 \in DOMAIN o /\ b + 1 \in DOMAIN o /\ a + 1 <= b + 1
    BY <2>1
  <2>3. Tail(o)[a] \in DOMAIN r.hot_map /\ Tail(o)[b] \in DOMAIN r.hot_map
    BY <1>4 DEF Listed, ToSet
  <2>4. h.hot_map[o[a + 1]].created_at <= h.hot_map[o[b + 1]].created_at
    BY <2>2, InOrderFacts
  <2> QED
    BY <1>2, <2>1, <2>3, <2>4
<1> QED
  BY <1>3, <1>4, <1>5

LEMMA MakeRoomTidy ==
  ASSUME NEW h, IsHotCache(h), Listed(h), InOrder(h), Fits(h)
  PROVE  LET r == MakeRoom(h)
         IN  /\ Listed(r) /\ InOrder(r)
             /\ Cardinality(DOMAIN r.hot_map) <= HOT_MAP_CAPACITY - 1
<1>0. /\ Cardinality(DOMAIN h.hot_map) \in Nat /\ HOT_MAP_CAPACITY \in Nat \ {0}
      /\ Cardinality(DOMAIN h.hot_map) <= HOT_MAP_CAPACITY
  BY HotConstants, FS_CardinalityType DEF Listed, Fits
<1>1. CASE Cardinality(DOMAIN h.hot_map) >= HOT_MAP_CAPACITY
  <2>1. h.access_order # << >>
    <3>1. DOMAIN h.hot_map # {}
      BY <1>0, <1>1, FS_EmptySet
    <3> QED
      BY <3>1 DEF Listed, ToSet
  <2>2. /\ MakeRoom(h).hot_map = Without(h.hot_map, Head(h.access_order))
        /\ MakeRoom(h).access_order = Tail(h.access_order)
    BY <1>1, <2>1 DEF MakeRoom, HotCacheOf
  <2>3. /\ Listed(MakeRoom(h)) /\ InOrder(MakeRoom(h))
        /\ Cardinality(DOMAIN MakeRoom(h).hot_map) = Cardinality(DOMAIN h.hot_map) - 1
    BY <2>1, <2>2, WithoutHeadTidy
  <2> QED
    BY <1>0, <2>3
<1>2. CASE ~ (Cardinality(DOMAIN h.hot_map) >= HOT_MAP_CAPACITY)
  <2>1. MakeRoom(h) = h
    BY <1>2 DEF MakeRoom
  <2> QED
    BY <1>0, <1>2, <2>1
<1> QED
  BY <1>1, <1>2

\* Only the head of the queue is evicted.
LEMMA MakeRoomLoses ==
  ASSUME NEW h, NEW j \in DOMAIN h.hot_map \ DOMAIN MakeRoom(h).hot_map
  PROVE  h.access_order # << >> /\ j = Head(h.access_order)
<1>1. MakeRoom(h) # h
  OBVIOUS
<1>2. /\ h.access_order # << >>
      /\ MakeRoom(h).hot_map = Without(h.hot_map, Head(h.access_order))
  BY <1>1 DEF MakeRoom, HotCacheOf
<1> QED
  BY <1>2 DEF Without, Restrict

\* An entry as new as any in the map is queued last.
LEMMA SpillTidy ==
  ASSUME NEW h, IsHotCache(h), Listed(h), InOrder(h), Fits(h),
         NEW e \in HotEntry, e.url_hash \notin DOMAIN h.hot_map,
         \A j \in DOMAIN h.hot_map : h.hot_map[j].created_at <= e.created_at
  PROVE  LET r == InsertToHotMap(h, e)
         IN  /\ Listed(r) /\ InOrder(r) /\ Fits(r)
             /\ DOMAIN r.hot_map \subseteq DOMAIN h.hot_map \cup {e.url_hash}
<1> DEFINE m == MakeRoom(h)
           r == InsertToHotMap(h, e)
           o == m.access_order
<1>1. /\ Listed(m) /\ InOrder(m) /\ Cardinality(DOMAIN m.hot_map) <= HOT_MAP_CAPACITY - 1
      /\ IsHotCache(m) /\ DOMAIN m.hot_map \subseteq DOMAIN h.hot_map
      /\ \A j \in DOMAIN m.hot_map : m.hot_map[j] = h.hot_map[j]
  BY MakeRoomTidy, MakeRoomFacts
<1>2. /\ r.hot_map = Put(m.hot_map, e.url_hash, e)
      /\ r.access_order = Append(o, e.url_hash)
  BY DEF InsertToHotMap, HotCacheOf
<1> HIDE DEF m, r
<1>3. /\ e.url_hash \in Key /\ e.url_hash \notin DOMAIN m.hot_map /\ o \in Seq(Key)
      /\ e.created_at \in Nat
  BY <1>1 DEF HotEntry, IsHotCache
<1>4. /\ DOMAIN r.hot_map = DOMAIN m.hot_map \cup {e.url_hash} /\ r.hot_map[e.url_hash] = e
      /\ \A j \in DOMAIN m.hot_map : r.hot_map[j] = m.hot_map[j]
  BY <1>2, <1>3 DEF Put
<1>5. Listed(r)
  <2>1. ToSet(r.access_order) = ToSet(o) \cup {e.url_hash} /\ IsInjective(r.access_order)
    BY <1>1, <1>2, <1>3, AppendFacts DEF Listed
  <2>2. IsFiniteSet(DOMAIN r.hot_map)
    BY <1>1, <1>4, FS_AddElement DEF Listed
  <2> QED
    BY <1>1, <1>4, <2>1, <2>2 DEF Listed
<1>6. Fits(r)
  <2>1. /\ Cardinality(DOMAIN r.hot_map) = Cardinality(DOMAIN m.hot_map) + 1
        /\ Cardinality(DOMAIN m.hot_map) \in Nat /\ HOT_MAP_CAPACITY \in Nat
    BY <1>1, <1>3, <1>4, FS_AddElement, FS_CardinalityType, HotConstants DEF Listed
  <2> QED
    BY <1>1, <2>1 DEF Fits
<1>7. InOrder(r)
  <2> DEFINE q == Append(o, e.url_hash)  n == Len(o) + 1
  <2>1. /\ DOMAIN q = 1 .. n /\ DOMAIN o = 1 .. n - 1 /\ n \in Nat /\ q[n] = e.url_hash
        /\ \A a \in 1 .. n - 1 : q[a] = o[a]
    BY <1>3
  <2>2. \A a \in 1 .. n - 1 : o[a] \in DOMAIN m.hot_map
    BY <1>1, <2>1 DEF Listed, ToSet
  <2> SUFFICES ASSUME NEW a \in 1 .. n, NEW b \in 1 .. n, a <= b
               PROVE  r.hot_map[q[a]].created_at <= r.hot_map[q[b]].created_at
    BY <1>2, <2>1 DEF InOrder
  <2>3. CASE b = n /\ a = n
    BY <1>3, <1>4, <2>1, <2>3
  <2>4. CASE b = n /\ a # n
    BY <1>1, <1>4, <2>1, <2>2, <2>4
  <2>5. CASE b # n
    <3>1. a \in 1 .. n - 1 /\ b \in 1 .. n - 1
      BY <2>1, <2>5
    <3>2. m.hot_map[o[a]].created_at <= m.hot_map[o[b]].created_at
      BY <1>1, <2>1, <3>1, InOrderFacts
    <3> QED
      BY <1>4, <2>1, <2>2, <3>1, <3>2
  <2> QED
    BY <2>3, <2>4, <2>5
<1> QED
  BY <1>1, <1>4, <1>5, <1>6, <1>7 DEF r

\* insert of an absent key keeps a clean cache clean.
LEMMA HotInsertTidy ==
  ASSUME NEW h, IsHotCache(h), Tidy(h), Ring(h), Spilled(h),
         NEW k \in Key, NEW html \in Html, NEW t \in Nat,
         SlotsOf(h, k) = {}, k \notin DOMAIN h.hot_map
  PROVE  Tidy(HotInsert(h, k, html, t))
<1> DEFINE n == h.ultra_hot_next
           e == [url_hash |-> k, html |-> html, created_at |-> t]
           v == h.ultra_hot[n]
           s == IF v = None THEN h ELSE InsertToHotMap(h, v)
           r == HotInsert(h, k, html, t)
<1>1. /\ r.ultra_hot = [h.ultra_hot EXCEPT ![n] = e]
      /\ r.hot_map = s.hot_map /\ r.access_order = s.access_order
  BY DEF HotInsert, HotCacheOf
<1>2. /\ n \in Slots /\ h.ultra_hot \in [Slots -> HotEntry \cup {None}] /\ v \in HotEntry \cup {None}
      /\ e # None /\ e.url_hash = k
  BY HotConstants DEF IsHotCache, HotEntry
<1>3. /\ Listed(s) /\ InOrder(s) /\ Fits(s)
      /\ \A j \in DOMAIN s.hot_map : j \in DOMAIN h.hot_map \/ (v # None /\ j = v.url_hash)
  <2>1. CASE v = None
    BY <2>1 DEF Tidy
  <2>2. CASE v # None
    <3>1. /\ v \in HotEntry /\ v.url_hash \notin DOMAIN h.hot_map
          /\ \A j \in DOMAIN h.hot_map : h.hot_map[j].created_at <= v.created_at
      BY <1>2, <2>2 DEF Tidy, KeysApart, Spilled
    <3> HIDE DEF v
    <3>2. /\ Listed(InsertToHotMap(h, v)) /\ InOrder(InsertToHotMap(h, v)) /\ Fits(InsertToHotMap(h, v))
          /\ DOMAIN InsertToHotMap(h, v).hot_map \subseteq DOMAIN h.hot_map \cup {v.url_hash}
      BY <3>1, SpillTidy DEF Tidy
    <3> QED
      BY <2>2, <3>2
  <2> QED
    BY <2>1, <2>2
<1> HIDE DEF n, e, s, r
<1>4. Listed(r) /\ InOrder(r) /\ Fits(r)
  BY <1>1, <1>3 DEF Listed, InOrder, Fits
<1>5. KeysApart(r)
  <2>1. /\ r.ultra_hot[n] = e /\ \A i \in Slots : i # n => r.ultra_hot[i] = h.ultra_hot[i]
    BY <1>1, <1>2
  <2>2. \A i \in Slots : h.ultra_hot[i] # None => h.ultra_hot[i].url_hash # k
    BY DEF SlotsOf
  <2>3. \A i \in Slots : h.ultra_hot[i] # None =>
           /\ h.ultra_hot[i].url_hash \notin DOMAIN h.hot_map
           /\ \A j \in Slots : h.ultra_hot[j] # None /\ h.ultra_hot[i].url_hash = h.ultra_hot[j].url_hash
                               => i = j
    BY DEF Tidy, KeysApart
  <2>4. k \notin DOMAIN r.hot_map
    BY <1>1, <1>2, <1>3, <2>2
  <2>5. \A i \in Slots : i # n /\ h.ultra_hot[i] # None =>
           h.ultra_hot[i].url_hash \notin DOMAIN r.hot_map
    BY <1>1, <1>2, <1>3, <2>3
  <2> QED
    BY <1>2, <2>1, <2>2, <2>3, <2>4, <2>5 DEF KeysApart
<1> QED
  BY <1>4, <1>5 DEF Tidy, r

\* The first half of a promotion.
LEMMA UnmappedTidy ==
  ASSUME NEW h, IsHotCache(h), Tidy(h), NEW k
  PROVE  /\ Tidy(Unmapped(h, k)) /\ k \notin DOMAIN Unmapped(h, k).hot_map
         /\ SlotsOf(Unmapped(h, k), k) = SlotsOf(h, k)
<1> DEFINE u == Unmapped(h, k)
           o == h.access_order
           d == DropFirst(o, k)
<1>1. /\ u.ultra_hot = h.ultra_hot /\ u.access_order = d
      /\ DOMAIN u.hot_map = DOMAIN h.hot_map \ {k}
      /\ \A j \in DOMAIN u.hot_map : u.hot_map[j] = h.hot_map[j]
  BY UnmappedFacts
<1> HIDE DEF u
<1>2. /\ o \in Seq(Key) /\ IsInjective(o) /\ ToSet(o) = DOMAIN h.hot_map
      /\ IsFiniteSet(DOMAIN h.hot_map)
  BY DEF IsHotCache, Tidy, Listed
<1>3. /\ d \in Seq(Key) /\ IsInjective(d) /\ ToSet(d) = ToSet(o) \ {k}
      /\ k \in ToSet(o) => \E p \in 1 .. Len(o) :
             /\ o[p] = k /\ Len(d) = Len(o) - 1
             /\ \A i \in 1 .. Len(o) - 1 : d[i] = IF i < p THEN o[i] ELSE o[i + 1]
  <2> HIDE DEF o
  <2>1. /\ d \in Seq(Key)
        /\ ToSet(d) \subseteq ToSet(o)
        /\ ToSet(o) \ {k} \subseteq ToSet(d)
        /\ IsInjective(o) => /\ IsInjective(d)
                             /\ k \notin ToSet(d)
    BY <1>2, DropFirstFacts
  <2>2. ASSUME k \in ToSet(o)
        PROVE  \E p \in 1 .. Len(o) :
                   /\ o[p] = k /\ Len(d) = Len(o) - 1
                   /\ \A i \in 1 .. Len(o) - 1 : d[i] = IF i < p THEN o[i] ELSE o[i + 1]
    BY <1>2, <2>2, DropFirstPlace
  <2> HIDE DEF d
  <2>3. IsInjective(d) /\ ToSet(d) = ToSet(o) \ {k}
    BY <1>2, <2>1
  <2> QED
    BY <2>1, <2>2, <2>3
<1>4. /\ IsFiniteSet(DOMAIN u.hot_map)
      /\ Cardinality(DOMAIN u.hot_map) <= Cardinality(DOMAIN h.hot_map)
  BY <1>1, <1>2, FS_Subset
<1>5. Listed(u)
  BY <1>1, <1>2, <1>3, <1>4 DEF Listed
<1>6. Fits(u)
  <2>1. /\ Cardinality(DOMAIN u.hot_map) \in Nat /\ Cardinality(DOMAIN h.hot_map) \in Nat
        /\ HOT_MAP_CAPACITY \in Nat
    BY <1>2, <1>4, FS_CardinalityType, HotConstants
  <2> QED
    BY <1>4, <2>1 DEF Tidy, Fits
<1>7. KeysApart(u)
  BY <1>1 DEF Tidy, KeysApart
<1>8. InOrder(u)
  <2>1. CASE k \notin ToSet(o)
    <3>1. d = o /\ \A a \in DOMAIN o : o[a] \in DOMAIN u.hot_map
      BY <1>1, <1>2, <2>1 DEF DropFirst, ToSet
    <3> QED
      BY <1>1, <3>1 DEF Tidy, InOrder
  <2>2. CASE k \in ToSet(o)
    <3>1. PICK p \in 1 .. Len(o) :
             /\ o[p] = k /\ Len(d) = Len(o) - 1
             /\ \A i \in 1 .. Len(o) - 1 : d[i] = IF i < p THEN o[i] ELSE o[i + 1]
      BY <1>3, <2>2
    <3>2. DOMAIN d = 1 .. Len(o) - 1 /\ DOMAIN o = 1 .. Len(o) /\ Len(o) \in Nat
      BY <1>2, <1>3, <3>1
    <3> DEFINE at(i) == IF i < p THEN i ELSE i + 1
    <3>3. \A i \in DOMAIN d : at(i) \in DOMAIN o /\ d[i] = o[at(i)]
      BY <3>1, <3>2
    <3>4. \A a, b \in DOMAIN d : a <= b => at(a) <= at(b)
      BY <3>1, <3>2
    <3> HIDE DEF at
    <3> SUFFICES ASSUME NEW a \in DOMAIN d, NEW b \in DOMAIN d, a <= b
                 PROVE  u.hot_map[d[a]].created_at <= u.hot_map[d[b]].created_at
      BY <1>1 DEF InOrder
    <3>5. d[a] \in DOMAIN u.hot_map /\ d[b] \in DOMAIN u.hot_map
      BY <1>1, <1>5 DEF Listed, ToSet
    <3>6. h.hot_map[o[at(a)]].created_at <= h.hot_map[o[at(b)]].created_at
      BY <3>3, <3>4, InOrderFacts DEF Tidy
    <3> QED
      BY <1>1, <3>3, <3>5, <3>6
  <2> QED
    BY <2>1, <2>2
<1>9. k \notin DOMAIN u.hot_map /\ SlotsOf(u, k) = SlotsOf(h, k)
  BY <1>1 DEF SlotsOf
<1> QED
  BY <1>5, <1>6, <1>7, <1>8, <1>9 DEF Tidy, u

\* insert drops from the map at most the head of the queue.
LEMMA HotInsertLoses ==
  ASSUME NEW h, NEW k, NEW html, NEW t,
         NEW j \in DOMAIN h.hot_map \ DOMAIN HotInsert(h, k, html, t).hot_map
  PROVE  h.access_order # << >> /\ j = Head(h.access_order)
<1> DEFINE v == h.ultra_hot[h.ultra_hot_next]
           m == MakeRoom(h)
<1>1. HotInsert(h, k, html, t).hot_map
        = IF v = None THEN h.hot_map ELSE InsertToHotMap(h, v).hot_map
  BY DEF HotInsert, HotCacheOf
<1>2. v # None /\ j \notin DOMAIN InsertToHotMap(h, v).hot_map
  BY <1>1
<1>3. InsertToHotMap(h, v).hot_map = Put(m.hot_map, v.url_hash, v)
  BY DEF InsertToHotMap, HotCacheOf
<1> HIDE DEF m
<1>4. j \notin DOMAIN m.hot_map
  BY <1>2, <1>3 DEF Put
<1> QED
  BY <1>4, MakeRoomLoses DEF m

\* The head of a tidy queue is as old as any entry of the map.
LEMMA HeadIsOldest ==
  ASSUME NEW h, IsHotCache(h), Tidy(h), h.access_order # << >>, NEW j \in DOMAIN h.hot_map
  PROVE  h.hot_map[Head(h.access_order)].created_at <= h.hot_map[j].created_at
<1> DEFINE o == h.access_order
<1>1. /\ o \in Seq(Key) /\ ToSet(o) = DOMAIN h.hot_map /\ InOrder(h)
  BY DEF IsHotCache, Tidy, Listed
<1>2. PICK b \in DOMAIN o : o[b] = j
  BY <1>1 DEF ToSet
<1>3. 1 \in DOMAIN o /\ 1 <= b /\ Head(o) = o[1]
  BY <1>1, <1>2
<1> QED
  BY <1>1, <1>2, <1>3, InOrderFacts

\* What get does to a cache when it promotes.
LEMMA AfterGetPromotes ==
  ASSUME NEW h, IsHotCache(h), NEW k \in Key, NEW t \in Nat,
         SlotsOf(h, k) = {}, k \in DOMAIN h.hot_map, ~IsExpired(h.hot_map[k], t)
  PROVE  /\ AfterGet(h, k, t) = HotInsert(Unmapped(h, k), k, h.hot_map[k].html, t)
         /\ h.hot_map[k].html \in Html
  BY DEF AfterGet, PromoteToUltraHot, IsHotCache, IsHotMap, HotEntry

\* Both calls that write keep a clean cache tidy.
LEMMA InsertTidy ==
  ASSUME TypeOK, Aged(hot, now), Tidy(hot), NEW k \in Key, NEW html \in Html,
         Insert(k, html), clean'
  PROVE  Tidy(hot')
<1>1. IsHotCache(hot) /\ now \in Nat /\ SlotsOf(hot, k) = {} /\ k \notin DOMAIN hot.hot_map
  BY DEF TypeOK, Insert, Resident
<1>2. Tidy(HotInsert(hot, k, html, now))
  BY <1>1, HotInsertTidy DEF Aged
<1> QED
  BY <1>2 DEF Insert

LEMMA GetTidy ==
  ASSUME TypeOK, Aged(hot, now), Tidy(hot), NEW k \in Key, Get(k), clean'
  PROVE  \/ hot' = hot
         \/ /\ SlotsOf(hot, k) = {} /\ k \in DOMAIN hot.hot_map
            /\ hot' = HotInsert(Unmapped(hot, k), k, hot.hot_map[k].html, now)
            /\ hot.hot_map[k].html \in Html
            /\ Tidy(hot')
<1>1. IsHotCache(hot) /\ now \in Nat /\ hot' = AfterGet(hot, k, now)
  BY DEF TypeOK, Get
<1>2. CASE SlotsOf(hot, k) # {} \/ k \notin DOMAIN hot.hot_map
  BY <1>1, <1>2 DEF AfterGet
<1>3. CASE SlotsOf(hot, k) = {} /\ k \in DOMAIN hot.hot_map
  <2> DEFINE u == Unmapped(hot, k)
  <2>1. ~IsExpired(hot.hot_map[k], now)
    BY <1>3 DEF Get, Resident
  <2>2. /\ hot' = HotInsert(u, k, hot.hot_map[k].html, now)
        /\ hot.hot_map[k].html \in Html
    BY <1>1, <1>3, <2>1, AfterGetPromotes
  <2>3. Tidy(u) /\ k \notin DOMAIN u.hot_map /\ SlotsOf(u, k) = {}
    BY <1>1, <1>3, UnmappedTidy
  <2>4. IsHotCache(u) /\ Aged(u, now)
    BY <1>1, UnmappedFacts, SmallerMapAged
  <2> HIDE DEF u
  <2>5. Tidy(HotInsert(u, k, hot.hot_map[k].html, now))
    BY <1>1, <2>2, <2>3, <2>4, HotInsertTidy DEF Aged
  <2> QED
    BY <1>3, <2>2, <2>5 DEF u
<1> QED
  BY <1>2, <1>3

LEMMA NewIsTidy == Tidy(NewHotCache)
<1> DEFINE h == NewHotCache
<1>1. /\ h.ultra_hot = [i \in Slots |-> None] /\ DOMAIN h.hot_map = {} /\ h.access_order = << >>
  BY DEF NewHotCache, HotCacheOf
<1>2. IsFiniteSet(DOMAIN h.hot_map) /\ Cardinality(DOMAIN h.hot_map) = 0
  BY <1>1, FS_EmptySet
<1>3. Listed(h)
  BY <1>1, <1>2 DEF Listed, IsInjective, ToSet
<1>4. KeysApart(h) /\ InOrder(h) /\ Fits(h)
  BY <1>1, <1>2, HotConstants DEF KeysApart, InOrder, Fits
<1> QED
  BY <1>3, <1>4 DEF Tidy

LEMMA AlwaysTidy == Spec => [](clean => Tidy(hot))
<1>1. Init => (clean => Tidy(hot))
  BY NewIsTidy DEF Init
<1>2. TypeOK /\ Aged(hot, now) /\ (clean => Tidy(hot)) /\ [Next]_vars => (clean => Tidy(hot))'
  <2> SUFFICES ASSUME TypeOK, Aged(hot, now), clean => Tidy(hot), [Next]_vars, clean'
               PROVE  Tidy(hot')
    BY Zenon
  <2>1. ASSUME NEW k \in Key, NEW html \in Html, Insert(k, html) PROVE Tidy(hot')
    BY <2>1, InsertTidy DEF Insert
  <2>2. ASSUME NEW k \in Key, Get(k) PROVE Tidy(hot')
    BY <2>2, GetTidy DEF Get
  <2>3. CASE Clear
    BY <2>3, NewIsTidy DEF Clear
  <2>4. CASE Tick
    BY <2>4 DEF Tick
  <2>5. CASE UNCHANGED vars
    BY <2>5 DEF vars
  <2> QED
    BY <2>1, <2>2, <2>3, <2>4, <2>5 DEF Next
<1> QED
  BY <1>1, <1>2, TypeCorrect, AlwaysAged, PTL DEF Spec

\* A clean cache keeps to its capacity and queues each mapped key once
\* (hot.rs:147-158, 161-167).
THEOREM CapacityHolds == Spec => []CleanCapacity
<1>1. (clean => Tidy(hot)) => CleanCapacity
  BY DEF Tidy, Listed, Fits, CleanCapacity
<1> QED
  BY <1>1, AlwaysTidy, PTL

\* What a clean cache drops from its map is no newer than what it keeps
\* (hot.rs:148-152).
THEOREM OldestIsEvicted == Spec => CleanEvictsOldest
<1>1. TypeOK /\ Aged(hot, now) /\ (clean => Tidy(hot)) /\ [Next]_vars
        => [clean' => EvictsOldest]_vars
  <2> SUFFICES ASSUME TypeOK, Aged(hot, now), clean => Tidy(hot), [Next]_vars, clean',
                      NEW j \in Dropped, NEW i \in Kept
               PROVE  hot.hot_map[j].created_at <= hot.hot_map[i].created_at
    BY DEF EvictsOldest
  <2>1. /\ j \in DOMAIN hot.hot_map /\ j \notin DOMAIN hot'.hot_map /\ SlotsOf(hot', j) = {}
        /\ i \in DOMAIN hot.hot_map /\ i \in DOMAIN hot'.hot_map
        /\ IsHotCache(hot)
    BY DEF Dropped, Kept, TypeOK
  <2>2. ASSUME NEW k \in Key, NEW html \in Html, Insert(k, html)
        PROVE  hot.hot_map[j].created_at <= hot.hot_map[i].created_at
    <3>1. Tidy(hot) /\ hot' = HotInsert(hot, k, html, now)
      BY <2>2 DEF Insert
    <3>2. hot.access_order # << >> /\ j = Head(hot.access_order)
      BY <2>1, <3>1, HotInsertLoses
    <3> QED
      BY <2>1, <3>1, <3>2, HeadIsOldest
  <2>3. ASSUME NEW k \in Key, Get(k)
        PROVE  hot.hot_map[j].created_at <= hot.hot_map[i].created_at
    <3> DEFINE u == Unmapped(hot, k)
    <3>1. Tidy(hot)
      BY <2>3 DEF Get
    <3>2. /\ hot' = HotInsert(u, k, hot.hot_map[k].html, now)
          /\ hot.hot_map[k].html \in Html /\ Tidy(hot') /\ now \in Nat
      BY <2>1, <2>3, <3>1, GetTidy DEF TypeOK
    <3>3. /\ IsHotCache(u) /\ Tidy(u) /\ DOMAIN u.hot_map = DOMAIN hot.hot_map \ {k}
          /\ \A x \in DOMAIN u.hot_map : u.hot_map[x] = hot.hot_map[x]
      BY <2>1, <3>1, UnmappedFacts, UnmappedTidy
    <3> HIDE DEF u
    <3>4. SlotsOf(hot', k) # {} /\ k \notin DOMAIN hot'.hot_map
      <4> DEFINE n == u.ultra_hot_next
                 e == [url_hash |-> k, html |-> hot.hot_map[k].html, created_at |-> now]
      <4>1. hot'.ultra_hot = [u.ultra_hot EXCEPT ![n] = e]
        BY <3>2, <3>3, HotInsertFacts
      <4>2. /\ n \in Slots /\ u.ultra_hot \in [Slots -> HotEntry \cup {None}]
            /\ e # None /\ e.url_hash = k
        BY <3>2, <3>3, HotConstants DEF IsHotCache, HotEntry
      <4>3. hot'.ultra_hot[n] = e
        BY <4>1, <4>2
      <4> QED
        BY <3>2, <4>2, <4>3 DEF SlotsOf, Tidy, KeysApart
    <3>5. j \in DOMAIN u.hot_map /\ i \in DOMAIN u.hot_map
      BY <2>1, <3>3, <3>4
    <3>6. u.access_order # << >> /\ j = Head(u.access_order)
      BY <2>1, <3>2, <3>5, HotInsertLoses
    <3> QED
      BY <3>3, <3>5, <3>6, HeadIsOldest
  <2>4. CASE Clear
    BY <2>1, <2>4 DEF Clear, NewHotCache, HotCacheOf
  <2>5. CASE Tick \/ UNCHANGED vars
    BY <2>1, <2>5 DEF Tick, vars
  <2> QED
    BY <2>2, <2>3, <2>4, <2>5 DEF Next
<1> QED
  BY <1>1, TypeCorrect, AlwaysAged, AlwaysTidy, PTL DEF Spec, CleanEvictsOldest
=============================================================================
