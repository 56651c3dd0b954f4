--------------------------- MODULE HotCacheLemmas ---------------------------
(***************************************************************************)
(* What the operators of HotCacheOps return, for every cache value: types, *)
(* which keys and pages survive, and how the eviction queue follows the    *)
(* map.  Cited by the proofs of HotCache and of SsrCache.                  *)
(***************************************************************************)
EXTENDS HotCacheOps, TLAPS, WellFoundedInduction, SequenceTheorems

\* HashMap::insert and HashMap::remove keep the map a map of entries.
LEMMA MapTypes ==
  ASSUME NEW m, IsHotMap(m), NEW k \in Key, NEW e \in HotEntry
  PROVE  IsHotMap(Put(m, k, e)) /\ IsHotMap(Without(m, k))
  BY DEF IsHotMap, Put, Without, Restrict

\* The position the scan of promote_to_ultra_hot finds (hot.rs:164).
LEMMA PositionFacts ==
  ASSUME NEW S, NEW s \in Seq(S), NEW k \in ToSet(s)
  PROVE  /\ Position(s, k) \in 1 .. Len(s)
         /\ s[Position(s, k)] = k
         /\ \A j \in 1 .. Position(s, k) - 1 : s[j] # k
<1> DEFINE Hits == {i \in Nat : i \in DOMAIN s /\ s[i] = k}
<1> DEFINE Less == {p \in Nat \X Nat : p[1] < p[2]}
<1>1. Hits # {}
  BY DEF ToSet
<1>2. OpToRel(<, Nat) = Less
  BY Zenon DEF OpToRel
<1>3. IsWellFoundedOn(Less, Nat)
  BY <1>2, NatLessThanWellFounded, Zenon
<1>4. PICK i \in Hits : \A j \in Hits : ~(<<j, i>> \in Less)
  <2> HIDE DEF Hits, Less
  <2> Hits \subseteq Nat
    BY DEF Hits
  <2> QED BY <1>1, <1>3, WFMin, Zenon
<1>5. ASSUME NEW j \in 1 .. i - 1, s[j] = k  PROVE FALSE
  <2>1. j \in Hits /\ j \in Nat /\ i \in Nat /\ j < i
    BY <1>5
  <2>2. <<j, i>> \in Less
    BY <2>1
  <2> QED BY <1>4, <2>1, <2>2, Zenon
<1> QED BY <1>4, <1>5 DEF Position

\* Appending a key to the eviction queue (hot.rs:156).
LEMMA AppendFacts ==
  ASSUME NEW S, NEW s \in Seq(S), NEW k \in S
  PROVE  /\ ToSet(Append(s, k)) = ToSet(s) \cup {k}
         /\ IsInjective(s) /\ k \notin ToSet(s) => IsInjective(Append(s, k))
<1>1. ToSet(Append(s, k)) = ToSet(s) \cup {k}
  <2>1. DOMAIN Append(s, k) = (DOMAIN s) \cup {Len(s) + 1}
    OBVIOUS
  <2>2. /\ \A i \in DOMAIN s : Append(s, k)[i] = s[i]
        /\ Append(s, k)[Len(s) + 1] = k
    OBVIOUS
  <2> QED BY <2>1, <2>2 DEF ToSet
<1>2. ASSUME IsInjective(s), k \notin ToSet(s)  PROVE IsInjective(Append(s, k))
  <2> DEFINE t == Append(s, k)
  <2>1. /\ DOMAIN t = 1 .. Len(s) + 1 /\ t[Len(s) + 1] = k
        /\ \A i \in 1 .. Len(s) : t[i] = s[i] /\ s[i] # k
    BY <1>2 DEF ToSet
  <2>2. \A a, b \in 1 .. Len(s) : s[a] = s[b] => a = b
    BY <1>2 DEF IsInjective
  <2> HIDE DEF t
  <2>3. \A a, b \in DOMAIN t : t[a] = t[b] => a = b
    BY <2>1, <2>2
  <2> QED BY <2>3 DEF IsInjective, t
<1> QED BY <1>1, <1>2

\* Taking the head off the eviction queue (hot.rs:152).
LEMMA TailFacts ==
  ASSUME NEW S, NEW s \in Seq(S), s # << >>
  PROVE  /\ Head(s) \in S /\ Tail(s) \in Seq(S)
         /\ ToSet(s) = ToSet(Tail(s)) \cup {Head(s)}
         /\ IsInjective(s) => IsInjective(Tail(s)) /\ Head(s) \notin ToSet(Tail(s))
<1>1. /\ Head(s) \in S /\ Tail(s) \in Seq(S) /\ Len(s) > 0
      /\ Len(Tail(s)) = Len(s) - 1 /\ Head(s) = s[1]
      /\ \A i \in 1 .. Len(s) - 1 : Tail(s)[i] = s[i + 1]
  OBVIOUS
<1>2. ToSet(s) \subseteq ToSet(Tail(s)) \cup {Head(s)}
  <2>1. ASSUME NEW i \in DOMAIN s, i # 1  PROVE s[i] \in ToSet(Tail(s))
    <3>1. i - 1 \in DOMAIN Tail(s) /\ Tail(s)[i - 1] = s[i]
      BY <1>1, <2>1
    <3> QED BY <3>1 DEF ToSet
  <2> QED BY <1>1, <2>1 DEF ToSet
<1>3. ToSet(Tail(s)) \cup {Head(s)} \subseteq ToSet(s)
  BY <1>1 DEF ToSet
<1>4. ASSUME IsInjective(s)
      PROVE  IsInjective(Tail(s)) /\ Head(s) \notin ToSet(Tail(s))
  <2>1. /\ \A a, b \in 1 .. Len(s) : s[a] = s[b] => a = b
        /\ DOMAIN Tail(s) = 1 .. Len(s) - 1
    BY <1>1, <1>4 DEF IsInjective
  <2>2. \A a, b \in DOMAIN Tail(s) : Tail(s)[a] = Tail(s)[b] => a = b
    BY <1>1, <2>1
  <2>3. \A a \in DOMAIN Tail(s) : Tail(s)[a] # Head(s)
    BY <1>1, <2>1
  <2> QED BY <2>2, <2>3 DEF IsInjective, ToSet
<1> QED BY <1>1, <1>2, <1>3, <1>4

\* What a queue becomes when the first occurrence of a key is dropped
\* (hot.rs:164-166).
LEMMA DropFirstPlace ==
  ASSUME NEW S, NEW s \in Seq(S), NEW k \in ToSet(s)
  PROVE  /\ DropFirst(s, k) \in Seq(S) /\ Len(DropFirst(s, k)) = Len(s) - 1
         /\ \E p \in 1 .. Len(s) :
                /\ s[p] = k
                /\ \A i \in 1 .. Len(s) - 1 :
                       DropFirst(s, k)[i] = IF i < p THEN s[i] ELSE s[i + 1]
<1> DEFINE p == Position(s, k)
           d == DropFirst(s, k)
<1>1. p \in 1 .. Len(s) /\ s[p] = k
  BY PositionFacts
<1>2. d = SubSeq(s, 1, p - 1) \o SubSeq(s, p + 1, Len(s))
  BY DEF DropFirst, RemoveAt
<1> HIDE DEF p, d
<1>3. /\ d \in Seq(S)
      /\ Len(d) = Len(s) - 1
      /\ \A i \in 1 .. Len(s) - 1 : d[i] = IF i < p THEN s[i] ELSE s[i + 1]
  <2> DEFINE a == SubSeq(s, 1, p - 1)
             b == SubSeq(s, p + 1, Len(s))
  <2>1. a \in Seq(S) /\ Len(a) = p - 1 /\ \A i \in 1 .. p - 1 : a[i] = s[i]
    BY <1>1
  <2>2. /\ b \in Seq(S) /\ Len(b) = Len(s) - p
        /\ \A i \in 1 .. Len(s) - p : b[i] = s[i + p]
    BY <1>1
  <2> HIDE DEF a, b
  <2>3. a \o b \in Seq(S) /\ Len(a \o b) = Len(s) - 1
    <3>1. a \o b \in Seq(S) /\ Len(a \o b) = Len(a) + Len(b)
      BY <2>1, <2>2, ConcatProperties
    <3> QED BY <1>1, <2>1, <2>2, <3>1
  <2>4. \A i \in 1 .. Len(s) - 1 :
            (a \o b)[i] = IF i < p THEN a[i] ELSE b[i - p + 1]
    BY <1>1, <2>1, <2>2
  <2>5. \A i \in 1 .. Len(s) - 1 : i >= p =>
            i - p + 1 \in 1 .. Len(s) - p /\ (i - p + 1) + p = i + 1
    BY <1>1
  <2>6. d = a \o b
    BY <1>2 DEF a, b
  <2>7. ASSUME NEW i \in 1 .. Len(s) - 1
        PROVE  d[i] = IF i < p THEN s[i] ELSE s[i + 1]
    BY <1>1, <2>1, <2>2, <2>4, <2>5, <2>6
  <2> QED BY <2>3, <2>6, <2>7
<1> QED BY <1>1, <1>3 DEF d

\* Dropping the first occurrence of a key loses no other key, and of a queue
\* without repetition the key is gone.
LEMMA DropFirstFacts ==
  ASSUME NEW S, NEW s \in Seq(S), NEW k
  PROVE  /\ DropFirst(s, k) \in Seq(S)
         /\ ToSet(DropFirst(s, k)) \subseteq ToSet(s)
         /\ ToSet(s) \ {k} \subseteq ToSet(DropFirst(s, k))
         /\ IsInjective(s) => /\ IsInjective(DropFirst(s, k))
                              /\ k \notin ToSet(DropFirst(s, k))
<1>1. CASE k \notin ToSet(s)
  BY <1>1 DEF DropFirst
<1>2. CASE k \in ToSet(s)
  <2> DEFINE d == DropFirst(s, k)
  <2>1. PICK p \in 1 .. Len(s) :
               /\ s[p] = k
               /\ \A i \in 1 .. Len(s) - 1 : d[i] = IF i < p THEN s[i] ELSE s[i + 1]
    BY <1>2, DropFirstPlace
  <2>3. d \in Seq(S) /\ Len(d) = Len(s) - 1
    BY <1>2, DropFirstPlace
  <2> HIDE DEF d
  <2>4. ToSet(d) \subseteq ToSet(s)
    BY <2>1, <2>3 DEF ToSet
  <2>5. ToSet(s) \ {k} \subseteq ToSet(d)
    <3>1. ASSUME NEW i \in DOMAIN s, s[i] # k  PROVE s[i] \in ToSet(d)
      <4>1. CASE i < p
        <5>1. i \in DOMAIN d /\ d[i] = s[i]
          BY <2>1, <2>3, <4>1
        <5> QED BY <5>1 DEF ToSet
      <4>2. CASE i > p
        <5>1. i - 1 \in DOMAIN d /\ d[i - 1] = s[i]
          BY <2>1, <2>3, <4>2
        <5> QED BY <5>1 DEF ToSet
      <4> QED BY <2>1, <3>1, <4>1, <4>2
    <3> QED BY <3>1 DEF ToSet
  <2>6. ASSUME IsInjective(s)  PROVE IsInjective(d) /\ k \notin ToSet(d)
    <3>1. \A a, b \in 1 .. Len(s) : s[a] = s[b] => a = b
      BY <2>6 DEF IsInjective
    <3>2. DOMAIN d = 1 .. Len(s) - 1
      BY <2>3
    <3>3. \A a, b \in DOMAIN d : d[a] = d[b] => a = b
      BY <2>1, <2>3, <3>1, <3>2
    <3>4. \A a \in DOMAIN d : d[a] # k
      BY <2>1, <2>3, <3>1, <3>2
    <3> QED BY <3>3, <3>4 DEF IsInjective, ToSet
  <2> QED BY <2>1, <2>3, <2>4, <2>5, <2>6 DEF d
<1> QED BY <1>1, <1>2

-----------------------------------------------------------------------------
\* Every key of the map is in the eviction queue.
Covered(h) == DOMAIN h.hot_map \subseteq ToSet(h.access_order)

\* new() and with_ttl() build a well-formed cache (hot.rs:46-69).
LEMMA NewHotCacheFacts ==
  /\ IsHotCache(NewHotCache) /\ Covered(NewHotCache)
  /\ DOMAIN NewHotCache.hot_map = {}
  BY HotConstants DEF IsHotCache, IsHotMap, NewHotCache, HotCacheOf, Slots, Covered

\* Eviction from the map takes away one key at most (hot.rs:147-154).
LEMMA MakeRoomFacts ==
  ASSUME NEW h, IsHotCache(h)
  PROVE  LET r == MakeRoom(h)
         IN  /\ IsHotCache(r)
             /\ r.ultra_hot = h.ultra_hot /\ r.ultra_hot_next = h.ultra_hot_next
             /\ DOMAIN r.hot_map \subseteq DOMAIN h.hot_map
             /\ \A j \in DOMAIN r.hot_map : r.hot_map[j] = h.hot_map[j]
             /\ Covered(h) => Covered(r)
<1>1. CASE MakeRoom(h) = h
  BY <1>1
<1>2. CASE MakeRoom(h) # h
  <2> DEFINE r == MakeRoom(h)
             o == h.access_order
  <2>1. /\ o # << >> /\ o \in Seq(Key) /\ Head(o) \in Key /\ Tail(o) \in Seq(Key)
        /\ ToSet(o) = ToSet(Tail(o)) \cup {Head(o)}
        /\ r = HotCacheOf(h.ultra_hot, h.ultra_hot_next,
                          Without(h.hot_map, Head(o)), Tail(o))
    <3>1. o # << >> /\ o \in Seq(Key)
      BY <1>2 DEF MakeRoom, IsHotCache
    <3> QED BY <1>2, <3>1, TailFacts DEF MakeRoom
  <2>2. /\ r.ultra_hot = h.ultra_hot /\ r.ultra_hot_next = h.ultra_hot_next
        /\ r.hot_map = Without(h.hot_map, Head(o)) /\ r.access_order = Tail(o)
    BY <2>1 DEF HotCacheOf
  <2>3. IsHotMap(r.hot_map)
    BY <2>1, <2>2 DEF IsHotCache, IsHotMap, Without, Restrict
  <2>4. IsHotCache(r)
    BY <2>1, <2>2, <2>3 DEF IsHotCache, HotCacheOf
  <2>5. /\ DOMAIN r.hot_map = DOMAIN h.hot_map \ {Head(o)}
        /\ \A j \in DOMAIN r.hot_map : r.hot_map[j] = h.hot_map[j]
    BY <2>2 DEF Without, Restrict
  <2> QED BY <2>1, <2>2, <2>4, <2>5 DEF Covered
<1> QED BY <1>1, <1>2

\* An entry moved to the map is found there, and nothing new comes with it
\* (hot.rs:147-158).
LEMMA InsertToHotMapFacts ==
  ASSUME NEW h, IsHotCache(h), NEW e \in HotEntry
  PROVE  LET r == InsertToHotMap(h, e)
         IN  /\ IsHotCache(r)
             /\ r.ultra_hot = h.ultra_hot /\ r.ultra_hot_next = h.ultra_hot_next
             /\ e.url_hash \in DOMAIN r.hot_map /\ r.hot_map[e.url_hash] = e
             /\ \A j \in DOMAIN r.hot_map : j # e.url_hash =>
                    j \in DOMAIN h.hot_map /\ r.hot_map[j] = h.hot_map[j]
             /\ Covered(h) => Covered(r)
<1> DEFINE m == MakeRoom(h)
           r == InsertToHotMap(h, e)
<1>1. /\ IsHotCache(m) /\ DOMAIN m.hot_map \subseteq DOMAIN h.hot_map
      /\ m.ultra_hot = h.ultra_hot /\ m.ultra_hot_next = h.ultra_hot_next
      /\ \A j \in DOMAIN m.hot_map : m.hot_map[j] = h.hot_map[j]
      /\ Covered(h) => Covered(m)
  BY MakeRoomFacts
<1>2. r = HotCacheOf(m.ultra_hot, m.ultra_hot_next, Put(m.hot_map, e.url_hash, e),
                    Append(m.access_order, e.url_hash))
  BY DEF InsertToHotMap
<1> HIDE DEF m, r
<1>3. e.url_hash \in Key
  BY DEF HotEntry
<1>4. /\ r.ultra_hot = m.ultra_hot /\ r.ultra_hot_next = m.ultra_hot_next
      /\ r.hot_map = Put(m.hot_map, e.url_hash, e)
      /\ r.access_order = Append(m.access_order, e.url_hash)
  BY <1>2 DEF HotCacheOf
<1>5. IsHotMap(r.hot_map) /\ r.access_order \in Seq(Key)
  BY <1>1, <1>3, <1>4, MapTypes DEF IsHotCache
<1>6. IsHotCache(r)
  BY <1>1, <1>2, <1>4, <1>5 DEF IsHotCache, HotCacheOf
<1>7. /\ DOMAIN r.hot_map = DOMAIN m.hot_map \cup {e.url_hash}
      /\ r.hot_map[e.url_hash] = e
      /\ \A j \in DOMAIN m.hot_map : j # e.url_hash => r.hot_map[j] = m.hot_map[j]
  BY <1>4 DEF Put
<1>8. ToSet(r.access_order) = ToSet(m.access_order) \cup {e.url_hash}
  BY <1>1, <1>3, <1>4, AppendFacts DEF IsHotCache
<1> QED BY <1>1, <1>4, <1>6, <1>7, <1>8 DEF Covered, r

\* insert writes one slot, moves the pointer on, and what the map holds
\* afterwards it held before or is the entry the slot gave up (hot.rs:128-144).
LEMMA HotInsertFacts ==
  ASSUME NEW h, IsHotCache(h), NEW k \in Key, NEW html \in Html, NEW t \in Nat
  PROVE  LET r == HotInsert(h, k, html, t)
             e == [url_hash |-> k, html |-> html, created_at |-> t]
             n == h.ultra_hot_next
         IN  /\ IsHotCache(r)
             /\ r.ultra_hot = [h.ultra_hot EXCEPT ![n] = e]
             /\ r.ultra_hot_next = NextSlot(n)
             /\ \A j \in DOMAIN r.hot_map :
                    \/ j \in DOMAIN h.hot_map /\ r.hot_map[j] = h.hot_map[j]
                    \/ /\ h.ultra_hot[n] # None
                       /\ j = h.ultra_hot[n].url_hash
                       /\ r.hot_map[j] = h.ultra_hot[n]
             /\ Covered(h) => Covered(r)
<1> DEFINE n == h.ultra_hot_next
           e == [url_hash |-> k, html |-> html, created_at |-> t]
           s == IF h.ultra_hot[n] = None THEN h ELSE InsertToHotMap(h, h.ultra_hot[n])
           r == HotInsert(h, k, html, t)
<1>1. /\ e \in HotEntry /\ n \in Slots /\ h.ultra_hot[n] \in HotEntry \cup {None}
      /\ NextSlot(n) \in Slots
  BY HotConstants DEF IsHotCache, HotEntry, Slots, NextSlot
<1>2. r = HotCacheOf([h.ultra_hot EXCEPT ![n] = e], NextSlot(n),
                    s.hot_map, s.access_order)
  BY DEF HotInsert
<1>3. /\ IsHotCache(s)
      /\ Covered(h) => Covered(s)
      /\ \A j \in DOMAIN s.hot_map :
             \/ j \in DOMAIN h.hot_map /\ s.hot_map[j] = h.hot_map[j]
             \/ /\ h.ultra_hot[n] # None
                /\ j = h.ultra_hot[n].url_hash
                /\ s.hot_map[j] = h.ultra_hot[n]
  <2>1. CASE h.ultra_hot[n] = None
    BY <2>1
  <2>2. CASE h.ultra_hot[n] # None
    BY <1>1, <2>2, InsertToHotMapFacts
  <2> QED BY <2>1, <2>2
<1> HIDE DEF n, e, s, r
<1>4. /\ r.ultra_hot = [h.ultra_hot EXCEPT ![n] = e]
      /\ r.ultra_hot_next = NextSlot(n)
      /\ r.hot_map = s.hot_map /\ r.access_order = s.access_order
  BY <1>2 DEF HotCacheOf
<1>5. IsHotCache(r)
  BY <1>1, <1>2, <1>3, <1>4 DEF IsHotCache, HotCacheOf
<1> QED BY <1>3, <1>4, <1>5 DEF Covered, n, e, s, r

\* promote_to_ultra_hot first takes the key out of the map and one of its
\* occurrences out of the queue (hot.rs:161-167).
LEMMA UnmappedFacts ==
  ASSUME NEW h, IsHotCache(h), NEW k
  PROVE  LET r == Unmapped(h, k)
         IN  /\ IsHotCache(r)
             /\ r.ultra_hot = h.ultra_hot /\ r.ultra_hot_next = h.ultra_hot_next
             /\ r.hot_map = Without(h.hot_map, k)
             /\ DOMAIN r.hot_map = DOMAIN h.hot_map \ {k}
             /\ \A j \in DOMAIN r.hot_map : r.hot_map[j] = h.hot_map[j]
             /\ r.access_order = DropFirst(h.access_order, k)
             /\ Covered(h) => Covered(r)
<1> DEFINE r == Unmapped(h, k)
<1>1. /\ r.ultra_hot = h.ultra_hot /\ r.ultra_hot_next = h.ultra_hot_next
      /\ r.hot_map = Without(h.hot_map, k)
      /\ r.access_order = DropFirst(h.access_order, k)
      /\ r = HotCacheOf(r.ultra_hot, r.ultra_hot_next, r.hot_map, r.access_order)
  BY DEF Unmapped, HotCacheOf
<1>2. /\ r.access_order \in Seq(Key)
      /\ ToSet(h.access_order) \ {k} \subseteq ToSet(r.access_order)
  BY <1>1, DropFirstFacts DEF IsHotCache
<1>3. /\ IsHotMap(r.hot_map)
      /\ DOMAIN r.hot_map = DOMAIN h.hot_map \ {k}
      /\ \A j \in DOMAIN r.hot_map : r.hot_map[j] = h.hot_map[j]
  BY <1>1 DEF IsHotCache, IsHotMap, Without, Restrict
<1> HIDE DEF r
<1>4. IsHotCache(r)
  BY <1>1, <1>2, <1>3 DEF IsHotCache, HotCacheOf
<1> QED BY <1>1, <1>2, <1>3, <1>4 DEF Covered, r

\* get keeps the cache well-formed and every mapped key in the queue
\* (hot.rs:75-100).
LEMMA AfterGetFacts ==
  ASSUME NEW h, IsHotCache(h), NEW k \in Key, NEW t \in Nat
  PROVE  /\ IsHotCache(AfterGet(h, k, t))
         /\ Covered(h) => Covered(AfterGet(h, k, t))
<1> DEFINE g == AfterGet(h, k, t)
<1>1. CASE g = h
  BY <1>1
<1>2. CASE g # h /\ IsExpired(h.hot_map[k], t)
  <2>1. g = HotCacheOf(h.ultra_hot, h.ultra_hot_next, Without(h.hot_map, k),
                       h.access_order)
    BY <1>2 DEF AfterGet
  <2> HIDE DEF g
  <2>2. /\ g.hot_map = Without(h.hot_map, k) /\ g.access_order = h.access_order
        /\ g.ultra_hot = h.ultra_hot /\ g.ultra_hot_next = h.ultra_hot_next
    BY <2>1 DEF HotCacheOf
  <2>3. IsHotMap(g.hot_map) /\ DOMAIN g.hot_map \subseteq DOMAIN h.hot_map
    BY <2>2 DEF IsHotCache, IsHotMap, Without, Restrict
  <2>4. IsHotCache(g)
    BY <2>1, <2>2, <2>3 DEF IsHotCache, HotCacheOf
  <2> QED BY <2>2, <2>3, <2>4 DEF Covered, g
<1>3. CASE g # h /\ ~IsExpired(h.hot_map[k], t)
  <2>1. /\ k \in DOMAIN h.hot_map
        /\ g = HotInsert(Unmapped(h, k), k, h.hot_map[k].html, t)
    BY <1>3 DEF AfterGet, PromoteToUltraHot
  <2>2. h.hot_map[k].html \in Html
    BY <2>1 DEF IsHotCache, IsHotMap, HotEntry
  <2> DEFINE u == Unmapped(h, k)
  <2>3. IsHotCache(u) /\ (Covered(h) => Covered(u))
    BY UnmappedFacts
  <2> HIDE DEF u
  <2>4. /\ IsHotCache(HotInsert(u, k, h.hot_map[k].html, t))
        /\ Covered(u) => Covered(HotInsert(u, k, h.hot_map[k].html, t))
    BY <2>2, <2>3, HotInsertFacts
  <2> QED BY <2>1, <2>3, <2>4 DEF u
<1> QED BY <1>1, <1>2, <1>3

-----------------------------------------------------------------------------
\* A scan of the array from index 0 has a first match if it has one.
LEMMA FirstSlotFacts ==
  ASSUME NEW h, NEW k, SlotsOf(h, k) # {}
  PROVE  /\ FirstSlot(h, k) \in SlotsOf(h, k)
         /\ \A j \in SlotsOf(h, k) : FirstSlot(h, k) <= j
<1> DEFINE Less == {p \in Nat \X Nat : p[1] < p[2]}
           Hits == SlotsOf(h, k)
<1>1. Hits \subseteq Nat /\ Hits # {}
  BY HotConstants DEF SlotsOf, Slots
<1>2. OpToRel(<, Nat) = Less
  BY Zenon DEF OpToRel
<1>3. IsWellFoundedOn(Less, Nat)
  BY <1>2, NatLessThanWellFounded, Zenon
<1>4. PICK i \in Hits : \A j \in Hits : ~(<<j, i>> \in Less)
  <2> HIDE DEF Hits, Less
  <2> QED BY <1>1, <1>3, WFMin, Zenon
<1>5. \A j \in Hits : i <= j
  <2> SUFFICES ASSUME NEW j \in Hits, j < i  PROVE FALSE
    BY <1>1
  <2>1. <<j, i>> \in Less
    BY <1>1
  <2> QED BY <1>4, <2>1, Zenon
<1> QED BY <1>4, <1>5 DEF FirstSlot

\* What peek answers is a page the cache holds (hot.rs:104-124).
LEMMA HotPeekFacts ==
  ASSUME NEW h, IsHotCache(h), NEW k, NEW t
  PROVE  HotPeek(h, k, t) \in HotPages(h) \cup {None}
<1>1. CASE SlotsOf(h, k) # {}
  <2>1. /\ FirstSlot(h, k) \in Slots /\ h.ultra_hot[FirstSlot(h, k)] # None
    BY <1>1, FirstSlotFacts DEF SlotsOf
  <2> QED BY <1>1, <2>1 DEF HotPeek, HotPages, Answer
<1>2. CASE SlotsOf(h, k) = {}
  BY <1>2 DEF HotPeek, HotPages, Answer
<1> QED BY <1>1, <1>2

\* A new cache holds no page.
LEMMA NewHotCachePages == HotPages(NewHotCache) = {}
  BY DEF HotPages, NewHotCache, HotCacheOf

\* insert brings in its own page and no other.
LEMMA HotInsertPages ==
  ASSUME NEW h, IsHotCache(h), NEW k \in Key, NEW html \in Html, NEW t \in Nat
  PROVE  HotPages(HotInsert(h, k, html, t)) \subseteq HotPages(h) \cup {html}
<1> DEFINE r == HotInsert(h, k, html, t)
           n == h.ultra_hot_next
           e == [url_hash |-> k, html |-> html, created_at |-> t]
<1>1. /\ r.ultra_hot = [h.ultra_hot EXCEPT ![n] = e]
      /\ \A j \in DOMAIN r.hot_map :
             \/ j \in DOMAIN h.hot_map /\ r.hot_map[j] = h.hot_map[j]
             \/ h.ultra_hot[n] # None /\ r.hot_map[j] = h.ultra_hot[n]
      /\ n \in Slots /\ e.html = html
      /\ h.ultra_hot \in [Slots -> HotEntry \cup {None}]
  BY HotInsertFacts DEF IsHotCache
<1> HIDE DEF r, n, e
<1>2. \A i \in Slots : r.ultra_hot[i] # None =>
         r.ultra_hot[i].html \in HotPages(h) \cup {html}
  BY <1>1 DEF HotPages
<1>3. \A j \in DOMAIN r.hot_map : r.hot_map[j].html \in HotPages(h) \cup {html}
  BY <1>1 DEF HotPages
<1>4. HotPages(r) \subseteq HotPages(h) \cup {html}
  BY <1>2, <1>3 DEF HotPages
<1> QED BY <1>4 DEF r

-----------------------------------------------------------------------------
\* The entries a hot cache holds, and a map that files each under its own hash.
Entries(h) ==
    {h.ultra_hot[i] : i \in {j \in Slots : h.ultra_hot[j] # None}}
      \cup {h.hot_map[k] : k \in DOMAIN h.hot_map}
Filed(h) == \A k \in DOMAIN h.hot_map : h.hot_map[k].url_hash = k

\* The pages are the pages of the entries.
LEMMA EntriesAndPages ==
  ASSUME NEW h
  PROVE  HotPages(h) = {e.html : e \in Entries(h)}
  BY DEF HotPages, Entries

\* The entries of a well-formed cache are well-typed.
LEMMA EntriesTypes ==
  ASSUME NEW h, IsHotCache(h), NEW e \in Entries(h)
  PROVE  e \in HotEntry
  BY DEF IsHotCache, IsHotMap, Entries

\* A new cache holds none.
LEMMA NewHotCacheEntries == Entries(NewHotCache) = {} /\ Filed(NewHotCache)
  BY DEF Entries, Filed, NewHotCache, HotCacheOf

\* insert brings in one entry and changes none it keeps (hot.rs:121-158).
LEMMA HotInsertEntries ==
  ASSUME NEW h, IsHotCache(h), NEW k \in Key, NEW html \in Html, NEW t \in Nat
  PROVE  LET r == HotInsert(h, k, html, t)
             e == [url_hash |-> k, html |-> html, created_at |-> t]
         IN  /\ Entries(r) \subseteq Entries(h) \cup {e} /\ e \in Entries(r)
             /\ Filed(h) => Filed(r)
<1> DEFINE r == HotInsert(h, k, html, t)
           n == h.ultra_hot_next
           e == [url_hash |-> k, html |-> html, created_at |-> t]
<1>1. /\ r.ultra_hot = [h.ultra_hot EXCEPT ![n] = e]
      /\ \A j \in DOMAIN r.hot_map :
             \/ j \in DOMAIN h.hot_map /\ r.hot_map[j] = h.hot_map[j]
             \/ /\ h.ultra_hot[n] # None /\ j = h.ultra_hot[n].url_hash
                /\ r.hot_map[j] = h.ultra_hot[n]
  BY HotInsertFacts
<1>2. /\ n \in Slots /\ h.ultra_hot \in [Slots -> HotEntry \cup {None}] /\ e # None
  BY HotConstants DEF IsHotCache, HotEntry
<1> HIDE DEF r, n, e
<1>3. /\ r.ultra_hot[n] = e /\ \A i \in Slots : i # n => r.ultra_hot[i] = h.ultra_hot[i]
  BY <1>1, <1>2
<1>4. Entries(r) \subseteq Entries(h) \cup {e} /\ e \in Entries(r)
  BY <1>1, <1>2, <1>3 DEF Entries
<1>5. Filed(h) => Filed(r)
  BY <1>1 DEF Filed
<1> QED
  BY <1>4, <1>5 DEF r, e

\* What a lookup answers is a live entry filed under the key it looked for
\* (hot.rs:104-116).
LEMMA HotPeekEntry ==
  ASSUME NEW h, Filed(h), NEW k, NEW t, HotPeek(h, k, t) # None
  PROVE  \E e \in Entries(h) :
            e.url_hash = k /\ e.html = HotPeek(h, k, t) /\ ~IsExpired(e, t)
<1>1. CASE SlotsOf(h, k) # {}
  <2> DEFINE i == FirstSlot(h, k)
  <2>1. i \in Slots /\ h.ultra_hot[i] # None /\ h.ultra_hot[i].url_hash = k
    BY <1>1, FirstSlotFacts DEF SlotsOf
  <2>2. HotPeek(h, k, t) = Answer(h.ultra_hot[i], t)
    BY <1>1 DEF HotPeek
  <2> HIDE DEF i
  <2> QED
    BY <2>1, <2>2 DEF Answer, Entries
<1>2. CASE SlotsOf(h, k) = {}
  BY <1>2 DEF HotPeek, Answer, Entries, Filed
<1> QED
  BY <1>1, <1>2
=============================================================================
