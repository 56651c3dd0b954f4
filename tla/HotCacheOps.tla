---------------------------- MODULE HotCacheOps ----------------------------
(***************************************************************************)
(* The thread-local hot cache of src/cache/hot.rs as operators on a record *)
(* value: an array of slots written round-robin (tier 1, "ultra-hot") that *)
(* spills its overwritten entries into a map with an eviction queue        *)
(* (tier 2).  HotCache.tla drives one such value; SsrCache.tla keeps one   *)
(* per thread.                                                             *)
(***************************************************************************)
EXTENDS Integers, FiniteSets, SequencesExt

CONSTANTS
    Key,               \* URL hashes (u64)
    Html,              \* rendered pages (Arc<str>)
    None,              \* Option::None: an empty slot, or no answer
    ULTRA_HOT_SIZE,    \* slots of the array (8 in the code)
    HOT_MAP_CAPACITY,  \* capacity of the map (128 in the code)
    TTL                \* ttl_secs of with_ttl; 0 is ttl: None

Slots == 0 .. ULTRA_HOT_SIZE - 1

HotEntry == [url_hash : Key, html : Html, created_at : Nat]

\* A HashMap is a function on the keys it holds.
IsHotMap(m) == DOMAIN m \subseteq Key /\ m \in [DOMAIN m -> HotEntry]

HotCacheOf(array, next, map, order) ==
    [ultra_hot |-> array, ultra_hot_next |-> next,
     hot_map |-> map, access_order |-> order]

IsHotCache(h) ==
    /\ h \in [ultra_hot      : [Slots -> HotEntry \cup {None}],
              ultra_hot_next : Slots,
              hot_map        : {h.hot_map},
              access_order   : Seq(Key)]
    /\ IsHotMap(h.hot_map)

ASSUME HotConstants ==
    /\ ULTRA_HOT_SIZE \in Nat \ {0}
    /\ HOT_MAP_CAPACITY \in Nat \ {0}
    /\ TTL \in Nat
    /\ None \notin HotEntry
    /\ None \notin Html

Put(m, k, e)  == [j \in DOMAIN m \cup {k} |-> IF j = k THEN e ELSE m[j]]
Without(m, k) == Restrict(m, DOMAIN m \ {k})

NewHotCache == HotCacheOf([i \in Slots |-> None], 0, [k \in {} |-> None], << >>)

IsExpired(e, now) == TTL > 0 /\ now - e.created_at > TTL

\* Variant of SlotsOf that forgets to compare the hash.
SlotsOf_AnyKey(h, k) == {i \in Slots : h.ultra_hot[i] # None}

\* The slots that hold k, and the one a scan from index 0 meets first.
SlotsOf(h, k) ==
    {i \in Slots : h.ultra_hot[i] # None /\ h.ultra_hot[i].url_hash = k}
FirstSlot(h, k) ==
    CHOOSE i \in SlotsOf(h, k) : \A j \in SlotsOf(h, k) : i <= j

\* Variant of Answer that does not look at the age.
Answer_AnyAge(e, now) == e.html

Answer(e, now) == IF IsExpired(e, now) THEN None ELSE e.html

\* peek: the first matching slot decides, even when it is expired and a
\* fresher copy sits in a later slot; only then the map.
HotPeek(h, k, now) ==
    IF SlotsOf(h, k) # {} THEN Answer(h.ultra_hot[FirstSlot(h, k)], now)
    ELSE IF k \in DOMAIN h.hot_map THEN Answer(h.hot_map[k], now)
    ELSE None

\* Variants of MakeRoom: one entry too late, and from the wrong end.
MakeRoom_Late(h) ==
    IF Cardinality(DOMAIN h.hot_map) > HOT_MAP_CAPACITY /\ h.access_order # << >>
    THEN HotCacheOf(h.ultra_hot, h.ultra_hot_next,
                    Without(h.hot_map, Head(h.access_order)), Tail(h.access_order))
    ELSE h
MakeRoom_Newest(h) ==
    IF Cardinality(DOMAIN h.hot_map) >= HOT_MAP_CAPACITY /\ h.access_order # << >>
    THEN HotCacheOf(h.ultra_hot, h.ultra_hot_next,
                    Without(h.hot_map, Last(h.access_order)), Front(h.access_order))
    ELSE h

\* At capacity the key at the head of access_order is removed first, whether
\* or not the map still holds it.
MakeRoom(h) ==
    IF Cardinality(DOMAIN h.hot_map) >= HOT_MAP_CAPACITY /\ h.access_order # << >>
    THEN HotCacheOf(h.ultra_hot, h.ultra_hot_next,
                    Without(h.hot_map, Head(h.access_order)), Tail(h.access_order))
    ELSE h

\* Variant of InsertToHotMap that does not queue the key.
InsertToHotMap_Unqueued(h, e) ==
    LET r == MakeRoom(h)
    IN  HotCacheOf(r.ultra_hot, r.ultra_hot_next,
                   Put(r.hot_map, e.url_hash, e), r.access_order)

InsertToHotMap(h, e) ==
    LET r == MakeRoom(h)
    IN  HotCacheOf(r.ultra_hot, r.ultra_hot_next,
                   Put(r.hot_map, e.url_hash, e), Append(r.access_order, e.url_hash))

\* Variants of NextSlot: no wrap-around, and stuck at the last slot.
NextSlot_NoWrap(i)    == i + 1
NextSlot_Saturates(i) == IF i + 1 < ULTRA_HOT_SIZE THEN i + 1 ELSE i

NextSlot(i) == (i + 1) % ULTRA_HOT_SIZE

\* insert: the slot under ultra_hot_next is taken over, its old entry spills.
HotInsert(h, k, html, now) ==
    LET e       == [url_hash |-> k, html |-> html, created_at |-> now]
        evicted == h.ultra_hot[h.ultra_hot_next]
        spilled == IF evicted = None THEN h ELSE InsertToHotMap(h, evicted)
    IN  HotCacheOf([h.ultra_hot EXCEPT ![h.ultra_hot_next] = e],
                   NextSlot(h.ultra_hot_next),
                   spilled.hot_map, spilled.access_order)

\* promote_to_ultra_hot: out of the map and of its queue, then insert() with
\* a fresh created_at.
Position(s, k) == CHOOSE i \in DOMAIN s : s[i] = k /\ \A j \in 1 .. i - 1 : s[j] # k
DropFirst(s, k) == IF k \in ToSet(s) THEN RemoveAt(s, Position(s, k)) ELSE s
Unmapped(h, k) ==
    HotCacheOf(h.ultra_hot, h.ultra_hot_next,
               Without(h.hot_map, k), DropFirst(h.access_order, k))
PromoteToUltraHot(h, k, html, now) == HotInsert(Unmapped(h, k), k, html, now)

\* get: the cache after it.  An expired map entry is dropped from the map
\* alone; a live one is promoted.  What it answers is HotPeek.
AfterGet(h, k, now) ==
    IF SlotsOf(h, k) # {} \/ k \notin DOMAIN h.hot_map THEN h
    ELSE IF IsExpired(h.hot_map[k], now)
         THEN HotCacheOf(h.ultra_hot, h.ultra_hot_next,
                         Without(h.hot_map, k), h.access_order)
         ELSE PromoteToUltraHot(h, k, h.hot_map[k].html, now)

\* Pages a hot cache holds in either tier.
HotPages(h) ==
    {h.ultra_hot[i].html : i \in {j \in Slots : h.ultra_hot[j] # None}}
      \cup {h.hot_map[k].html : k \in DOMAIN h.hot_map}

HotLen(h) ==
    Cardinality({i \in Slots : h.ultra_hot[i] # None}) + Cardinality(DOMAIN h.hot_map)
=============================================================================
