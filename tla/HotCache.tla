------------------------------ MODULE HotCache ------------------------------
(***************************************************************************)
(* One HotCache value (src/cache/hot.rs) driven through its public API in  *)
(* any order: insert, get, clear, and the clock.  peek leaves the cache    *)
(* alone, so what it answers is an expression (HotPeek), not a step.       *)
(***************************************************************************)
EXTENDS HotCacheOps

CONSTANTS
    MaxNow,      \* bound: the clock stops here
    MaxOrder     \* bound: access_order is not grown past this length

VARIABLES
    hot,         \* the HotCache value
    now,         \* Instant::now(), in the unit of TTL
    latest,      \* history: the page last inserted under a key since clear
    clean        \* history: no key was inserted while resident and no
                 \* expired entry was dropped by get, since the last clear

vars == <<hot, now, latest, clean>>

Resident(k) == SlotsOf(hot, k) # {} \/ k \in DOMAIN hot.hot_map

Init ==
    /\ hot = NewHotCache
    /\ now = 0
    /\ latest = [k \in Key |-> None]
    /\ clean = TRUE

Insert(k, html) ==
    /\ Len(hot.access_order) < MaxOrder
    /\ hot' = HotInsert(hot, k, html, now)
    /\ latest' = [latest EXCEPT ![k] = html]
    /\ clean' = (clean /\ ~Resident(k))
    /\ UNCHANGED now

Get(k) ==
    /\ Len(hot.access_order) < MaxOrder
    /\ hot' = AfterGet(hot, k, now)
    /\ clean' = (clean /\ (Resident(k) /\ SlotsOf(hot, k) = {}
                              => ~IsExpired(hot.hot_map[k], now)))
    /\ UNCHANGED <<now, latest>>

Clear ==
    /\ hot' = NewHotCache
    /\ latest' = [k \in Key |-> None]
    /\ clean' = TRUE
    /\ UNCHANGED now

Tick ==
    /\ now < MaxNow
    /\ now' = now + 1
    /\ UNCHANGED <<hot, latest, clean>>

Next ==
    \/ \E k \in Key, html \in Html : Insert(k, html)
    \/ \E k \in Key : Get(k)
    \/ Clear
    \/ Tick

Spec == Init /\ [][Next]_vars

-----------------------------------------------------------------------------
TypeOK ==
    /\ IsHotCache(hot)
    /\ now \in Nat
    /\ latest \in [Key -> Html \cup {None}]
    /\ clean \in BOOLEAN

\* Every key of the map is in the eviction queue (hot.rs:148-157): were one
\* missing, eviction could never reach it and the entry would stay for ever.
OrderCoversMap == DOMAIN hot.hot_map \subseteq ToSet(hot.access_order)

\* As long as every key inserted was absent and no expired entry was dropped
\* by get, the queue lists each mapped key once and the map keeps to
\* HOT_MAP_CAPACITY (hot.rs:16-17, and the claim of test_capacity).
CleanCapacity ==
    clean => /\ IsInjective(hot.access_order)
             /\ ToSet(hot.access_order) = DOMAIN hot.hot_map
             /\ Cardinality(DOMAIN hot.hot_map) <= HOT_MAP_CAPACITY

\* Slot i was written no later than slot j when the round-robin pointer
\* reaches i first, so the slot overwritten next is the oldest one.
Age(i) == (i - hot.ultra_hot_next) % ULTRA_HOT_SIZE
RingInOrder ==
    \A i, j \in Slots :
        hot.ultra_hot[i] # None /\ Age(i) <= Age(j) =>
            /\ hot.ultra_hot[j] # None
            /\ hot.ultra_hot[i].created_at <= hot.ultra_hot[j].created_at

\* What the map holds under a key is never newer than a copy of that key in
\* the array, so a lookup that stops at the array (hot.rs:77-84) does not
\* hide a newer page behind it, and the promotion of get (hot.rs:94-95) never
\* puts back an older page than one already promoted.
SpilledIsOlder ==
    \A k \in DOMAIN hot.hot_map : \A i \in SlotsOf(hot, k) :
        hot.hot_map[k].created_at <= hot.ultra_hot[i].created_at

\* "Evict oldest if at capacity" (hot.rs:148) for clean caches: the entry an
\* insert drops from the map was created no later than any entry it keeps.
Dropped == {k \in DOMAIN hot.hot_map \ DOMAIN hot'.hot_map : SlotsOf(hot', k) = {}}
Kept    == {k \in DOMAIN hot.hot_map \cap DOMAIN hot'.hot_map :
              hot'.hot_map[k] = hot.hot_map[k]}
EvictsOldest ==
    \A k \in Dropped, j \in Kept :
        hot.hot_map[k].created_at <= hot.hot_map[j].created_at
CleanEvictsOldest == [][clean' => EvictsOldest]_vars

-----------------------------------------------------------------------------
\* hot.rs:274-275 (test_capacity): "Should have at most 128 + 8 = 136 entries".
WithinCapacity == HotLen(hot) <= ULTRA_HOT_SIZE + HOT_MAP_CAPACITY

\* hot.rs:24, "Ultra-hot array for most recent entries": the page a lookup
\* finds under a key is the one inserted last under it.
FindsMostRecent == \A k \in Key : HotPeek(hot, k, now) \in {latest[k], None}
=============================================================================
