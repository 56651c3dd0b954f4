----------------------------- MODULE ColdCache ------------------------------
(***************************************************************************)
(* ColdCache (src/cache/cold.rs): a DashMap shared by all threads, with a  *)
(* TTL, a least-recently-used order kept by an atomic counter, and a batch *)
(* eviction that one thread at a time performs.  Each step is one access   *)
(* to shared memory: a map operation on one key, an atomic counter, the    *)
(* evicting flag.  The bodies of the entries (url, html) do not matter     *)
(* here; SsrCache.tla follows the pages.                                   *)
(*                                                                         *)
(* External: a DashMap reference holds its shard's lock, so a writer of a  *)
(* key waits for its readers; an iteration visits shards one by one and is *)
(* no snapshot.  Here every key is a shard of its own.                     *)
(***************************************************************************)
EXTENDS Integers, FiniteSets, FiniteSetsExt

CONSTANTS
    Thread,
    Key,                  \* URL hashes
    NoKey,                \* what a thread outside a call works on
    UrlPrefix,            \* sets of keys whose URLs start with some prefix
    MaxEntries,           \* max_entries
    EVICT_BATCH_PERCENT,  \* 2 in the code
    EVICT_BATCH_MIN,      \* 8 in the code
    TTL,                  \* ttl_secs; 0 is ttl: None
    MaxAccess,            \* bound: no counted access starts beyond this
    MaxNow                \* bound: the clock stops here

ASSUME ColdConstants ==
    /\ NoKey \notin Key
    /\ IsFiniteSet(Thread) /\ IsFiniteSet(Key) /\ UrlPrefix \subseteq SUBSET Key
    /\ MaxEntries \in Nat /\ TTL \in Nat
    /\ EVICT_BATCH_PERCENT \in Nat /\ EVICT_BATCH_MIN \in Nat \ {0}

VARIABLES
    cache,           \* last_access and created_at of the resident keys
    access_counter,
    evicting,        \* the flag evict_batch takes
    now,
    pc,              \* where each thread is in the call it makes
    key,             \* its url_hash
    stamp,           \* its new_access
    todo,            \* keys its iteration has still to visit
    heap,            \* evict_batch's candidates, pairs of access and key
    victims,         \* keys it has still to remove
    count,           \* what the call is to report as removed
    seen,            \* history: pairs its iteration has read
    took,            \* history: entries the call did remove
    skipped          \* history: inserts that found another thread evicting

perThread == <<pc, key, stamp, todo, heap, victims, count, seen, took>>
vars == <<cache, access_counter, evicting, now, perThread, skipped>>

GetSteps    == {"getCount", "getStore", "expire"}
InsertSteps == {"cas", "scan", "evict", "count", "put"}
Steps       == {"idle", "find", "drop", "clear"} \cup GetSteps \cup InsertSteps

\* batch of evict_batch
Batch == Max({(MaxEntries * EVICT_BATCH_PERCENT) \div 100, EVICT_BATCH_MIN})

IsExpired(e) == TTL > 0 /\ now - e.created_at > TTL
Len(m) == Cardinality(DOMAIN m)
Without(m, k) == [j \in DOMAIN m \ {k} |-> m[j]]
With(m, k, e) == [j \in DOMAIN m \cup {k} |-> IF j = k THEN e ELSE m[j]]

\* Variant of Reads: the reference to an expired entry is still held.
Reads_Expired(t, k) == pc[t] \in {"getCount", "getStore", "expire"} /\ key[t] = k

\* get keeps its reference while it counts the access.
Reads(t, k) == pc[t] \in {"getCount", "getStore"} /\ key[t] = k
Writable(k) == \A t \in Thread : ~Reads(t, k)

Init ==
    /\ cache = [k \in {} |-> 0]
    /\ access_counter = 0 /\ evicting = FALSE /\ now = 0 /\ skipped = 0
    /\ pc = [t \in Thread |-> "idle"]
    /\ key = [t \in Thread |-> NoKey]
    /\ stamp = [t \in Thread |-> 0]
    /\ todo = [t \in Thread |-> {}] /\ victims = [t \in Thread |-> {}]
    /\ heap = [t \in Thread |-> {}] /\ seen = [t \in Thread |-> {}]
    /\ count = [t \in Thread |-> 0] /\ took = [t \in Thread |-> 0]

Goto(t, step) == pc' = [pc EXCEPT ![t] = step]

\* A call returns; its locals die.
Return(t) ==
    /\ Goto(t, "idle")
    /\ key' = [key EXCEPT ![t] = NoKey]
    /\ stamp' = [stamp EXCEPT ![t] = 0]
    /\ todo' = [todo EXCEPT ![t] = {}]
    /\ heap' = [heap EXCEPT ![t] = {}]
    /\ victims' = [victims EXCEPT ![t] = {}]
    /\ count' = [count EXCEPT ![t] = 0]
    /\ seen' = [seen EXCEPT ![t] = {}]
    /\ took' = [took EXCEPT ![t] = 0]

-----------------------------------------------------------------------------
\* get of an absent key returns at once.
GetLive(t, k) ==
    /\ pc[t] = "idle" /\ access_counter < MaxAccess
    /\ k \in DOMAIN cache /\ ~IsExpired(cache[k])
    /\ Goto(t, "getCount")
    /\ key' = [key EXCEPT ![t] = k]
    /\ UNCHANGED <<cache, access_counter, evicting, now, skipped,
                   stamp, todo, heap, victims, count, seen, took>>

\* Variants of FetchAdd: one too low, and a get that does not count.
FetchAdd_Low(t, next) ==
    /\ stamp' = [stamp EXCEPT ![t] = access_counter - 1]
    /\ access_counter' = access_counter + 1
    /\ Goto(t, next)
FetchAdd_InsertsOnly(t, next) ==
    /\ stamp' = [stamp EXCEPT ![t] = access_counter]
    /\ access_counter' = IF next = "put" THEN access_counter + 1 ELSE access_counter
    /\ Goto(t, next)

FetchAdd(t, next) ==
    /\ stamp' = [stamp EXCEPT ![t] = access_counter]
    /\ access_counter' = access_counter + 1
    /\ Goto(t, next)

GetCount(t) ==
    /\ pc[t] = "getCount"
    /\ FetchAdd(t, "getStore")
    /\ UNCHANGED <<cache, evicting, now, skipped, key, todo, heap, victims,
                   count, seen, took>>

\* Two readers of a key may store their counts in either order.
GetStore(t) ==
    /\ pc[t] = "getStore"
    /\ cache' = [cache EXCEPT ![key[t]].last_access = stamp[t]]
    /\ Return(t)
    /\ UNCHANGED <<access_counter, evicting, now, skipped>>

\* The reference to an expired entry is dropped before the key is removed:
\* the removal would wait for it otherwise.
GetExpired(t, k) ==
    /\ pc[t] = "idle" /\ k \in DOMAIN cache /\ IsExpired(cache[k])
    /\ Goto(t, "expire")
    /\ key' = [key EXCEPT ![t] = k]
    /\ UNCHANGED <<cache, access_counter, evicting, now, skipped,
                   stamp, todo, heap, victims, count, seen, took>>

Expire(t) ==
    /\ pc[t] = "expire" /\ Writable(key[t])
    /\ cache' = Without(cache, key[t])
    /\ Return(t)
    /\ UNCHANGED <<access_counter, evicting, now, skipped>>

-----------------------------------------------------------------------------
\* Variant of InsertCheck: evicts one entry too late.
InsertCheck_Late(t, k) ==
    /\ pc[t] = "idle" /\ access_counter < MaxAccess
    /\ key' = [key EXCEPT ![t] = k]
    /\ Goto(t, IF Len(cache) > MaxEntries THEN "cas" ELSE "count")
    /\ UNCHANGED <<cache, access_counter, evicting, now, skipped,
                   stamp, todo, heap, victims, count, seen, took>>

\* insert: the length is checked once.
InsertCheck(t, k) ==
    /\ pc[t] = "idle" /\ access_counter < MaxAccess
    /\ key' = [key EXCEPT ![t] = k]
    /\ Goto(t, IF Len(cache) >= MaxEntries THEN "cas" ELSE "count")
    /\ UNCHANGED <<cache, access_counter, evicting, now, skipped,
                   stamp, todo, heap, victims, count, seen, took>>

\* Variant of EvictWon: a store instead of the compare_exchange.
EvictWon_Store(t) ==
    /\ pc[t] = "cas"
    /\ evicting' = TRUE
    /\ Goto(t, "scan")
    /\ todo' = [todo EXCEPT ![t] = Key]
    /\ UNCHANGED <<cache, access_counter, now, skipped,
                   key, stamp, heap, victims, count, seen, took>>

EvictWon(t) ==
    /\ pc[t] = "cas" /\ ~evicting
    /\ evicting' = TRUE
    /\ Goto(t, "scan")
    /\ todo' = [todo EXCEPT ![t] = Key]
    /\ UNCHANGED <<cache, access_counter, now, skipped,
                   key, stamp, heap, victims, count, seen, took>>

EvictLost(t) ==
    /\ pc[t] = "cas" /\ evicting
    /\ Goto(t, "count")
    /\ skipped' = skipped + 1
    /\ UNCHANGED <<cache, access_counter, evicting, now,
                   key, stamp, todo, heap, victims, count, seen, took>>

Newest(H) == CHOOSE x \in H : \A y \in H : y[1] <= x[1]

\* Variant of Offered: keeps the newest.
Offered_Newest(H, x) ==
    IF Cardinality(H) < Batch THEN H \cup {x}
    ELSE IF x[1] > Newest(H)[1] THEN (H \ {Newest(H)}) \cup {x}
    ELSE H

\* One step of the heap: keep the Batch oldest.
Offered(H, x) ==
    IF Cardinality(H) < Batch THEN H \cup {x}
    ELSE IF x[1] < Newest(H)[1] THEN (H \ {Newest(H)}) \cup {x}
    ELSE H

EvictScan(t, k) ==
    /\ pc[t] = "scan" /\ k \in todo[t]
    /\ todo' = [todo EXCEPT ![t] = @ \ {k}]
    /\ IF k \in DOMAIN cache
       THEN LET x == <<cache[k].last_access, k>>
            IN  /\ heap' = [heap EXCEPT ![t] = Offered(@, x)]
                /\ seen' = [seen EXCEPT ![t] = @ \cup {x}]
       ELSE UNCHANGED <<heap, seen>>
    /\ UNCHANGED <<cache, access_counter, evicting, now, skipped,
                   pc, key, stamp, victims, count, took>>

\* Variant of EvictChosen: counts the heap after the loop has consumed it.
EvictChosen_Late(t) ==
    /\ pc[t] = "scan" /\ todo[t] = {}
    /\ Goto(t, "evict")
    /\ victims' = [victims EXCEPT ![t] = {x[2] : x \in heap[t]}]
    /\ UNCHANGED <<cache, access_counter, evicting, now, skipped,
                   key, stamp, todo, heap, count, seen, took>>

\* evicted is the number of candidates, taken before they are removed.
EvictChosen(t) ==
    /\ pc[t] = "scan" /\ todo[t] = {}
    /\ Goto(t, "evict")
    /\ victims' = [victims EXCEPT ![t] = {x[2] : x \in heap[t]}]
    /\ count' = [count EXCEPT ![t] = Cardinality(heap[t])]
    /\ UNCHANGED <<cache, access_counter, evicting, now, skipped,
                   key, stamp, todo, heap, seen, took>>

\* The removals of evict_batch, remove_by_prefix and clear.
RemoveVictim(t, k) ==
    /\ pc[t] \in {"evict", "drop", "clear"} /\ k \in victims[t] /\ Writable(k)
    /\ cache' = Without(cache, k)
    /\ victims' = [victims EXCEPT ![t] = @ \ {k}]
    /\ took' = [took EXCEPT ![t] = IF k \in DOMAIN cache THEN @ + 1 ELSE @]
    /\ UNCHANGED <<access_counter, evicting, now, skipped,
                   pc, key, stamp, todo, heap, count, seen>>

EvictDone(t) ==
    /\ pc[t] = "evict" /\ victims[t] = {}
    /\ evicting' = FALSE
    /\ Goto(t, "count")
    /\ UNCHANGED <<cache, access_counter, now, skipped,
                   key, stamp, todo, heap, victims, count, seen, took>>

InsertCount(t) ==
    /\ pc[t] = "count"
    /\ FetchAdd(t, "put")
    /\ UNCHANGED <<cache, evicting, now, skipped, key, todo, heap, victims,
                   count, seen, took>>

InsertPut(t) ==
    /\ pc[t] = "put" /\ Writable(key[t])
    /\ cache' = With(cache, key[t], [last_access |-> stamp[t], created_at |-> now])
    /\ Return(t)
    /\ UNCHANGED <<access_counter, evicting, now, skipped>>

-----------------------------------------------------------------------------
\* remove
Remove(t, k) ==
    /\ pc[t] = "idle" /\ k \in DOMAIN cache /\ Writable(k)
    /\ cache' = Without(cache, k)
    /\ UNCHANGED <<access_counter, evicting, now, perThread, skipped>>

\* remove_by_prefix: find the keys, count them, remove them.
PrefixStart(t, P) ==
    /\ pc[t] = "idle"
    /\ Goto(t, "find")
    /\ todo' = [todo EXCEPT ![t] = P]
    /\ UNCHANGED <<cache, access_counter, evicting, now, skipped,
                   key, stamp, heap, victims, count, seen, took>>

PrefixFind(t, k) ==
    /\ pc[t] = "find" /\ k \in todo[t]
    /\ todo' = [todo EXCEPT ![t] = @ \ {k}]
    /\ victims' = [victims EXCEPT ![t] = @ \cup ({k} \cap DOMAIN cache)]
    /\ UNCHANGED <<cache, access_counter, evicting, now, skipped,
                   pc, key, stamp, heap, count, seen, took>>

PrefixFound(t) ==
    /\ pc[t] = "find" /\ todo[t] = {}
    /\ count' = [count EXCEPT ![t] = Cardinality(victims[t])]
    /\ Goto(t, "drop")
    /\ UNCHANGED <<cache, access_counter, evicting, now, skipped,
                   key, stamp, todo, heap, victims, seen, took>>

\* clear empties every shard in turn.
ClearStart(t) ==
    /\ pc[t] = "idle"
    /\ Goto(t, "clear")
    /\ victims' = [victims EXCEPT ![t] = Key]
    /\ UNCHANGED <<cache, access_counter, evicting, now, skipped,
                   key, stamp, todo, heap, count, seen, took>>

RemovalDone(t) ==
    /\ pc[t] \in {"drop", "clear"} /\ victims[t] = {}
    /\ Return(t)
    /\ UNCHANGED <<cache, access_counter, evicting, now, skipped>>

Tick ==
    /\ now < MaxNow
    /\ now' = now + 1
    /\ UNCHANGED <<cache, access_counter, evicting, perThread, skipped>>

-----------------------------------------------------------------------------
Call(t) ==
    \/ \E k \in Key :
          GetLive(t, k) \/ GetExpired(t, k) \/ InsertCheck(t, k) \/ Remove(t, k)
    \/ \E P \in UrlPrefix : PrefixStart(t, P)
    \/ ClearStart(t)

\* A step inside a call that has begun.
Continue(t) ==
    \/ GetCount(t) \/ GetStore(t) \/ Expire(t)
    \/ EvictWon(t) \/ EvictLost(t) \/ EvictChosen(t) \/ EvictDone(t)
    \/ InsertCount(t) \/ InsertPut(t) \/ PrefixFound(t) \/ RemovalDone(t)
    \/ \E k \in Key : EvictScan(t, k) \/ RemoveVictim(t, k) \/ PrefixFind(t, k)

Next == Tick \/ \E t \in Thread : Call(t) \/ Continue(t)

Spec == Init /\ [][Next]_vars

\* A thread inside a call keeps running; no thread need make another call.
FairSpec == Spec /\ \A t \in Thread : WF_vars(Continue(t))

-----------------------------------------------------------------------------
TypeOK ==
    /\ DOMAIN cache \subseteq Key
    /\ cache \in [DOMAIN cache -> [last_access : Nat, created_at : Nat]]
    /\ access_counter \in Nat /\ now \in Nat /\ skipped \in Nat
    /\ evicting \in BOOLEAN
    /\ pc \in [Thread -> Steps]
    /\ key \in [Thread -> Key \cup {NoKey}] /\ stamp \in [Thread -> Nat]
    /\ todo \in [Thread -> SUBSET Key] /\ victims \in [Thread -> SUBSET Key]
    /\ heap \in [Thread -> SUBSET (Nat \X Key)] /\ seen \in [Thread -> SUBSET (Nat \X Key)]
    /\ count \in [Thread -> Nat] /\ took \in [Thread -> Nat]

\* The flag is up exactly while one thread scans or evicts (cold.rs:125-131,
\* 159): an eviction never runs twice at a time, and none leaves the flag up,
\* after which no insert would ever evict again.
Evictors == {t \in Thread : pc[t] \in {"scan", "evict"}}
SingleEvictor ==
    /\ Cardinality(Evictors) <= 1
    /\ evicting <=> Evictors # {}

\* No two entries have the same access count, however gets, puts and evictions
\* interleave, so "oldest" is never a matter of hash order (cold.rs:87, 103).
StampsUnique ==
    \A j, k \in DOMAIN cache : j # k => cache[j].last_access # cache[k].last_access

\* The bounded heap ends with the Batch oldest of the entries the scan met,
\* although accesses and removals go on meanwhile (cold.rs:140-152).
HeapIsOldestSeen ==
    \A t \in Thread : pc[t] = "scan" =>
        /\ heap[t] \subseteq seen[t]
        /\ Cardinality(heap[t]) = Min({Batch, Cardinality(seen[t])})
        /\ \A x \in heap[t], y \in seen[t] \ heap[t] : x[1] <= y[1]

\* How far the cache may grow beyond max_entries, "Maximum entries in the SSR
\* cache" (config.rs:23): by one entry for each other thread between its
\* length check and its put, and by one for each insert that found another
\* thread evicting (cold.rs:97-115, 125-131).  One thread alone keeps to
\* max_entries.
BoundedOvershoot ==
    Len(cache) <= Max({MaxEntries, 1}) + Cardinality(Thread) - 1 + skipped

\* An insert or remove_by_prefix that removed something does not report zero,
\* and none reports less than it removed (cold.rs:154, 191), though other
\* threads may have removed some of what it reports: SsrCache takes a report of
\* zero for "nothing removed" and then leaves the hot caches alone.
ReportsNoLess ==
    \A t \in Thread : pc[t] \in {"evict", "drop"} => took[t] <= count[t]

\* Every call returns: no removal waits for a reference its own thread holds
\* (cold.rs:80-83), an eviction finds its candidates, removes them and lets
\* the flag go (cold.rs:133-159), and no two threads wait for each other.
CallsEnd == \A t \in Thread : pc[t] # "idle" ~> pc[t] = "idle"
=============================================================================
