------------------------------ MODULE SsrCache ------------------------------
(***************************************************************************)
(* SsrCache (src/cache/ssr.rs): one hot cache per thread over a shared     *)
(* cold cache, and a generation counter by which an invalidation on one    *)
(* thread empties the hot caches of all.  Threads interleave at every      *)
(* access to shared memory: the cold cache's DashMap and the generation.   *)
(* What a thread does to its own hot cache between two such accesses is    *)
(* part of the step.                                                       *)
(*                                                                         *)
(* A key stands for a URL and its hash.  A page is one rendered answer: it *)
(* is inserted at most once, so a page tells which insert it came from.    *)
(* Which entries an eviction takes is left open here; ColdCache.tla has    *)
(* the choice.                                                             *)
(***************************************************************************)
EXTENDS HotCacheOps

CONSTANTS
    Thread,           \* threads that call the cache
    UrlPrefix,         \* sets of keys: the URLs that start with some prefix
    MaxEntries,       \* max_cold_entries
    EvictBatch,       \* entries one evict_batch removes at most
    MaxGeneration,    \* bound: no revocation starts once this is reached
    MaxNow,           \* bound: the clock stops here
    MaxInsertTicks,   \* bound: time one insert call may take
    MaxLookupTicks,   \* bound: time a lookup may take to promote what it found
    MaxOrder          \* bound: no step grows an access_order past this length

ASSUME SsrConstants ==
    /\ UrlPrefix \subseteq SUBSET Key
    /\ None \notin Key
    /\ MaxEntries \in Nat /\ EvictBatch \in Nat
    /\ MaxInsertTicks \in Nat /\ MaxLookupTicks \in Nat

VARIABLES
    cold,        \* ColdCache.cache: page and created_at of each resident key
    generation,  \* SsrCache.generation
    hot,         \* HotCacheState.cache of each thread
    hotGen,      \* HotCacheState.generation of each thread
    now,         \* Instant::now()
    pc,          \* where each thread is in the call it makes
    key, page,   \* its url, and the html it inserts or has found
    todo, found, \* keys its scan has still to visit or drop; keys it found
    owner, born, \* history: the key and the time of each page's insert call
    since,       \* history: when each thread's lookup found its page live
    done,        \* history: pages whose insert call has returned
    doomed,      \* history: pages the call in progress is to make unreachable
    purged       \* history: pages doomed by calls that bumped the generation

local   == <<pc, key, page, todo, found>>
history == <<owner, born, since, done, doomed, purged>>
vars    == <<cold, generation, hot, hotGen, now, local, history>>

InsertSteps == {"evict", "put", "fill"}
Steps == {"idle", "coldGet", "coldExpire", "promote", "scan", "drop", "bump"} \cup InsertSteps

DoneOf(K) == {p \in done : owner[p] \in K}

Init ==
    /\ cold = [k \in {} |-> None]
    /\ generation = 0
    /\ hot = [t \in Thread |-> NewHotCache]
    /\ hotGen = [t \in Thread |-> 0]
    /\ now = 0
    /\ pc = [t \in Thread |-> "idle"]
    /\ key = [t \in Thread |-> None]
    /\ page = [t \in Thread |-> None]
    /\ todo = [t \in Thread |-> {}]
    /\ found = [t \in Thread |-> {}]
    /\ owner = [p \in Html |-> None]
    /\ born = [p \in Html |-> 0]
    /\ since = [t \in Thread |-> 0]
    /\ done = {} /\ purged = {}
    /\ doomed = [t \in Thread |-> {}]

\* Variant of Refreshed that never empties a hot cache.
Refreshed_Never(t) == hot[t]

\* get_or_init_hot_cache: a hot cache of another generation is emptied.
Refreshed(t) == IF hotGen[t] = generation THEN hot[t] ELSE NewHotCache

Goto(t, step) == pc' = [pc EXCEPT ![t] = step]
Return(t) ==
    /\ Goto(t, "idle")
    /\ key' = [key EXCEPT ![t] = None]
    /\ page' = [page EXCEPT ![t] = None]
    /\ todo' = [todo EXCEPT ![t] = {}]
    /\ found' = [found EXCEPT ![t] = {}]

-----------------------------------------------------------------------------
\* try_get, up to the hot cache's answer.
LookupHot(t, k) ==
    /\ pc[t] = "idle"
    /\ hot' = [hot EXCEPT ![t] = Refreshed(t)]
    /\ hotGen' = [hotGen EXCEPT ![t] = generation]
    /\ IF HotPeek(Refreshed(t), k, now) # None
       THEN UNCHANGED local
       ELSE /\ Goto(t, "coldGet")
            /\ key' = [key EXCEPT ![t] = k]
            /\ UNCHANGED <<page, todo, found>>
    /\ UNCHANGED <<cold, generation, now, history>>

\* ColdCache::get finds no entry: a miss.
ColdMiss(t) ==
    /\ pc[t] = "coldGet" /\ key[t] \notin DOMAIN cold
    /\ Return(t)
    /\ UNCHANGED <<cold, generation, hot, hotGen, now, history>>

\* ... or a live one, whose page it takes with it ...
ColdHit(t) ==
    /\ pc[t] = "coldGet" /\ key[t] \in DOMAIN cold
    /\ ~IsExpired(cold[key[t]], now)
    /\ Len(hot[t].access_order) < MaxOrder
    /\ Goto(t, "promote")
    /\ page' = [page EXCEPT ![t] = cold[key[t]].html]
    /\ since' = [since EXCEPT ![t] = now]
    /\ UNCHANGED <<cold, generation, hot, hotGen, now, key, todo, found,
                   owner, born, done, doomed, purged>>

\* ... to promote it to the hot cache, as an entry made at that time.  The
\* generation is not read again.
Promote(t) ==
    /\ pc[t] = "promote"
    /\ hot' = [hot EXCEPT ![t] = HotInsert(@, key[t], page[t], now)]
    /\ since' = [since EXCEPT ![t] = 0]
    /\ Return(t)
    /\ UNCHANGED <<cold, generation, hotGen, now, owner, born, done, doomed, purged>>

\* ... or an expired one: the shard lock is released, and only then is the
\* key removed, whatever it holds by that time.
ColdExpired(t) ==
    /\ pc[t] = "coldGet" /\ key[t] \in DOMAIN cold
    /\ IsExpired(cold[key[t]], now)
    /\ Goto(t, "coldExpire")
    /\ UNCHANGED <<cold, generation, hot, hotGen, now, key, page, todo, found, history>>

ColdExpire(t) ==
    /\ pc[t] = "coldExpire"
    /\ cold' = Without(cold, key[t])
    /\ Return(t)
    /\ UNCHANGED <<generation, hot, hotGen, now, history>>

-----------------------------------------------------------------------------
\* insert, up to the choice of victims: none below capacity, or when another
\* thread is evicting.  The scan that chooses them goes on while other threads
\* insert and remove, so a victim need not be resident at either end of it.
InsertStart(t, k, p) ==
    /\ pc[t] = "idle" /\ owner[p] = None
    /\ owner' = [owner EXCEPT ![p] = k]
    /\ born' = [born EXCEPT ![p] = now]
    /\ key' = [key EXCEPT ![t] = k]
    /\ page' = [page EXCEPT ![t] = p]
    /\ \E victims \in SUBSET Key :
          /\ victims # {} => Cardinality(DOMAIN cold) >= MaxEntries
          /\ Cardinality(victims) <= EvictBatch
          /\ todo' = [todo EXCEPT ![t] = victims]
          /\ Goto(t, IF victims = {} THEN "put" ELSE "evict")
    /\ UNCHANGED <<cold, generation, hot, hotGen, now, found,
                   since, done, doomed, purged>>

Evict(t, k) ==
    /\ pc[t] = "evict" /\ k \in todo[t]
    /\ cold' = Without(cold, k)
    /\ todo' = [todo EXCEPT ![t] = @ \ {k}]
    /\ Goto(t, IF todo[t] = {k} THEN "put" ELSE "evict")
    /\ UNCHANGED <<generation, hot, hotGen, now, key, page, found, history>>

ColdPut(t) ==
    /\ pc[t] = "put"
    /\ cold' = Put(cold, key[t], [html |-> page[t], created_at |-> now])
    /\ Goto(t, "fill")
    /\ UNCHANGED <<generation, hot, hotGen, now, key, page, todo, found, history>>

\* The hot half of insert reads the generation after the cold half is done.
HotFill(t) ==
    /\ pc[t] = "fill"
    /\ Len(Refreshed(t).access_order) < MaxOrder
    /\ hot' = [hot EXCEPT ![t] = HotInsert(Refreshed(t), key[t], page[t], now)]
    /\ hotGen' = [hotGen EXCEPT ![t] = generation]
    /\ done' = done \cup {page[t]}
    /\ Return(t)
    /\ UNCHANGED <<cold, generation, now, owner, born, since, doomed, purged>>

-----------------------------------------------------------------------------
\* invalidate: the removal tells whether to bump.
Invalidate(t, k) ==
    /\ pc[t] = "idle" /\ generation < MaxGeneration
    /\ IF k \in DOMAIN cold
       THEN /\ cold' = Without(cold, k)
            /\ Goto(t, "bump")
            /\ doomed' = [doomed EXCEPT ![t] = DoneOf({k})]
       ELSE UNCHANGED <<cold, pc, doomed>>
    /\ UNCHANGED <<generation, hot, hotGen, now, key, page, todo, found,
                   owner, born, since, done, purged>>

\* invalidate_prefix: the scan visits the shards one after the other ...
PrefixStart(t, P) ==
    /\ pc[t] = "idle" /\ generation < MaxGeneration
    /\ Goto(t, "scan")
    /\ todo' = [todo EXCEPT ![t] = P]
    /\ doomed' = [doomed EXCEPT ![t] = DoneOf(P)]
    /\ UNCHANGED <<cold, generation, hot, hotGen, now, key, page, found,
                   owner, born, since, done, purged>>

Scan(t, k) ==
    /\ pc[t] = "scan" /\ k \in todo[t]
    /\ todo' = [todo EXCEPT ![t] = @ \ {k}]
    /\ found' = [found EXCEPT ![t] = @ \cup ({k} \cap DOMAIN cold)]
    /\ UNCHANGED <<cold, generation, hot, hotGen, now, pc, key, page, history>>

\* ... and with nothing found the call returns without a bump, otherwise the
\* keys found are removed one by one.
ScanEmpty(t) ==
    /\ pc[t] = "scan" /\ todo[t] = {} /\ found[t] = {}
    /\ doomed' = [doomed EXCEPT ![t] = {}]
    /\ Return(t)
    /\ UNCHANGED <<cold, generation, hot, hotGen, now, owner, born, since, done,
                   purged>>

ScanDone(t) ==
    /\ pc[t] = "scan" /\ todo[t] = {} /\ found[t] # {}
    /\ Goto(t, "drop")
    /\ todo' = [todo EXCEPT ![t] = found[t]]
    /\ found' = [found EXCEPT ![t] = {}]
    /\ UNCHANGED <<cold, generation, hot, hotGen, now, key, page, history>>

\* clear: DashMap::clear empties the shards one after the other.
ClearStart(t) ==
    /\ pc[t] = "idle" /\ generation < MaxGeneration
    /\ Goto(t, "drop")
    /\ todo' = [todo EXCEPT ![t] = Key]
    /\ doomed' = [doomed EXCEPT ![t] = done]
    /\ UNCHANGED <<cold, generation, hot, hotGen, now, key, page, found,
                   owner, born, since, done, purged>>

Drop(t, k) ==
    /\ pc[t] = "drop" /\ k \in todo[t]
    /\ cold' = Without(cold, k)
    /\ todo' = [todo EXCEPT ![t] = @ \ {k}]
    /\ Goto(t, IF todo[t] = {k} THEN "bump" ELSE "drop")
    /\ UNCHANGED <<generation, hot, hotGen, now, key, page, found,
                   owner, born, since, done, doomed, purged>>

\* The fetch_add all three end with.
Bump(t) ==
    /\ pc[t] = "bump"
    /\ generation' = generation + 1
    /\ purged' = purged \cup doomed[t]
    /\ doomed' = [doomed EXCEPT ![t] = {}]
    /\ Return(t)
    /\ UNCHANGED <<cold, hot, hotGen, now, owner, born, since, done>>

-----------------------------------------------------------------------------
Tick ==
    /\ now < MaxNow
    /\ \A t \in Thread : pc[t] \in InsertSteps => now - born[page[t]] < MaxInsertTicks
    /\ \A t \in Thread : pc[t] = "promote" => now - since[t] < MaxLookupTicks
    /\ now' = now + 1
    /\ UNCHANGED <<cold, generation, hot, hotGen, local, history>>

Lookup(t) ==
    \/ \E k \in Key : LookupHot(t, k)
    \/ ColdMiss(t) \/ ColdHit(t) \/ Promote(t) \/ ColdExpired(t) \/ ColdExpire(t)

Insert(t) ==
    \/ \E k \in Key, p \in Html : InsertStart(t, k, p)
    \/ \E k \in Key : Evict(t, k)
    \/ ColdPut(t) \/ HotFill(t)

Revoke(t) ==
    \/ \E k \in Key : Invalidate(t, k)
    \/ \E P \in UrlPrefix : PrefixStart(t, P)
    \/ \E k \in Key : Scan(t, k) \/ Drop(t, k)
    \/ ScanEmpty(t) \/ ScanDone(t) \/ ClearStart(t) \/ Bump(t)

Next == Tick \/ \E t \in Thread : Lookup(t) \/ Insert(t) \/ Revoke(t)

Spec == Init /\ [][Next]_vars

-----------------------------------------------------------------------------
\* What a try_get(k) by thread t answers when nothing interferes.
LookupNow(t, k) ==
    LET inHot == HotPeek(Refreshed(t), k, now)
    IN  IF inHot # None THEN inHot
        ELSE IF k \in DOMAIN cold THEN Answer(cold[k], now)
        ELSE None
Reachable == {LookupNow(t, k) : t \in Thread, k \in Key} \ {None}

IsColdMap(m) ==
    DOMAIN m \subseteq Key /\ m \in [DOMAIN m -> [html : Html, created_at : Nat]]

TypeOK ==
    /\ IsColdMap(cold)
    /\ generation \in Nat
    /\ DOMAIN hot = Thread /\ \A t \in Thread : IsHotCache(hot[t])
    /\ hotGen \in [Thread -> Nat]
    /\ now \in Nat
    /\ pc \in [Thread -> Steps]
    /\ key \in [Thread -> Key \cup {None}]
    /\ page \in [Thread -> Html \cup {None}]
    /\ todo \in [Thread -> SUBSET Key]
    /\ found \in [Thread -> SUBSET Key]
    /\ owner \in [Html -> Key \cup {None}]
    /\ born \in [Html -> Nat] /\ since \in [Thread -> Nat]
    /\ done \subseteq Html /\ purged \subseteq Html
    /\ doomed \in [Thread -> SUBSET Html]

\* A page that was fully inserted before an invalidate, invalidate_prefix or
\* clear that removed something is not answered to any thread once the call
\* has bumped the generation, whatever copies the threads' hot caches keep
\* and whatever lookups, inserts and evictions overlapped it (ssr.rs:169-197).
PurgedUnreachable == purged \cap Reachable = {}

\* Pages that lookups have found and not answered yet.
Promoting == {t \in Thread : pc[t] = "promote"}
Answering == {page[t] : t \in Promoting}

\* A promoted page starts a new life in the hot cache (ssr.rs:135, hot.rs:132),
\* whose beginning is read after the check of the old one (cold.rs:80).  So a
\* page may be answered up to two TTLs after its insert, and the time the
\* insert and the lookup that promoted it took, and no later.
AgeBound ==
    TTL > 0 => \A p \in Reachable \cup Answering :
        now - born[p] <= 2 * TTL + MaxInsertTicks + MaxLookupTicks

\* No thread is answered a page of another URL (ssr.rs:114-163).
AnswersOwnUrl ==
    \A t \in Thread, k \in Key : LookupNow(t, k) # None => owner[LookupNow(t, k)] = k

\* A page is stored while the cold cache or a hot cache of the current
\* generation holds it, or a lookup is about to put it into one; before that an
\* insert call carries it.
Carried == {page[t] : t \in {u \in Thread : pc[u] \in InsertSteps}}
Held    == {cold[k].html : k \in DOMAIN cold}
             \cup {page[t] : t \in {u \in Promoting : hotGen[u] = generation}}
             \cup UNION {HotPages(Refreshed(t)) : t \in Thread}
Life ==
    LET carried == Carried
        held    == Held
    IN  [p \in Html |-> IF owner[p] = None THEN "new"
                        ELSE IF p \in carried THEN "offered"
                        ELSE IF p \in held THEN "stored" ELSE "gone"]

\* The caches of all threads together behave as one cache whose pages live
\* once: nothing that is gone everywhere is ever put back by a promotion, an
\* insert's second half or a stale hot cache (ssr.rs:114-197).
Promise == INSTANCE PageCache WITH life <- Life
ImplementsPageCache == Promise!Spec

-----------------------------------------------------------------------------
\* ssr.rs:89, "ttl_secs - Time-to-live in seconds", README.md:395, "Expire
\* after 5 minutes": no page is answered later than that after its insert.
AgeWithinTtl ==
    TTL > 0 => \A p \in Reachable : now - born[p] <= TTL + MaxInsertTicks + MaxLookupTicks

\* engine.rs:174-176, invalidate is for "content updates for a specific page":
\* with no other call in progress, invalidate(k) leaves no page of k to be
\* answered.  When cold does not hold k the call changes nothing
\* (ssr.rs:171), so nothing may be reachable then.
InvalidateSuffices ==
    (\A t \in Thread : pc[t] = "idle") =>
        \A k \in Key \ DOMAIN cold : DoneOf({k}) \cap Reachable = {}
=============================================================================
