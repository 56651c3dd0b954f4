# Rusty SSR in TLA+

Rusty SSR renders pages with a pool of V8 threads and keeps them in a cache of
two tiers. These modules specify the caches, the pool, the engine, the start of a
process and the path of a request through a server; TLC checks them on small
instances, and TLAPS proves every safety property of those runs for every
instance.
Paths below are relative to the repository; `hot.rs`, `cold.rs` and `ssr.rs`
are in `src/cache/`, `pool.rs`, `runtime.rs`, `bundle.rs` and `renderer.rs` in
`src/v8_pool/`.

    tlc -config MCSsrCache.cfg MCSsrCache      # one run
    tlapm SsrCacheProofs.tla                   # the proofs of one module

## 1. Inventory

| Part | State | Operations | What is hard | What makes it correct |
|---|---|---|---|---|
| `HotCache` (hot.rs) | array of 8 slots with a round-robin pointer, map of 128 entries with an eviction queue, TTL | `get`, `peek`, `insert`, promotion, `clear`, `len` | three structures that must agree; duplicates of one URL; expiry in the middle | eviction reaches every entry, capacity, the newest copy of a URL wins, the oldest entry goes first |
| `ColdCache` (cold.rs) | `DashMap` of entries, access counter, `evicting` flag, TTL | `get`, `insert`, `evict_batch`, `remove`, `remove_by_prefix`, `clear`, `len` | all threads at once; scans that are no snapshot; check before put; a flag that must come down | bounded size, one evictor, LRU order, evictions end |
| `SsrCache` (ssr.rs) | a hot cache per thread, the cold cache, a generation counter, metrics | `try_get`, `insert`, `invalidate`, `invalidate_prefix`, `clear`, `metrics` | one thread revokes what others hold privately; steps of lookups and inserts on either side of a revocation | what was revoked is never answered again; a page answers its own URL, and not for longer than its life |
| Metrics (ssr.rs, padded.rs) | eight atomic counters | count, read, reset | read and reset one by one, while others count | hits and misses match lookups but for what a reset or a report met half-way |
| `V8Pool` (pool.rs, runtime.rs) | bounded channel, receiver behind a mutex, worker threads, `worker_count` | `new`, `render_with_data`, worker loop, drop | timeouts, cancelled futures, failed starts, panics, shutdown | no request lost or rendered twice; timed-out requests never run; calls end |
| Bundle (bundle.rs) | a once-only cell | three `init_*`, `get_bundle` | check, read and set by several threads; files that change; workers that read it later | all workers run one bundle, engines never lack it, calls in sequence agree |
| `SsrEngine` (engine.rs) | cache and pool | `render*`, `invalidate*`, `clear_cache` | the await between a miss and the insert | only answers are cached; nothing older than the last invalidation stays, save what was being rendered |
| Renderer (renderer.rs) | none | `render_html` | escaping; exceptions that become pages | the script names exactly the URL asked for |
| Brotli (middleware/brotli.rs) | none | `brotli_static`, `brotli_compress` | layers in either order, a file that vanishes | headers say how the body is coded; every request is replied to |
| Configuration (config.rs) | none | builder, `build` | `SsrEngine::new` takes configurations nobody validated | a validated configuration makes a pool that can serve |
| Errors, hashing | none | conversions | - | - |

How they interact: the engine asks the cache, on a miss awaits the pool, then
inserts. The cache calls a private `HotCache` per thread and the shared
`ColdCache`; threads influence each other's hot caches only through the
generation counter. Calls and workers of the pool share the channel; an answer
goes through a oneshot channel per call. Workers read the bundle once, when they
start.

## 2. Modules

| Module | Role |
|---|---|
| `HotCacheOps` | the hot cache as operators on a record, used by the two modules below |
| `HotCache` | one hot cache driven through its API in any order |
| `ColdCache` | the cold cache, one shared-memory access per step |
| `SsrCache` | threads, their hot caches, the cold cache, the generation |
| `PageCache` | what `SsrCache` promises, with neither tiers nor threads; `SsrCache!ImplementsPageCache` is the refinement |
| `CacheMetrics` | the counters of `SsrCache`, one atomic access per step |
| `V8Pool` | calls, channel, workers |
| `RenderService` | what `V8Pool` promises its callers; `V8Pool!ImplementsRenderService` is the refinement |
| `SsrEngine` | calls of the engine over an instance of `PageCache`, with content that changes and is invalidated |
| `Config` | the builder, the defaults and the validation, as operators |
| `Startup` | calls that make bundles, pools and engines, and the start of their workers |
| `Renderer`, `Brotli` | rendering and the two layers, as operators |
| `Service` | a server: `Startup`, then requests through layers, cache and workers |
| `MC*` | small instances: definitions and symmetry for the `.cfg` files |
| `HotCacheLemmas` | what the operators of `HotCacheOps` return and keep |
| `HotCacheProofs`, `ColdCacheProofs`, `SsrCacheProofs`, `CacheMetricsProofs`, `V8PoolProofs`, `SsrEngineProofs` | the theorems of each module |
| `ServiceProofs` | the theorems of `Startup`, `Renderer` and `Service` |

Definitions whose name contains `_` and a variant word (`Refreshed_Never`,
`MakeRoom_Late`) are faulty variants of the operator before the underscore. No
specification uses them; putting one in place of the original breaks the
property it was written against.

### HotCacheOps and HotCache

A hot cache is a record of `ultra_hot` (a function on the slots),
`ultra_hot_next`, `hot_map` (a function on the keys it holds) and `access_order`
(a sequence). `HotInsert` is `insert` with the spill of the overwritten slot and
the eviction in `insert_to_hot_map`; `AfterGet` is the state `get` leaves,
`HotPeek` the answer `peek` and `get` give. Both scans of the array stop at the
first slot with the hash, expired or not, and so does `FirstSlot`. The sizes are
constants: 8 and 128 in the code, 1 or 2 in the runs, where wrap-around, spill
and eviction take two to five inserts.

`clean` and `latest` in `HotCache` are history variables. `clean` says that no
resident key was inserted again and that no `get` dropped an expired entry; the
queue lists each mapped key once exactly under that condition.

### ColdCache

Every step is one access to shared memory. `get` is `GetLive`, `GetCount`,
`GetStore`, or `GetExpired`, `Expire`; `insert` is `InsertCheck` (the length),
the compare-exchange, `EvictScan` per key, `RemoveVictim` per candidate,
`EvictDone`, `InsertCount` and `InsertPut`. `DashMap` is external, modelled by
what `cold.rs` relies on: a reference holds the lock of its shard, so a writer of
that key waits; iteration visits one entry after the other and is no snapshot;
`len` is taken as one step. Every key is a shard of its own, which leaves out the
waiting of keys that share one. An entry has no body here.

### SsrCache

A key is a URL together with its hash, which is taken to be free of collisions.
A page is one rendered answer, inserted at most once, so it identifies its
insert. Steps are accesses to shared memory: the generation is read together
with what the thread then does to its own hot cache (`LookupHot`, `HotFill`),
since nobody else sees that cache. A lookup that finds a live page in the cold
cache (`ColdHit`, the check of its TTL) promotes it in a step of its own
(`Promote`): time passes and other threads run in between, and the copy is dated
at the second. The generation is not read again there, as in the code. Which keys an eviction
removes is left open, as any set of at most `EvictBatch` keys once the cache is
full; `ColdCache` has the choice. `invalidate_prefix` takes a set of keys.

The atomics of ssr.rs are relaxed, the model is sequentially consistent. The
difference does not reach the properties: a bump can become visible before the
unlock of the shard whose entry was removed, but not before its lock, and a
thread that then looks the key up waits for that lock; likewise a load of the
generation cannot move past the lock section that follows it.

History: `owner` and `born` of each page, `since` (when a lookup found the page it
is about to promote to be live), `done` (its insert returned), `doomed`
(what a running revocation is to take away: the pages of its URLs that were done
when it began to remove) and `purged` (what completed revocations took away).

`PageCache` gives every page one life: new, offered by an insert call, stored,
gone. The mapping calls a page stored while the cold cache or a hot cache of the
current generation holds it, or a lookup of that generation carries it from one
to the other. A page that is gone never comes back, and a purge
makes pages gone.

### CacheMetrics

A lookup counts itself, then a hit of one tier or a miss, and a promotion; an
insert counts itself and its eviction. `ResetStore` is one store of the reset
that `clear` ends with, `ReportLoad` one load of `metrics`. What a lookup finds is left
open. History is what the properties compare the counters with: the lookups a
reset tore, that is, those under way while it ran, and those a report met.

### V8Pool

A call is one future of `render_with_data` and its request. `Send` is a
`try_send` that succeeds, `TimedOut` one that finds the channel full past the
deadline; one that finds it full earlier changes nothing and is no step.
`Cancel` is the caller dropping the future at either await: a request already
sent stays in the channel and is rendered for nobody. Workers start or fail
(`StartFails`, counted out) or panic (not counted out), take the mutex, receive,
render, answer, and leave when the sender is gone and the buffer empty. A panic
drops the request and with it the sender of the answer. `capacity` is chosen
when the pool is made; with 0 a request goes straight to a worker that waits in
`recv`. `PoolError::Disconnected` has no action: the pool keeps a receiver
(`request_rx`), so `try_send` never meets a disconnected channel while a call
borrows the pool. The pool is dropped when no call borrows it. Pinning and
prefetching change nothing here.

`RenderService` knows neither channel nor threads: a request is asked for,
accepted, run and settled, or given up before it is accepted. `Stage` maps a
request to its stage by where it is found: answered, with a worker that renders
it, with one that does not yet or in the buffer, with its call, or nowhere.

### SsrEngine

A call goes from `Begin` to the lookup (`Hit`, `Miss`), on a miss to the pool
(`Rendered`, `Failed`, `Cancel`) and to the insert (`Inserted`). The cache is an
instance of `PageCache`, the promise `SsrCache` is shown to keep, so a lookup may
miss at any time and pages may be lost at any time; of the pool only its outcomes
remain. Between `RevokeBegin` and `RevokeEnd` an invalidation, a prefix
invalidation or a clear runs while calls go on; it takes away the pages whose
insert had returned when it began. `RevokeNothing` is an invalidation that finds
none of its URLs in the cold cache. One invalidation runs at a time, a bound of
the model.

`content` is the version of what a URL should show, changed from outside by
`Update`; a caller takes its data when its call begins (`asked`). A page is named
by the call that rendered it. History: `revoked` (the last invalidation of each
URL that took effect and returned, with the version and the calls in flight when
it began) and `known` (that record when a call began).

Errors are mapped as in engine.rs:239-250. `PoolFull`, which error.rs:23
describes as "request was rejected", is the image of `Disconnected` alone, which
the pool never reports; a full pool ends in `Timeout`.

### Config, Startup

A builder is a function on the options that were set; `Filled` adds the
defaults, `Valid` are the checks of `build`. The state of `Startup` is
the cell `SSR_BUNDLE` and the calls of the application that overlap or not:
`BuildEngine` (`build_engine`), `NewEngine` (`SsrEngine::new` on a configuration
that was written out), `InitBundle`, `GiveText` (`init_bundle_from_string`,
`init_bundle_raw`) and `NewPool` (`V8Pool::new` alone). The first three run
`CheckCell`, `ReadFile`, `SetCell`; engines then `Spawn`. `StartWorker` is a
worker thread in `init_runtime`, at any later time: it panics without a bundle,
leaves if the bundle does not load, or runs the text it found. `CrashWorker` is a
panic of a running worker while it renders, which nothing makes up for. A text is told
apart by its script (renders, throws at times, defines no such function, answers
something else than a string, never resolves, needs `window` when loaded, does
not load) and by the polyfills in front of it. Files may be replaced (`Deploy`).

### Renderer, Brotli, Service

A URL is a sequence of tokens: pieces of text, the characters that matter to
JavaScript, and the ending. `EscapedUrl` makes the two replacements in their order,
`Literal` reads the result back as JavaScript does, token by token (`ReadToken`,
whose cases exclude each other), and `RenderHtml` gives the
results a render may have. A URL is a sequence of any length in the proofs. An exception is caught inside the script and comes
back as a page; to the engine it is a success.

`Service` follows one request at a time through the layers (`PassLayer`,
`FileExists`, `ReadBr`), the handler of examples/basic.rs and the cache (`Hit`,
`Miss`), a worker that renders it (`Rendered`) or panics (`Crashed`), or a pool that
gives it up (`GivenUp`), and back out through the layers (`Leave`). A crashed
worker is lost to the pool, whether this request's render panicked or another's
(`OtherCrashes`, for the engine that serves); the request gets the error of
engine.rs:245-247. When the last worker has gone the next request waits for ever at
pool.rs:183. `.br` files come and go, so one may vanish
between the check and the read. A stack has each layer at most once. The cache holds one page for each URL and may
lose any, as `PageCache` allows; how concurrent calls meet is for the modules
above. The handler turns an error into a page with status 200 as the example
does.

`brotli_compress` around `brotli_static` compresses an `.html.br` file once more
under one `Content-Encoding`; `BodyAsDeclared` names this as the one exception.
A client that refuses br by `br;q=0` counts as one that mentions it, as in the
code. The layers' two errors 500, of a body that cannot be read or compressed,
are left out: the bodies here are in memory.

## 3. What the runs show

| Run | Bounds | Shows |
|---|---|---|
| `MCHotCache` | 5 keys, 2 slots, map of 2, TTL 1, clock to 2, queue up to 4 | `OrderCoversMap`, `CleanCapacity`, `RingInOrder`, `SpilledIsOlder`, `CleanEvictsOldest`. Five keys fill array and map and force one eviction; TTL 1 with a clock to 2 lets entries expire in either tier |
| `MCSsrCache` | 2 threads, 2 keys, 2 pages, one slot, map of 1, cold cache of 1, TTL 1, inserts and promotions of at most 1 tick each, any number of revocations, a clock that goes on | `PurgedUnreachable`, `AnswersOwnUrl`, `AgeBound`, `ImplementsPageCache`. Two threads suffice for every race of a revocation with a lookup or insert, and two pages for one URL rendered again while its old page lingers, or for two URLs that push each other out |
| `MCColdCache` | 2 threads, 3 keys (one under the prefix), `max_entries` 1, batch 1, TTL 1, 2 accesses, clock to 2 | `SingleEvictor`, `StampsUnique`, `HeapIsOldestSeen`, `BoundedOvershoot`, `ReportsNoLess`, `CallsEnd`. With one entry allowed every insert meets a full cache; two calls may meet in any of their steps, and entries expire under readers |
| `MCCacheMetrics` | 3 threads, 2 calls, 2 resets, 1 report | `DriftBounded`, `PromotionsFollow`, `ReportSkew`. Two lookups can be on either side of each store of a reset, and of a second one |
| `MCV8Pool` | 2 calls, 2 workers, capacity 0 or 1, timeout 1, clock to 2 | `SentIsSomewhere`, `TimeoutNeverRuns`, `SentIsAnswered`, `SendingEnds`, `ShutdownCompletes`, `ImplementsRenderService`. Two calls fill a channel of one, or of none, and leave one to time out; of two workers one may fail or panic and the other go on |
| `MCSsrEngine` | 3 calls, 1 URL, one change of content | `OnlyAnswersCached`, `StaleOnlyInFlight`. One call to be in flight across an invalidation, one to be answered its page, one to come in between; a second URL adds only calls that do not meet |
| `MCService` | 2 calls while the process starts, 2 files, one replaced once, 5 configurations with pools of 0, 1 and 2 workers, any of which may panic, then requests for 2 URLs in 3 encodings, layers in both orders | `OneBundle`, `EnginesFindBundle`, `SequentialInitsAgree`, `RepliesFitUrl`, `BodyAsDeclared`, `RequestsEnd`. Two calls race for the cell or follow each other, with different files; one URL has a `.br` file and characters that need escaping, the other a line terminator; of two workers one may panic and the other go on, or both |

Every run also checks the module's type invariant where it is listed in the
`.cfg`. Five more runs refute what the repository says of itself:

| Run | Refuted statement | What happens |
|---|---|---|
| `MCHotCacheCapacity` | hot.rs:274 "Should have at most 128 + 8 = 136 entries" | inserting a resident URL again queues it twice; an eviction spent on the second mention removes nothing and the map grows |
| `MCHotCacheMostRecent` | hot.rs:24 "most recent entries" | with two copies in the array the scan answers the older one |
| `MCSsrCacheInvalidate` | engine.rs:176, test at integration_tests.rs:510-520 | a page evicted from the cold cache but held by a hot cache survives `invalidate`, which bumps the generation only if the cold cache held the URL |
| `MCSsrCacheStale` | ssr.rs:89, README.md:395 "Expire after 5 minutes" | a page promoted late in its life starts another one |
| `MCV8PoolActive` | pool.rs:190 "Get the number of active workers", engine.rs:207 "Get the number of active V8 workers" | `worker_count` is lowered where a worker fails to start or leaves its loop, not where it panics: the thread is gone and still counted |

`AgeBound` (two lifetimes, and the time of an insert and a lookup) and `CleanCapacity` are what does hold in their place.
`StaleOnlyInFlight` bounds engine.rs:176 "Use after content updates for a specific
page" in the same way: old content comes only from a render in flight. So does
`BoundedOvershoot` (one entry per other thread and per lost compare-exchange)
with config.rs:23 "Maximum entries in the SSR cache". `ReportsNoLess` and
`ReportSkew` likewise say exactly what the counts of removed entries and a report of
the metrics mean: a count is an upper bound of what the call itself removed, and a
report is no snapshot.

### Bounds

`MaxNow`, `MaxOrder`, `MaxGeneration`, `MaxAccess`, `MaxInsertTicks`,
`MaxLookupTicks`, `MaxCalls`, `MaxResets`, `MaxReports` and `MaxDeploys` are
bounds of the models. Each stands in the guard of the actions that would exceed
it; `MaxInsertTicks` says how long an insert may take, and `MaxLookupTicks` how
long a lookup may take from finding a page live in the cold cache to answering
it, which `AgeBound` needs to speak of a page's age: the code limits neither, a
thread may be preempted there. The promotion itself reads the clock anew, so
each tick it is late is a tick the page lives longer.

A call of `V8Pool` begins only when its deadline lies within `MaxNow`. In
`MCService`, `Disks`, `Builders`, `Literals` and `Strings` list what the
application may pass, and serving begins when the calls of the start are over;
`VIEW Essence` takes together states that differ only in those calls' leftovers,
which no later step or property reads. In `MCSsrCache` `VIEW Essence` replaces
times by ages, up to the age where nothing changes any more, and generations by
whether a hot cache is of the current one; what a stale one holds is left out,
as it is emptied before it is searched. So its `MaxNow` and `MaxGeneration` of
99 exceed the depth of the state graph, 38, and bound nothing. Deadlock is not
checked: with its clock and counters used up a model stops, as does a program
nobody calls.

### Fairness

`ColdCache!FairSpec` has weak fairness on the steps of a call in progress: a
running thread keeps running; under it every call returns (`CallsEnd`), so an
eviction lowers its flag and no removal waits on its own reader. None is
assumed on the start of calls. A removal
that waits for readers is served because the bound on accesses leaves a gap
between readers; the code relies on `DashMap`'s lock for it. `V8Pool!FairSpec` has
weak fairness on each thread's own steps and each polled future's attempts, on
the clock, and on "some worker gets the free mutex", as the standard mutex
promises no more. That a render ends is an assumption about the bundle; the code
sets no limit on it, nor on the wait for an answer. `SentIsAnswered` therefore
excepts a pool whose workers are all gone: such a call waits for ever.
`Service!FairSpec` has weak fairness on the steps of the request, on the start of
workers and on a worker that can render, which ends in a result or a panic; none on
giving up. `RequestsEnd` excepts (`Workless`) a host that has no worker left: made by
`SsrEngine::new` from a pool size of 0, from a bundle that does not load, or one all
of whose workers have panicked. A request whose own worker panics is answered, and
the requests after it are as long as another worker runs.

## 4. What is proved

Every invariant, action property and refinement that a run checks is a theorem
for all values of the constants, among them the real sizes (8 slots, 128 mapped
entries, any number of threads, workers, calls and keys). The liveness properties
are not. Each module's named assumption says what its constants must satisfy;
TLC evaluates it in every run.

Types come first in every module; they are inductive, with at most a line for the
arguments of a call in progress (`Locals`, `CallOK`). The rest goes as follows.

### `HotCacheProofs`, under `HotConstants`

Positive sizes, a TTL in `Nat`, `None` distinct from entries and pages.

| Theorem | Property | Inductive invariant |
|---|---|---|
| `EvictionReachesAll` | `OrderCoversMap` | itself: each operation that takes a key off the queue takes it out of the map too, even when the queue mentions it again |
| `OverwritesOldest`, `SpillsOldest` | `RingInOrder`, `SpilledIsOlder` | `Aged`: going round from the pointer the slots grow younger and, once one is filled, stay filled (`Ring`); what is in the map is older than any slot (`Spilled`); nothing is from the future (`Dated`). Each of the three needs the other two in `HotInsert` |
| `CapacityHolds`, `OldestIsEvicted` | `CleanCapacity`, `CleanEvictsOldest` | `clean => Tidy`: the queue lists each key of the map once (`Listed`), by age (`InOrder`); no key is in two slots or in a slot and the map (`KeysApart`); the map fits (`Fits`). `clean` is needed: `MCHotCacheCapacity` shows what happens without it |

`HotCacheLemmas` follows the code: the head off the queue, appending, dropping the
first occurrence of a key, `MakeRoom`, `InsertToHotMap`, `HotInsert`, promotion,
`AfterGet`. `SsrCacheProofs` uses it too.

### `ColdCacheProofs`, under `ColdConstants`

Finitely many threads and keys; any `max_entries`, batch and TTL. Each invariant
rests on those above it.

| Theorem | Property | Inductive invariant |
|---|---|---|
| `OneEvictorAtATime` | `SingleEvictor` | `EvictorAlone`: the flag is up exactly while one thread is between its compare-exchange and the store that lowers the flag |
| `StampsNeverTie` | `StampsUnique` | `StampsApart`: counts in entries and in the hands of calls (`Holding`) are below the counter and all different, also between `fetch_add` and the store |
| `NeverReportsLess` | `ReportsNoLess` | `ReportCovers`: what a call has removed itself and what is left of its victims are together no more than it reports |
| `EvictsOldestSeen` | `HeapIsOldestSeen` | `Scanned`: what a scan has met it will not visit again, and met at counts handed out before. With `StampsApart` the heap is the set of the oldest it saw: lemmas on `OldestOf`, from the well-foundedness of `Nat` |
| `GrowthBounded` | `BoundedOvershoot` | `RoomForAll`: entries and inserts past their length check (`Pending`) are within `max_entries` plus the lost exchanges and one for each other thread, and if that limit is reached the eviction under way will remove an entry (`Fruitful`), whatever the others do, so that its thread can become pending in turn |

### `SsrCacheProofs`, under `SsrConstants`

| Theorem | Property | Inductive invariant |
|---|---|---|
| `PurgedStaysUnreachable` | `PurgedUnreachable` | `PurgeInv`, below |
| `AnswersTheUrl` | `AnswersOwnUrl` | `HotOwned` with `PurgeInv`: entries of hot caches are filed under the URL of their page |
| `TwoLivesAtMost` | `AgeBound` | `Dated`: a page being inserted is at most `MaxInsertTicks` old (`InsertsInTime`), so is one in the cold cache at its insert (`ColdDated`); a page a lookup has found was live then (`FoundDated`) and is promoted within `MaxLookupTicks` (`LookupsInTime`); so an entry of a hot cache starts at most a TTL and both times after the insert began (`HotDated`) |
| `PagesLiveOnce` | `ImplementsPageCache` | `PurgeInv` and `HotOwned`. One lemma for each kind of step: most only lose pages (`LosesAtMost`), the start of an insert offers one, a put or fill stores one, a bump purges |

`PurgedUnreachable` is not inductive. `PurgeInv` adds to it

- `CarriedOnce`: a page being inserted belongs to one call and is not done;
- `RevokesDone`: only done pages are doomed or purged, so a fill after a bump
  carries no purged page;
- `ColdSound`: the cold cache files pages under their own URL and holds no purged
  one;
- `DoomedListed`: a doomed page still in the cold cache is on the revoking thread's
  list of what it has yet to remove, so none is left at the bump;
- `FoundSound`: a page a lookup is about to promote is of the URL it looks up, and
  not purged unless the hot cache it goes to is of an older generation;
- `HotSound`: a hot cache of the current generation holds no purged page, and the
  bump makes every hot cache stale at once.

### `CacheMetricsProofs`, under `MetricsConstants`

Finitely many threads, any numbers of calls, resets and reports.

| Theorem | Property | Inductive invariant |
|---|---|---|
| `HitsAndMissesAddUp`, `ColdHitsArePromoted` | `DriftBounded`, `PromotionsFollow` | with `ResetBounds`: for each reset under way, what the counters it has come past hold again (`Since`) was counted by lookups it tore, each once as a lookup and once as an end or as still under way. So it holds of the whole when the reset is through |
| `ReportsAddUp` | `ReportSkew` | before any reset, `ReportFits`: a report whose missing counters were loaded now would be off (`Skew`) by no more than the lookups it met; those still looked up when the lookups were loaded are made up for by the ends loaded later |

### `V8PoolProofs`, under `PoolConstants`

Finitely many workers; any calls, capacities (0 included) and timeout, or none.

| Theorem | Property | Inductive invariant |
|---|---|---|
| `SentStays`, `TimeoutsAreFinal` | `SentIsSomewhere`, `TimeoutNeverRuns` | `IInv`: a worker has a request only while it receives or renders (`Jobs`); no request is in two of channel, workers and answers (`OnePlace`); one not sent is nowhere and never ran, one awaited is somewhere (`Accounted`) |
| `ServesAsPromised` | `ImplementsRenderService` | `IInv`. `Stage` is rewritten by `StageOf`; a step of one request keeps the stage of every other |

### `SsrEngineProofs`, under `EngineConstants`

`None` is no call, URL or error; an error is no page.

| Theorem | Property | Inductive invariant |
|---|---|---|
| `CachesOnlyAnswers` | `OnlyAnswersCached` | `CachedAfterInsert`: the stage of a page follows that of the call that rendered it |
| `StaleOnlyFromFlight` | `StaleOnlyInFlight` | `Revoked`: for each invalidation on record, the last of a URL, the one a call knew at its beginning, and the one under way, every page of that URL is as new as the invalidation, was in flight when it began, or is `Dead`: gone, or of a call that ended without an insert. `VersionsPast`: no record is of content still to come. A call is answered no dead page, which is the property |

The theorem holds over `PageCache`, so over any cache that implements it;
`SsrCacheProofs!PagesLiveOnce` says that `SsrCache` does.

### `ServiceProofs`, under `StartupConstants` and `ServiceConstants`

Paths given are paths, `None` is no text, error or call; a URL is a sequence of
strings, a stack has each layer at most once.

| Theorem | Property | Argument |
|---|---|---|
| `WorkersShareBundle`, `EnginesAreLoaded` | `OneBundle`, `EnginesFindBundle` | `IInv`: a running worker runs what the cell holds (`RunsCell`), an engine's call that spawns or has spawned saw it full (`SpawnsLoaded`), a call about to fill it has a text (`Prepared`), one that has not begun has no workers (`Fresh`). No step replaces a full cell |
| `OnlyOverlapsFail` | `SequentialInitsAgree` | `RInv`: calls in progress at once are in `raced` (`Overlap`); a call about to read or fill that finds the cell full, having checked it empty, is too (`LateIsRaced`); errors are of calls that failed (`ErrorsLast`) |
| `EscapeRoundTrip` | - | a URL of any length, escaped into the script, reads back as itself, and fails to read exactly if it has a line terminator: from `ReadToken` on each escaped token, by induction on the length |
| `PagesFitUrl`, `CodingIsDeclared` | `RepliesFitUrl`, `BodyAsDeclared` | `SInv`: `IInv`, types, the host's text loads (`Loaded`, `Hosting`), a request comes past each layer once on its way in and out (`Travelling`), the cache has pages of their URL (`CacheOwn`), a response fits the request and says its coding at every depth (`Replying`). `EscapeRoundTrip` gives that a rendered page is of the URL asked for |
| `ServesAsStarted` | - | `Spec => StartSpec`: serving changes nothing of the start but by `StartWorker` and `CrashWorker` (`StepsStart`, under `SInv`, as a crash is of a worker of the host) |
| `ServesOneBundle` | `OneBundle`, `EnginesFindBundle`, `SequentialInitsAgree` | the three theorems of the start hold while the process serves |

The attempt to prove `EscapeRoundTrip` showed that the cases of `ReadToken` once
overlapped; TLA+ leaves the choice open, TLC took the first. They are disjoint now.

### Only model-checked

`CallsEnd`, `SentIsAnswered`, `SendingEnds`, `ShutdownCompletes` and `RequestsEnd`:
liveness under fairness needs ENABLED, which TLAPS does not reason about. The five
refutations are counterexamples, which TLC gives. What the proofs need of
induction over data, on the length of a URL and on finite sets, they take from
the well-foundedness of `Nat` and from the library's theorems on finite sets; the
library's induction rules take an operator as parameter, which the installed
provers cannot instantiate.

## 5. Not modelled, and the plan

Not modelled: JavaScript execution (V8's; a bundle is one of seven kinds of
script), logging, core pinning, prefetching, the stub pools for tests, the load
generator, benchmarks and scripts; hash collisions; keys that share a shard;
integer overflow of 64-bit counters, which no run of the program reaches; the
truncation of a TTL below a second to none (engine.rs:66), a single expression;
headers of a response that brotli_compress hands on unchanged.

Order of work from here:

1. `SsrEngine`: renders of one URL with different data, which the cache does not
   tell apart; two invalidations at once.
2. Proofs that join modules: `SsrEngine` over `SsrCache` and `V8Pool` themselves
   rather than over their promises; the hot cache of `SsrCache` as an
   implementation of `HotCache`; what `SsrCache` leaves open of an eviction as what
   `ColdCache` does.
