---------------------------- MODULE CacheMetrics ----------------------------
(***************************************************************************)
(* The counters of SsrCache (src/cache/ssr.rs): each is one relaxed atomic.*)
(* Lookups and inserts count as they go, clear() stores zeros one counter  *)
(* after the other, and metrics() loads them one after the other, so a     *)
(* report is no snapshot and a reset is no single moment.                  *)
(*                                                                         *)
(* What a lookup finds is left open; SsrCache.tla has the caches.  The     *)
(* time of the last access, and the sizes a report adds to the counters,   *)
(* are left out.                                                           *)
(***************************************************************************)
EXTENDS Integers, FiniteSets, Sequences

CONSTANTS
    Thread,
    MaxCalls,     \* bound: lookups and inserts in a behaviour
    MaxResets,    \* bound: calls of clear() in a behaviour
    MaxReports    \* bound: calls of metrics() in a behaviour

ASSUME MetricsConstants ==
    IsFiniteSet(Thread) /\ {MaxCalls, MaxResets, MaxReports} \subseteq Nat

VARIABLES
    metrics,      \* CacheMetricsInner
    pc,           \* where each thread is in the call it makes
    next,         \* the counter its reset or report comes to
    report,       \* what its metrics() has loaded
    begun,        \* number of lookups and inserts, resets and reports so far
    torn,         \* history: lookups that overlapped the last resets
    met           \* history: lookups that overlapped a thread's report

local == <<pc, next, report>>
vars == <<metrics, local, begun, torn, met>>

\* The order in which reset_metrics stores and metrics loads.
Order == <<"lookups", "hot_hits", "cold_hits", "misses", "promotions",
           "insertions", "evictions">>
Counters == {Order[i] : i \in DOMAIN Order}
Zeros == [c \in Counters |-> 0]

Steps == {"idle", "looking", "promoting", "evicting", "resetting", "reporting"}
At(S) == {t \in Thread : pc[t] \in S}
Looking   == At({"looking", "promoting"})
Resetting == At({"resetting"})

Init ==
    /\ metrics = Zeros
    /\ pc = [t \in Thread |-> "idle"] /\ next = [t \in Thread |-> 1]
    /\ report = [t \in Thread |-> Zeros]
    /\ begun = [calls |-> 0, resets |-> 0, reports |-> 0] /\ torn = 0
    /\ met = [t \in Thread |-> 0]

Goto(t, step) == pc' = [pc EXCEPT ![t] = step]
FetchAdd(c)   == metrics' = [metrics EXCEPT ![c] = @ + 1]

-----------------------------------------------------------------------------
\* try_get
LookupBegin(t) ==
    /\ pc[t] = "idle" /\ begun.calls < MaxCalls
    /\ FetchAdd("lookups")
    /\ Goto(t, "looking")
    /\ begun' = [begun EXCEPT !.calls = @ + 1]
    /\ torn' = torn + Cardinality(Resetting)
    /\ met' = [u \in Thread |-> IF pc[u] = "reporting" THEN met[u] + 1 ELSE met[u]]
    /\ UNCHANGED <<next, report>>

\* Variant of HotHit: the lookup goes on to count a miss.
HotHit_Missed(t) ==
    /\ pc[t] = "looking"
    /\ metrics' = [metrics EXCEPT !["hot_hits"] = @ + 1, !["misses"] = @ + 1]
    /\ Goto(t, "idle")
    /\ UNCHANGED <<next, report, begun, torn, met>>

HotHit(t) ==
    /\ pc[t] = "looking"
    /\ FetchAdd("hot_hits")
    /\ Goto(t, "idle")
    /\ UNCHANGED <<next, report, begun, torn, met>>

ColdHit(t) ==
    /\ pc[t] = "looking"
    /\ FetchAdd("cold_hits")
    /\ Goto(t, "promoting")
    /\ UNCHANGED <<next, report, begun, torn, met>>

\* Variant of Promoted: returns before it counts.
Promoted_Uncounted(t) ==
    /\ pc[t] = "promoting"
    /\ Goto(t, "idle")
    /\ UNCHANGED <<metrics, next, report, begun, torn, met>>

Promoted(t) ==
    /\ pc[t] = "promoting"
    /\ FetchAdd("promotions")
    /\ Goto(t, "idle")
    /\ UNCHANGED <<next, report, begun, torn, met>>

Miss(t) ==
    /\ pc[t] = "looking"
    /\ FetchAdd("misses")
    /\ Goto(t, "idle")
    /\ UNCHANGED <<next, report, begun, torn, met>>

\* insert; it adds what it evicted, counted as one here, only if it evicted.
InsertDone(t, evicted) ==
    /\ pc[t] = "idle" /\ begun.calls < MaxCalls
    /\ FetchAdd("insertions")
    /\ Goto(t, IF evicted THEN "evicting" ELSE "idle")
    /\ begun' = [begun EXCEPT !.calls = @ + 1]
    /\ UNCHANGED <<next, report, torn, met>>

Evicted(t) ==
    /\ pc[t] = "evicting"
    /\ FetchAdd("evictions")
    /\ Goto(t, "idle")
    /\ UNCHANGED <<next, report, begun, torn, met>>

-----------------------------------------------------------------------------
\* clear, once the caches are empty.
ResetBegin(t) ==
    /\ pc[t] = "idle" /\ begun.resets < MaxResets
    /\ Goto(t, "resetting")
    /\ next' = [next EXCEPT ![t] = 1]
    /\ begun' = [begun EXCEPT !.resets = @ + 1]
    /\ torn' = (IF Resetting = {} THEN 0 ELSE torn) + Cardinality(Looking)
    /\ UNCHANGED <<metrics, report, met>>

\* Variant of Advance: one counter too many.
Advance_Past(t) ==
    IF next[t] > Len(Order) THEN Goto(t, "idle") /\ UNCHANGED next
    ELSE next' = [next EXCEPT ![t] = @ + 1] /\ UNCHANGED pc

\* A loop step of a reset or a report: the thread is done after the last.
Advance(t) ==
    IF next[t] = Len(Order) THEN Goto(t, "idle") /\ UNCHANGED next
    ELSE next' = [next EXCEPT ![t] = @ + 1] /\ UNCHANGED pc

\* Variant of ResetStore: the misses keep their count.
ResetStore_Misses(t) ==
    /\ pc[t] = "resetting"
    /\ metrics' = [metrics EXCEPT ![Order[next[t]]] = IF Order[next[t]] = "misses" THEN @ ELSE 0]
    /\ Advance(t)
    /\ UNCHANGED <<report, begun, torn, met>>

ResetStore(t) ==
    /\ pc[t] = "resetting"
    /\ metrics' = [metrics EXCEPT ![Order[next[t]]] = 0]
    /\ Advance(t)
    /\ UNCHANGED <<report, begun, torn, met>>

\* metrics()
ReportBegin(t) ==
    /\ pc[t] = "idle" /\ begun.reports < MaxReports
    /\ Goto(t, "reporting")
    /\ next' = [next EXCEPT ![t] = 1]
    /\ report' = [report EXCEPT ![t] = Zeros]
    /\ met' = [met EXCEPT ![t] = Cardinality(Looking)]
    /\ begun' = [begun EXCEPT !.reports = @ + 1]
    /\ UNCHANGED <<metrics, torn>>

ReportLoad(t) ==
    /\ pc[t] = "reporting"
    /\ report' = [report EXCEPT ![t][Order[next[t]]] = metrics[Order[next[t]]]]
    /\ Advance(t)
    /\ UNCHANGED <<metrics, begun, torn, met>>

Hits(r) == r["hot_hits"] + r["cold_hits"]

\* hit_rate of a report, in whole percent.
HitRate(r) == IF r["lookups"] > 0 THEN (Hits(r) * 100) \div r["lookups"] ELSE 0

-----------------------------------------------------------------------------
Next == \E t \in Thread :
    \/ LookupBegin(t) \/ HotHit(t) \/ ColdHit(t) \/ Promoted(t) \/ Miss(t)
    \/ \E evicted \in BOOLEAN : InsertDone(t, evicted)
    \/ Evicted(t)
    \/ ResetBegin(t) \/ ResetStore(t)
    \/ ReportBegin(t) \/ ReportLoad(t)

Spec == Init /\ [][Next]_vars

-----------------------------------------------------------------------------
TypeOK ==
    /\ metrics \in [Counters -> Nat]
    /\ pc \in [Thread -> Steps] /\ next \in [Thread -> DOMAIN Order]
    /\ report \in [Thread -> [Counters -> Nat]]
    /\ begun \in [calls : Nat, resets : Nat, reports : Nat] /\ torn \in Nat
    /\ met \in [Thread -> Nat]

Drift(r) == r["lookups"] - (Hits(r) + r["misses"])
Within(n, bound) == -bound <= n /\ n <= bound

\* Every lookup ends as a hit or a miss, and each is counted once, however the
\* threads interleave.  Between resets the sums are off by no more than the
\* lookups that overlapped the last reset, for good, since nothing corrects
\* them before the next one (ssr.rs:114-146, 230-241).
DriftBounded ==
    Resetting = {} => Within(Drift(metrics) - Cardinality(At({"looking"})), torn)

\* The same for promotions, which a cold hit counts with a second step
\* (ssr.rs:131-137).
PromotionsFollow ==
    Resetting = {} =>
        Within(metrics["cold_hits"] - metrics["promotions"]
                 - Cardinality(At({"promoting"})), torn)

\* Without a reset a finished report is off by at most the lookups that
\* overlapped it (ssr.rs:205-228): with none its hits and misses add up to its
\* lookups and its hit rate is a percentage.
ReportSkew ==
    \A t \in Thread : pc[t] = "idle" /\ begun.resets = 0 =>
        /\ Within(Drift(report[t]), met[t])
        /\ met[t] = 0 => HitRate(report[t]) <= 100
=============================================================================
