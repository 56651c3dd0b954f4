------------------------- MODULE CacheMetricsProofs -------------------------
(***************************************************************************)
(* For any number of threads: by how much the counters, the promotions and *)
(* a report can be off.                                                    *)
(***************************************************************************)
EXTENDS CacheMetrics, FiniteSetTheorems, TLAPS

Looked    == Cardinality(At({"looking"}))
Promoting == Cardinality(At({"promoting"}))

-----------------------------------------------------------------------------
LEMMA OrderFacts ==
  /\ Len(Order) = 7 /\ DOMAIN Order = 1 .. 7
  /\ Order[1] = "lookups" /\ Order[2] = "hot_hits" /\ Order[3] = "cold_hits"
  /\ Order[4] = "misses" /\ Order[5] = "promotions" /\ Order[6] = "insertions"
  /\ Order[7] = "evictions"
  BY DEF Order

LEMMA OrderCounters == \A i \in 1 .. 7 : Order[i] \in Counters
  BY OrderFacts DEF Counters

LEMMA CountersFacts ==
  Counters = {"lookups", "hot_hits", "cold_hits", "misses", "promotions", "insertions", "evictions"}
<1>1. \A i \in 1 .. 7 : i \in {1, 2, 3, 4, 5, 6, 7}
  OBVIOUS
<1> QED
  BY <1>1, OrderFacts DEF Counters

LEMMA AtFinite ==
  ASSUME NEW S
  PROVE  /\ IsFiniteSet(At(S)) /\ Cardinality(At(S)) \in Nat
         /\ At(S) # {} => Cardinality(At(S)) >= 1
         /\ At(S) = {} => Cardinality(At(S)) = 0
<1>1. At(S) \subseteq Thread
  BY DEF At
<1>2. IsFiniteSet(At(S))
  BY <1>1, MetricsConstants, FS_Subset
<1> QED
  BY <1>2, FS_CardinalityType, FS_EmptySet

\* A thread that goes from one step to another leaves one group and joins one.
LEMMA AtMoves ==
  ASSUME NEW S, NEW t \in Thread, NEW s, pc \in [Thread -> Steps],
         pc' = [pc EXCEPT ![t] = s]
  PROVE  Cardinality(At(S)') = Cardinality(At(S)) + (IF s \in S THEN 1 ELSE 0)
                                 - (IF pc[t] \in S THEN 1 ELSE 0)
<1>1. At(S)' = IF s \in S THEN At(S) \cup {t} ELSE At(S) \ {t}
  BY DEF At
<1>2. t \in At(S) <=> pc[t] \in S
  BY DEF At
<1>3. IsFiniteSet(At(S)) /\ Cardinality(At(S)) \in Nat
  BY AtFinite
<1>4. /\ Cardinality(At(S) \cup {t}) = IF t \in At(S) THEN Cardinality(At(S)) ELSE Cardinality(At(S)) + 1
      /\ Cardinality(At(S) \ {t}) = IF t \in At(S) THEN Cardinality(At(S)) - 1 ELSE Cardinality(At(S))
  BY <1>3, FS_AddElement, FS_RemoveElement
<1> QED
  BY <1>1, <1>2, <1>3, <1>4

LEMMA LookMoves ==
  ASSUME NEW t \in Thread, NEW s, pc \in [Thread -> Steps], pc' = [pc EXCEPT ![t] = s]
  PROVE  /\ Looked' = Looked + (IF s = "looking" THEN 1 ELSE 0)
                              - (IF pc[t] = "looking" THEN 1 ELSE 0)
         /\ Promoting' = Promoting + (IF s = "promoting" THEN 1 ELSE 0)
                                    - (IF pc[t] = "promoting" THEN 1 ELSE 0)
<1>1. Cardinality(At({"looking"})') = Cardinality(At({"looking"}))
        + (IF s \in {"looking"} THEN 1 ELSE 0) - (IF pc[t] \in {"looking"} THEN 1 ELSE 0)
  BY AtMoves
<1>2. Cardinality(At({"promoting"})') = Cardinality(At({"promoting"}))
        + (IF s \in {"promoting"} THEN 1 ELSE 0) - (IF pc[t] \in {"promoting"} THEN 1 ELSE 0)
  BY AtMoves
<1> QED
  BY <1>1, <1>2 DEF Looked, Promoting

LEMMA LookStays ==
  ASSUME NEW t \in Thread, NEW s, pc \in [Thread -> Steps],
         pc' = [pc EXCEPT ![t] = s] \/ pc' = pc,
         s \notin {"looking", "promoting"}, pc[t] \notin {"looking", "promoting"}
  PROVE  Looked' = Looked /\ Promoting' = Promoting
<1>1. At({"looking"})' = At({"looking"}) /\ At({"promoting"})' = At({"promoting"})
  BY DEF At
<1> QED
  BY <1>1 DEF Looked, Promoting

LEMMA LookingCount == Cardinality(Looking) = Looked + Promoting
<1>1. /\ Looking = At({"looking"}) \cup At({"promoting"})
      /\ At({"looking"}) \cap At({"promoting"}) = {}
  BY DEF Looking, At
<1>2. /\ IsFiniteSet(At({"looking"})) /\ IsFiniteSet(At({"promoting"}))
      /\ Looked \in Nat /\ Promoting \in Nat
  BY AtFinite DEF Looked, Promoting
<1>3. Cardinality(Looking) = Looked + Promoting - Cardinality({})
  BY <1>1, <1>2, FS_Union DEF Looked, Promoting
<1> QED
  BY <1>2, <1>3, FS_EmptySet

-----------------------------------------------------------------------------
LEMMA ReportLoadEffect ==
  ASSUME NEW t \in Thread, ReportLoad(t)
  PROVE  report' = [report EXCEPT ![t] = [report[t] EXCEPT ![Order[next[t]]] = metrics[Order[next[t]]]]]
  BY ZenonT(30) DEF ReportLoad

LEMMA AdvanceEffect ==
  ASSUME NEW t \in Thread, Advance(t)
  PROVE  \/ next[t] = 7 /\ pc' = [pc EXCEPT ![t] = "idle"] /\ next' = next
         \/ next[t] # 7 /\ pc' = pc /\ next' = [next EXCEPT ![t] = next[t] + 1]
  BY OrderFacts DEF Advance, Goto

\* The steps of a lookup and of an insert after its call has begun.
Counts(t, from, c) ==
    /\ pc[t] = from /\ metrics' = [metrics EXCEPT ![c] = @ + 1]
    /\ UNCHANGED <<next, report, begun, torn, met>>

LEMMA CountSteps ==
  ASSUME NEW t \in Thread
  PROVE  /\ HotHit(t) => Counts(t, "looking", "hot_hits") /\ Goto(t, "idle")
         /\ ColdHit(t) => Counts(t, "looking", "cold_hits") /\ Goto(t, "promoting")
         /\ Promoted(t) => Counts(t, "promoting", "promotions") /\ Goto(t, "idle")
         /\ Miss(t) => Counts(t, "looking", "misses") /\ Goto(t, "idle")
         /\ Evicted(t) => Counts(t, "evicting", "evictions") /\ Goto(t, "idle")
  BY DEF HotHit, ColdHit, Promoted, Miss, Evicted, Counts, FetchAdd

LEMMA InitTypeOK == Init => TypeOK
<1> SUFFICES ASSUME Init PROVE TypeOK
  OBVIOUS
<1>1. Zeros \in [Counters -> Nat]
  BY DEF Zeros
<1> HIDE DEF Zeros
<1> QED
  BY <1>1, OrderFacts DEF Init, TypeOK, Steps

LEMMA NextTypeOK == TypeOK /\ [Next]_vars => TypeOK'
<1> SUFFICES ASSUME TypeOK, [Next]_vars PROVE TypeOK'
  OBVIOUS
<1> USE DEF Goto, local
<1>0. /\ metrics \in [Counters -> Nat] /\ pc \in [Thread -> Steps]
      /\ next \in [Thread -> 1 .. 7] /\ DOMAIN Order = 1 .. 7
      /\ \A i \in 1 .. 7 : Order[i] \in Counters
      /\ report \in [Thread -> [Counters -> Nat]]
      /\ begun \in [calls : Nat, resets : Nat, reports : Nat] /\ torn \in Nat
      /\ met \in [Thread -> Nat]
  BY OrderFacts, OrderCounters DEF TypeOK
<1>1. /\ Cardinality(Resetting) \in Nat /\ Cardinality(Looking) \in Nat
      /\ Zeros \in [Counters -> Nat]
  BY AtFinite DEF Resetting, Looking, Zeros
<1> USE DEF Steps
<1>2. ASSUME NEW t \in Thread, LookupBegin(t) PROVE TypeOK'
  <2>1. /\ metrics' \in [Counters -> Nat] /\ torn' \in Nat /\ met' \in [Thread -> Nat]
        /\ pc' \in [Thread -> Steps] /\ begun' \in [calls : Nat, resets : Nat, reports : Nat]
    BY <1>0, <1>1, <1>2, CountersFacts DEF LookupBegin, FetchAdd
  <2> QED
    BY <1>0, <1>2, <2>1 DEF LookupBegin, TypeOK
<1>3. ASSUME NEW t \in Thread, NEW from, NEW c \in Counters, Counts(t, from, c),
             NEW s \in Steps, Goto(t, s)
      PROVE  TypeOK'
  BY <1>0, <1>3 DEF Counts, TypeOK
<1>4. ASSUME NEW t \in Thread, NEW evicted \in BOOLEAN, InsertDone(t, evicted) PROVE TypeOK'
  <2>1. /\ metrics' \in [Counters -> Nat] /\ pc' \in [Thread -> Steps]
        /\ begun' \in [calls : Nat, resets : Nat, reports : Nat]
    BY <1>0, <1>4, CountersFacts DEF InsertDone, FetchAdd
  <2> QED
    BY <1>0, <1>4, <2>1 DEF InsertDone, TypeOK
<1>5. ASSUME NEW t \in Thread, ResetBegin(t) PROVE TypeOK'
  <2>1. /\ torn' \in Nat /\ begun' \in [calls : Nat, resets : Nat, reports : Nat]
    BY <1>0, <1>1, <1>5 DEF ResetBegin
  <2> QED
    BY <1>0, <1>5, <2>1 DEF ResetBegin, TypeOK
<1>6. ASSUME NEW t \in Thread, Advance(t)
      PROVE  pc' \in [Thread -> Steps] /\ next' \in [Thread -> 1 .. 7]
  BY <1>0, <1>6, AdvanceEffect
<1>7. ASSUME NEW t \in Thread, ResetStore(t) PROVE TypeOK'
  <2>1. metrics' \in [Counters -> Nat]
    BY <1>0, <1>7 DEF ResetStore
  <2> QED
    BY <1>0, <1>6, <1>7, <2>1 DEF ResetStore, TypeOK
<1>8. ASSUME NEW t \in Thread, ReportBegin(t) PROVE TypeOK'
  <2>1. /\ report' \in [Thread -> [Counters -> Nat]] /\ met' \in [Thread -> Nat]
        /\ begun' \in [calls : Nat, resets : Nat, reports : Nat]
    BY <1>0, <1>1, <1>8 DEF ReportBegin
  <2> QED
    BY <1>0, <1>8, <2>1 DEF ReportBegin, TypeOK
<1>9. ASSUME NEW t \in Thread, ReportLoad(t) PROVE TypeOK'
  <2>1. report' \in [Thread -> [Counters -> Nat]]
    BY <1>0, <1>9, ReportLoadEffect
  <2> QED
    BY <1>0, <1>6, <1>9, <2>1 DEF ReportLoad, TypeOK
<1>10. CASE UNCHANGED vars
  BY <1>10 DEF vars, TypeOK
<1> QED
  BY <1>2, <1>3, <1>4, <1>5, <1>7, <1>8, <1>9, <1>10, CountSteps, CountersFacts DEF Next

\* Every variable keeps its type: no counter, and no count of the overlaps,
\* goes below zero (ssr.rs:36-67).
THEOREM TypeCorrect == Spec => []TypeOK
<1> QED
  BY InitTypeOK, NextTypeOK, PTL DEF Spec

-----------------------------------------------------------------------------
\* Before the first reset nothing is torn.
Quiet == begun.resets = 0 => torn = 0 /\ Resetting = {}

\* What the counters a reset r has come past hold was counted since, by lookups
\* that overlapped it: each at most once as a lookup, once as an end, or as
\* still looking, and once as promoted or still promoting.
Since(r, k, c) == IF next[r] > k THEN metrics[c] ELSE 0

Bound(r) ==
    /\ Since(r, 1, "lookups") <= torn
    /\ Looked + Since(r, 2, "hot_hits") + Since(r, 3, "cold_hits") + Since(r, 4, "misses") <= torn
    /\ Looked + Promoting + Since(r, 5, "promotions") <= torn

ResetBounds == \A r \in Resetting : Bound(r)

Drifts == DriftBounded /\ PromotionsFollow

\* The ends counted are those of lookups that were counted.
TypedCounters ==
    /\ metrics["lookups"] \in Nat /\ metrics["hot_hits"] \in Nat /\ metrics["cold_hits"] \in Nat
    /\ metrics["misses"] \in Nat /\ metrics["promotions"] \in Nat
    /\ Looked \in Nat /\ Promoting \in Nat /\ torn \in Nat
    /\ \A r \in Thread : next[r] \in 1 .. 7

LEMMA TypedCountersFacts == TypeOK => TypedCounters
<1> SUFFICES ASSUME TypeOK PROVE TypedCounters
  OBVIOUS
<1>1. Looked \in Nat /\ Promoting \in Nat
  BY AtFinite DEF Looked, Promoting
<1> QED
  BY <1>1, CountersFacts, OrderFacts DEF TypeOK, TypedCounters

LEMMA TypedCountersNext == TypeOK' => TypedCounters'
<1> QED
  BY TypedCountersFacts, PTL

\* A lookup begins: it is counted, and so is its overlap with the resets.
LEMMA LookupBeginDrift ==
  ASSUME TypeOK, TypeOK', ResetBounds, Drifts, NEW t \in Thread, LookupBegin(t)
  PROVE  ResetBounds' /\ Drifts'
<1>0. TypedCounters
  BY TypedCountersFacts
<1>1. pc \in [Thread -> Steps] /\ pc[t] = "idle" /\ pc' = [pc EXCEPT ![t] = "looking"]
  BY DEF TypeOK, LookupBegin, Goto
<1>2. Looked' = Looked + 1 /\ Promoting' = Promoting
  <2>1. /\ Looked' = Looked + (IF "looking" = "looking" THEN 1 ELSE 0)
                           - (IF pc[t] = "looking" THEN 1 ELSE 0)
        /\ Promoting' = Promoting + (IF "looking" = "promoting" THEN 1 ELSE 0)
                                 - (IF pc[t] = "promoting" THEN 1 ELSE 0)
    BY <1>1, LookMoves
  <2> QED
    BY <1>0, <1>1, <2>1 DEF TypedCounters
<1>3. Resetting' = Resetting /\ \A r \in Resetting : r \in Thread
  BY <1>1 DEF Resetting, At
<1>4. /\ metrics'["lookups"] = metrics["lookups"] + 1 /\ metrics'["hot_hits"] = metrics["hot_hits"]
      /\ metrics'["cold_hits"] = metrics["cold_hits"] /\ metrics'["misses"] = metrics["misses"]
      /\ metrics'["promotions"] = metrics["promotions"] /\ next' = next
  BY CountersFacts DEF TypeOK, LookupBegin, FetchAdd
<1>5. torn' \in Nat /\ (Resetting = {} => torn' = torn) /\ (Resetting # {} => torn' >= torn + 1)
  <2>1. Cardinality(Resetting) \in Nat /\ (Resetting # {} => Cardinality(Resetting) >= 1)
        /\ (Resetting = {} => Cardinality(Resetting) = 0)
    BY AtFinite DEF Resetting
  <2> QED
    BY <1>0, <2>1 DEF LookupBegin, TypedCounters
<1>6. ASSUME NEW r \in Resetting PROVE Bound(r)'
  <2>1. Bound(r) /\ next[r] \in 1 .. 7
    BY <1>0, <1>3 DEF ResetBounds, TypedCounters
  <2> QED
    BY <1>0, <1>2, <1>4, <1>5, <2>1 DEF Bound, Since, TypedCounters
<1>7. Drifts'
  BY <1>0, <1>1, <1>2, <1>3, <1>4, <1>5
     DEF Drifts, DriftBounded, PromotionsFollow, Within, Drift, Hits, Looked, Promoting, TypedCounters
<1> QED
  BY <1>3, <1>6, <1>7 DEF ResetBounds

\* A step that counts c and takes its thread from one step to another.
CountsAs(t, from, c, to) ==
    /\ pc[t] = from /\ pc' = [pc EXCEPT ![t] = to]
    /\ metrics' = [metrics EXCEPT ![c] = @ + 1] /\ UNCHANGED <<next, torn, report, met>>

\* The counters as one record of their values.
Totals == [l |-> metrics["lookups"], h |-> metrics["hot_hits"], k |-> metrics["cold_hits"],
           m |-> metrics["misses"], p |-> metrics["promotions"]]

LEMMA CountEffect ==
  ASSUME TypeOK, NEW t \in Thread,
         \/ CountsAs(t, "looking", "hot_hits", "idle")
         \/ CountsAs(t, "looking", "cold_hits", "promoting")
         \/ CountsAs(t, "promoting", "promotions", "idle")
         \/ CountsAs(t, "looking", "misses", "idle")
         \/ CountsAs(t, "evicting", "evictions", "idle")
         \/ \E s \in {"idle", "evicting"} : CountsAs(t, "idle", "insertions", s)
  PROVE  \/ /\ Totals' = [Totals EXCEPT !.h = @ + 1]
            /\ Looked' = Looked - 1 /\ Promoting' = Promoting
         \/ /\ Totals' = [Totals EXCEPT !.k = @ + 1]
            /\ Looked' = Looked - 1 /\ Promoting' = Promoting + 1
         \/ /\ Totals' = [Totals EXCEPT !.p = @ + 1]
            /\ Looked' = Looked /\ Promoting' = Promoting - 1
         \/ /\ Totals' = [Totals EXCEPT !.m = @ + 1]
            /\ Looked' = Looked - 1 /\ Promoting' = Promoting
         \/ Totals' = Totals /\ Looked' = Looked /\ Promoting' = Promoting
<1>0. TypedCounters /\ pc \in [Thread -> Steps] /\ metrics \in [Counters -> Nat]
  BY TypedCountersFacts DEF TypeOK
<1>1. CASE CountsAs(t, "looking", "hot_hits", "idle")
  <2>1. Totals' = [Totals EXCEPT !.h = @ + 1]
    BY <1>0, <1>1, CountersFacts DEF CountsAs, Totals
  <2>2. /\ Looked' = Looked + (IF "idle" = "looking" THEN 1 ELSE 0)
                           - (IF pc[t] = "looking" THEN 1 ELSE 0)
        /\ Promoting' = Promoting + (IF "idle" = "promoting" THEN 1 ELSE 0)
                                 - (IF pc[t] = "promoting" THEN 1 ELSE 0)
    BY <1>0, <1>1, LookMoves DEF CountsAs
  <2>3. Looked' = Looked - 1 /\ Promoting' = Promoting
    BY <1>0, <1>1, <2>2 DEF CountsAs, TypedCounters
  <2> QED
    BY <2>1, <2>3
<1>2. CASE CountsAs(t, "looking", "cold_hits", "promoting")
  <2>1. Totals' = [Totals EXCEPT !.k = @ + 1]
    BY <1>0, <1>2, CountersFacts DEF CountsAs, Totals
  <2>2. /\ Looked' = Looked + (IF "promoting" = "looking" THEN 1 ELSE 0)
                           - (IF pc[t] = "looking" THEN 1 ELSE 0)
        /\ Promoting' = Promoting + (IF "promoting" = "promoting" THEN 1 ELSE 0)
                                 - (IF pc[t] = "promoting" THEN 1 ELSE 0)
    BY <1>0, <1>2, LookMoves DEF CountsAs
  <2>3. Looked' = Looked - 1 /\ Promoting' = Promoting + 1
    BY <1>0, <1>2, <2>2 DEF CountsAs, TypedCounters
  <2> QED
    BY <2>1, <2>3
<1>3. CASE CountsAs(t, "promoting", "promotions", "idle")
  <2>1. Totals' = [Totals EXCEPT !.p = @ + 1]
    BY <1>0, <1>3, CountersFacts DEF CountsAs, Totals
  <2>2. /\ Looked' = Looked + (IF "idle" = "looking" THEN 1 ELSE 0)
                           - (IF pc[t] = "looking" THEN 1 ELSE 0)
        /\ Promoting' = Promoting + (IF "idle" = "promoting" THEN 1 ELSE 0)
                                 - (IF pc[t] = "promoting" THEN 1 ELSE 0)
    BY <1>0, <1>3, LookMoves DEF CountsAs
  <2>3. Looked' = Looked /\ Promoting' = Promoting - 1
    BY <1>0, <1>3, <2>2 DEF CountsAs, TypedCounters
  <2> QED
    BY <2>1, <2>3
<1>4. CASE CountsAs(t, "looking", "misses", "idle")
  <2>1. Totals' = [Totals EXCEPT !.m = @ + 1]
    BY <1>0, <1>4, CountersFacts DEF CountsAs, Totals
  <2>2. /\ Looked' = Looked + (IF "idle" = "looking" THEN 1 ELSE 0)
                           - (IF pc[t] = "looking" THEN 1 ELSE 0)
        /\ Promoting' = Promoting + (IF "idle" = "promoting" THEN 1 ELSE 0)
                                 - (IF pc[t] = "promoting" THEN 1 ELSE 0)
    BY <1>0, <1>4, LookMoves DEF CountsAs
  <2>3. Looked' = Looked - 1 /\ Promoting' = Promoting
    BY <1>0, <1>4, <2>2 DEF CountsAs, TypedCounters
  <2> QED
    BY <2>1, <2>3
<1>5. ASSUME NEW c \in {"insertions", "evictions"}, NEW from \in {"idle", "evicting"},
             NEW s \in {"idle", "evicting"}, CountsAs(t, from, c, s)
      PROVE  Totals' = Totals /\ Looked' = Looked /\ Promoting' = Promoting
  <2>1. Totals' = Totals
    BY <1>0, <1>5, CountersFacts DEF CountsAs, Totals
  <2>2. s \notin {"looking", "promoting"} /\ pc[t] \notin {"looking", "promoting"}
    BY <1>5 DEF CountsAs
  <2> QED
    BY <1>0, <1>5, <2>1, <2>2, LookStays DEF CountsAs
<1> QED
  BY <1>1, <1>2, <1>3, <1>4, <1>5

LEMMA CountDrift ==
  ASSUME TypeOK, TypeOK', ResetBounds, Drifts, NEW t \in Thread,
         \/ CountsAs(t, "looking", "hot_hits", "idle")
         \/ CountsAs(t, "looking", "cold_hits", "promoting")
         \/ CountsAs(t, "promoting", "promotions", "idle")
         \/ CountsAs(t, "looking", "misses", "idle")
         \/ CountsAs(t, "evicting", "evictions", "idle")
         \/ \E s \in {"idle", "evicting"} : CountsAs(t, "idle", "insertions", s)
  PROVE  ResetBounds' /\ Drifts'
<1>0. TypedCounters /\ pc \in [Thread -> Steps] /\ metrics \in [Counters -> Nat]
      /\ pc'[t] # "resetting" /\ pc[t] # "resetting"
  BY TypedCountersFacts DEF TypeOK, CountsAs
<1>1. \A r \in Thread : r # t => pc'[r] = pc[r]
  BY <1>0 DEF CountsAs
<1>2. Resetting' = Resetting /\ \A r \in Resetting : r \in Thread
  BY <1>0, <1>1 DEF Resetting, At
<1> DEFINE l == metrics["lookups"]  h == metrics["hot_hits"]  k == metrics["cold_hits"]
           m == metrics["misses"]   p == metrics["promotions"]
<1>3. /\ l' = l /\ h' >= h /\ k' >= k /\ m' >= m /\ p' >= p
      /\ Looked' + h' + k' + m' = Looked + h + k + m
      /\ k' - p' - Promoting' = k - p - Promoting
      /\ Looked' + Promoting' + p' <= Looked + Promoting + p
      /\ h' \in Nat /\ k' \in Nat /\ m' \in Nat /\ p' \in Nat /\ Looked' \in Nat /\ Promoting' \in Nat
  BY <1>0, CountEffect, TypedCountersNext DEF TypedCounters, Totals
<1>4. next' = next /\ torn' = torn
  BY DEF CountsAs
<1> HIDE DEF l, h, k, m, p
<1>5. /\ l \in Nat /\ h \in Nat /\ k \in Nat /\ m \in Nat /\ p \in Nat /\ torn \in Nat
      /\ Looked \in Nat /\ Promoting \in Nat /\ \A r \in Thread : next[r] \in 1 .. 7
  BY <1>0 DEF TypedCounters, l, h, k, m, p
<1>6. PICK a \in Nat, b \in Nat, a2 \in Nat, b2 \in Nat, h2 \in Nat, k2 \in Nat, m2 \in Nat, p2 \in Nat :
        /\ a = Looked /\ b = Promoting
        /\ a2 = Looked' /\ b2 = Promoting' /\ h2 = h' /\ k2 = k' /\ m2 = m' /\ p2 = p'
  BY <1>3, <1>5
<1>7. /\ h2 >= h /\ k2 >= k /\ m2 >= m /\ p2 >= p
      /\ a2 + h2 + k2 + m2 = a + h + k + m
      /\ k2 - p2 - b2 = k - p - b
      /\ a2 + b2 + p2 <= a + b + p
  BY <1>3, <1>6
<1>8. ASSUME NEW r \in Resetting PROVE Bound(r)'
  <2>1. /\ next[r] \in 1 .. 7
        /\ (IF next[r] > 1 THEN l ELSE 0) <= torn
        /\ a + (IF next[r] > 2 THEN h ELSE 0) + (IF next[r] > 3 THEN k ELSE 0)
             + (IF next[r] > 4 THEN m ELSE 0) <= torn
        /\ a + b + (IF next[r] > 5 THEN p ELSE 0) <= torn
    BY <1>2, <1>5, <1>6 DEF ResetBounds, Bound, Since, l, h, k, m, p
  <2>2. a2 + (IF next[r] > 2 THEN h2 ELSE 0) + (IF next[r] > 3 THEN k2 ELSE 0)
           + (IF next[r] > 4 THEN m2 ELSE 0) <= torn
    BY <1>5, <1>7, <2>1
  <2>3. a2 + b2 + (IF next[r] > 5 THEN p2 ELSE 0) <= torn
    BY <1>5, <1>7, <2>1
  <2> QED
    BY <1>3, <1>4, <1>6, <2>1, <2>2, <2>3 DEF Bound, Since, l, h, k, m, p
<1>9. Drifts'
  <2>1. Resetting = {} => /\ Within(l - (h + k + m) - a, torn)
                         /\ Within(k - p - b, torn)
    BY <1>6 DEF Drifts, DriftBounded, PromotionsFollow, Drift, Hits, Looked, Promoting, l, h, k, m, p
  <2>2. Resetting = {} => /\ Within(l - (h2 + k2 + m2) - a2, torn)
                         /\ Within(k2 - p2 - b2, torn)
    BY <1>5, <1>7, <2>1 DEF Within
  <2> QED
    BY <1>2, <1>3, <1>4, <1>6, <2>2
       DEF Drifts, DriftBounded, PromotionsFollow, Drift, Hits, Looked, Promoting, l, h, k, m, p
<1> QED
  BY <1>2, <1>8, <1>9 DEF ResetBounds

\* A reset begins: what is being looked up overlaps it.
LEMMA ResetBeginDrift ==
  ASSUME TypeOK, TypeOK', ResetBounds, Drifts, NEW t \in Thread, ResetBegin(t)
  PROVE  ResetBounds' /\ Drifts'
<1>0. /\ TypedCounters /\ pc \in [Thread -> Steps] /\ next \in [Thread -> 1 .. 7]
      /\ pc[t] = "idle" /\ pc' = [pc EXCEPT ![t] = "resetting"]
      /\ next' = [next EXCEPT ![t] = 1] /\ metrics' = metrics
  BY TypedCountersFacts, OrderFacts DEF TypeOK, ResetBegin, Goto
<1>1. Looked' = Looked /\ Promoting' = Promoting
  <2>1. pc[t] \notin {"looking", "promoting"} /\ "resetting" \notin {"looking", "promoting"}
    BY <1>0
  <2> QED
    BY <1>0, <2>1, LookStays
<1>2. Resetting' = Resetting \cup {t} /\ t \notin Resetting /\ Resetting \subseteq Thread
  BY <1>0 DEF Resetting, At
<1>3. /\ torn' \in Nat /\ torn' >= Looked /\ torn' >= Looked + Promoting
      /\ Resetting # {} => torn' >= torn
  BY <1>0, LookingCount DEF ResetBegin, TypedCounters
<1>4. Bound(t)'
  BY <1>0, <1>1, <1>3 DEF Bound, Since, TypedCounters
<1>5. ASSUME NEW r \in Resetting PROVE Bound(r)'
  <2>1. Bound(r) /\ next'[r] = next[r] /\ next[r] \in 1 .. 7
    BY <1>0, <1>2 DEF ResetBounds
  <2> QED
    BY <1>0, <1>1, <1>3, <2>1 DEF Bound, Since, TypedCounters
<1>6. Drifts'
  BY <1>2 DEF Drifts, DriftBounded, PromotionsFollow
<1> QED
  BY <1>2, <1>4, <1>5, <1>6 DEF ResetBounds

\* A reset stores a zero: that counter is right again, and when it was the last
\* every counter is.
LEMMA ResetStoreDrift ==
  ASSUME TypeOK, TypeOK', ResetBounds, Drifts, NEW t \in Thread, ResetStore(t)
  PROVE  ResetBounds' /\ Drifts'
<1>0. /\ TypedCounters /\ pc \in [Thread -> Steps] /\ next \in [Thread -> 1 .. 7]
      /\ metrics \in [Counters -> Nat] /\ pc[t] = "resetting" /\ torn' = torn
      /\ metrics' = [metrics EXCEPT ![Order[next[t]]] = 0]
  BY TypedCountersFacts, OrderFacts DEF TypeOK, ResetStore
<1>1. \/ next[t] = 7 /\ pc' = [pc EXCEPT ![t] = "idle"] /\ next' = next
      \/ next[t] # 7 /\ pc' = pc /\ next' = [next EXCEPT ![t] = next[t] + 1]
  BY AdvanceEffect DEF ResetStore
<1>2. Looked' = Looked /\ Promoting' = Promoting
  BY <1>0, <1>1, LookStays
<1>3. /\ t \in Resetting /\ Resetting' \subseteq Resetting /\ Resetting \subseteq Thread
      /\ Resetting' = {} => Resetting = {t} /\ next[t] = 7
      /\ t \in Resetting' => next'[t] = next[t] + 1
  BY <1>0, <1>1 DEF Resetting, At
<1>4. /\ metrics'["lookups"] = IF next[t] = 1 THEN 0 ELSE metrics["lookups"]
      /\ metrics'["hot_hits"] = IF next[t] = 2 THEN 0 ELSE metrics["hot_hits"]
      /\ metrics'["cold_hits"] = IF next[t] = 3 THEN 0 ELSE metrics["cold_hits"]
      /\ metrics'["misses"] = IF next[t] = 4 THEN 0 ELSE metrics["misses"]
      /\ metrics'["promotions"] = IF next[t] = 5 THEN 0 ELSE metrics["promotions"]
  <2>1. next[t] \in {1, 2, 3, 4, 5, 6, 7}
    BY <1>0
  <2> QED
    BY <1>0, <2>1, OrderFacts, CountersFacts
<1>5. ASSUME NEW r \in Resetting' PROVE Bound(r)'
  <2>1. Bound(r) /\ next[r] \in 1 .. 7 /\ next[t] \in 1 .. 7
    BY <1>0, <1>3 DEF ResetBounds
  <2>2. CASE r = t
    <3>1. /\ Since(t, 1, "lookups")' = Since(t, 1, "lookups")
          /\ Since(t, 2, "hot_hits")' = Since(t, 2, "hot_hits")
          /\ Since(t, 3, "cold_hits")' = Since(t, 3, "cold_hits")
          /\ Since(t, 4, "misses")' = Since(t, 4, "misses")
          /\ Since(t, 5, "promotions")' = Since(t, 5, "promotions")
      BY <1>0, <1>3, <1>4, <2>1, <2>2 DEF Since, TypedCounters
    <3> QED
      BY <1>0, <1>2, <2>1, <2>2, <3>1 DEF Bound
  <2>3. CASE r # t
    <3>1. next'[r] = next[r]
      BY <1>0, <1>1, <1>3, <2>3
    <3>2. /\ Since(r, 1, "lookups")' = Since(r, 1, "lookups") \/ Since(r, 1, "lookups")' = 0
          /\ Since(r, 2, "hot_hits")' = Since(r, 2, "hot_hits") \/ Since(r, 2, "hot_hits")' = 0
          /\ Since(r, 3, "cold_hits")' = Since(r, 3, "cold_hits") \/ Since(r, 3, "cold_hits")' = 0
          /\ Since(r, 4, "misses")' = Since(r, 4, "misses") \/ Since(r, 4, "misses")' = 0
          /\ Since(r, 5, "promotions")' = Since(r, 5, "promotions") \/ Since(r, 5, "promotions")' = 0
      BY <1>4, <3>1 DEF Since
    <3>3. /\ Since(r, 1, "lookups") \in Nat /\ Since(r, 2, "hot_hits") \in Nat
          /\ Since(r, 3, "cold_hits") \in Nat /\ Since(r, 4, "misses") \in Nat
          /\ Since(r, 5, "promotions") \in Nat
      BY <1>0 DEF Since, TypedCounters
    <3> QED
      BY <1>0, <1>2, <2>1, <3>2, <3>3 DEF Bound, TypedCounters
  <2> QED
    BY <2>2, <2>3
<1>6. Drifts'
  <2> SUFFICES ASSUME Resetting' = {}
               PROVE  /\ Within(Drift(metrics') - Looked, torn)
                      /\ Within(metrics'["cold_hits"] - metrics'["promotions"] - Promoting, torn)
    BY <1>0, <1>2 DEF Drifts, DriftBounded, PromotionsFollow, Looked, Promoting
  <2>1. Bound(t) /\ next[t] = 7
    BY <1>3 DEF ResetBounds
  <2> QED
    BY <1>0, <1>4, <2>1 DEF Bound, Since, Within, Drift, Hits, TypedCounters
<1> QED
  BY <1>5, <1>6 DEF ResetBounds

\* Reports disturb no counter.
LEMMA ReportDrift ==
  ASSUME TypeOK, ResetBounds, Drifts,
         \/ \E t \in Thread : ReportBegin(t) \/ ReportLoad(t)
         \/ UNCHANGED vars
  PROVE  ResetBounds' /\ Drifts'
<1>1. ASSUME UNCHANGED <<metrics, torn, Looked, Promoting, Resetting>>,
             \A r \in Resetting : next'[r] = next[r]
      PROVE  ResetBounds' /\ Drifts'
  BY <1>1 DEF ResetBounds, Bound, Since, Drifts, DriftBounded, PromotionsFollow, Looked, Promoting
<1>2. ASSUME NEW t \in Thread, ReportBegin(t) \/ ReportLoad(t) PROVE ResetBounds' /\ Drifts'
  <2>1. /\ pc \in [Thread -> Steps] /\ next \in [Thread -> 1 .. 7] /\ UNCHANGED <<metrics, torn>>
        /\ pc[t] \in {"idle", "reporting"}
    BY <1>2, OrderFacts DEF TypeOK, ReportBegin, ReportLoad
  <2>2. PICK s \in {"idle", "reporting"} : pc' = [pc EXCEPT ![t] = s] \/ pc' = pc
    BY <1>2, AdvanceEffect DEF ReportBegin, ReportLoad, Goto
  <2>3. Looked' = Looked /\ Promoting' = Promoting
    BY <2>1, <2>2, LookStays
  <2>4. Resetting' = Resetting /\ t \notin Resetting /\ Resetting \subseteq Thread
    BY <2>1, <2>2 DEF Resetting, At
  <2>5. \A r \in Resetting : next'[r] = next[r]
    BY <1>2, <2>1, <2>4, AdvanceEffect DEF ReportBegin, ReportLoad
  <2> QED
    BY <1>1, <2>1, <2>3, <2>4, <2>5
<1>3. CASE UNCHANGED vars
  <2>1. UNCHANGED <<metrics, torn, next, Looked, Promoting, Resetting>>
    BY <1>3 DEF vars, local, Looked, Promoting, Resetting, At
  <2> QED
    BY <1>1, <2>1
<1> QED
  BY <1>2, <1>3

LEMMA InsertCounts ==
  ASSUME NEW t \in Thread, NEW evicted \in BOOLEAN, InsertDone(t, evicted)
  PROVE  \E s \in {"idle", "evicting"} : CountsAs(t, "idle", "insertions", s)
  BY DEF InsertDone, CountsAs, Goto, FetchAdd

\* The steps of Next, by what they do to the counters.
LEMMA StepCases ==
  ASSUME [Next]_vars
  PROVE  \/ \E t \in Thread :
              \/ LookupBegin(t) \/ ResetBegin(t) \/ ResetStore(t)
              \/ CountsAs(t, "looking", "hot_hits", "idle")
              \/ CountsAs(t, "looking", "cold_hits", "promoting")
              \/ CountsAs(t, "promoting", "promotions", "idle")
              \/ CountsAs(t, "looking", "misses", "idle")
              \/ CountsAs(t, "evicting", "evictions", "idle")
              \/ \E s \in {"idle", "evicting"} : CountsAs(t, "idle", "insertions", s)
         \/ \E t \in Thread : ReportBegin(t) \/ ReportLoad(t)
         \/ UNCHANGED vars
<1>1. ASSUME NEW t \in Thread, NEW from, NEW c, NEW s, Counts(t, from, c), Goto(t, s)
      PROVE  CountsAs(t, from, c, s)
  BY <1>1 DEF Counts, CountsAs, Goto
<1> QED
  BY <1>1, CountSteps, InsertCounts DEF Next

LEMMA NextDrift == TypeOK /\ TypeOK' /\ ResetBounds /\ Drifts /\ [Next]_vars => ResetBounds' /\ Drifts'
<1> SUFFICES ASSUME TypeOK, TypeOK', ResetBounds, Drifts, [Next]_vars
             PROVE  ResetBounds' /\ Drifts'
  OBVIOUS
<1> QED
  BY StepCases, LookupBeginDrift, ResetBeginDrift, ResetStoreDrift, CountDrift, ReportDrift

LEMMA InitDrift == Init => ResetBounds /\ Drifts
<1> SUFFICES ASSUME Init PROVE ResetBounds /\ Drifts
  OBVIOUS
<1>1. Resetting = {} /\ At({"looking"}) = {} /\ At({"promoting"}) = {}
  BY DEF Init, Resetting, At
<1>2. Cardinality(At({"looking"})) = 0 /\ Cardinality(At({"promoting"})) = 0
  BY <1>1, AtFinite
<1>3. /\ metrics["lookups"] = 0 /\ metrics["hot_hits"] = 0 /\ metrics["cold_hits"] = 0
      /\ metrics["misses"] = 0 /\ metrics["promotions"] = 0 /\ torn = 0
  BY CountersFacts DEF Init, Zeros
<1> QED
  BY <1>1, <1>2, <1>3 DEF ResetBounds, Drifts, DriftBounded, PromotionsFollow, Within, Drift, Hits

LEMMA AlwaysDrifts == Spec => [](ResetBounds /\ Drifts)
<1>1. TypeOK /\ TypeOK' /\ (ResetBounds /\ Drifts) /\ [Next]_vars => (ResetBounds /\ Drifts)'
  BY NextDrift
<1> QED
  BY <1>1, InitDrift, TypeCorrect, PTL DEF Spec

\* However many threads look up, insert and reset at once, hits and misses add
\* up to the lookups that ended, but for those that overlapped the last resets:
\* at most one each way for each of them (ssr.rs:114-146, 230-241).
THEOREM HitsAndMissesAddUp == Spec => []DriftBounded
<1>1. Drifts => DriftBounded
  BY DEF Drifts
<1> QED
  BY <1>1, AlwaysDrifts, PTL

\* Likewise a promotion is counted for every cold hit (ssr.rs:131-137).
THEOREM ColdHitsArePromoted == Spec => []PromotionsFollow
<1>1. Drifts => PromotionsFollow
  BY DEF Drifts
<1> QED
  BY <1>1, AlwaysDrifts, PTL

-----------------------------------------------------------------------------
LEMMA ResetsStep ==
  ASSUME TypeOK, [Next]_vars, begun'.resets = 0
  PROVE  begun.resets = 0 /\ ~ \E t \in Thread : ResetBegin(t)
<1>0. begun \in [calls : Nat, resets : Nat, reports : Nat]
  BY DEF TypeOK
<1>1. begun'.resets = begun.resets
      \/ (begun'.resets = begun.resets + 1 /\ \E t \in Thread : ResetBegin(t))
  BY <1>0 DEF Next, LookupBegin, HotHit, ColdHit, Promoted, Miss, InsertDone, Evicted, ResetBegin,
              ResetStore, ReportBegin, ReportLoad, vars, local
<1>2. ASSUME NEW t \in Thread, ResetBegin(t) PROVE begun'.resets = begun.resets + 1
  BY <1>0, <1>2 DEF ResetBegin
<1> QED
  BY <1>0, <1>1, <1>2

LEMMA QuietStep == TypeOK /\ Quiet /\ [Next]_vars => Quiet'
<1> SUFFICES ASSUME TypeOK, Quiet, [Next]_vars, begun'.resets = 0
             PROVE  torn' = 0 /\ Resetting' = {}
  BY DEF Quiet
<1> USE DEF local
<1>0. pc \in [Thread -> Steps] /\ begun \in [calls : Nat, resets : Nat, reports : Nat]
  BY DEF TypeOK
<1>1. begun.resets = 0 => torn = 0 /\ Resetting = {}
  BY DEF Quiet
<1>2. begun.resets = 0 /\ torn = 0 /\ Resetting = {} /\ ~ \E t \in Thread : ResetBegin(t)
  BY <1>1, ResetsStep
<1>3. \A t \in Thread : pc[t] # "resetting"
  BY <1>2 DEF Resetting, At
<1>4. Cardinality(Resetting) = 0
  BY <1>2, FS_EmptySet
<1>5. torn' = 0 /\ \A t \in Thread : pc'[t] # "resetting"
  <2>1. ASSUME NEW t \in Thread, LookupBegin(t)
        PROVE  torn' = 0 /\ \A u \in Thread : pc'[u] # "resetting"
    BY <1>0, <1>2, <1>3, <1>4, <2>1 DEF LookupBegin, Goto
  <2>2. ASSUME NEW t \in Thread, NEW from, NEW c, NEW s \in {"idle", "promoting", "evicting"},
               CountsAs(t, from, c, s)
        PROVE  torn' = 0 /\ \A u \in Thread : pc'[u] # "resetting"
    BY <1>0, <1>2, <1>3, <2>2 DEF CountsAs
  <2>3. ASSUME NEW t \in Thread, ReportBegin(t) \/ ReportLoad(t)
        PROVE  torn' = 0 /\ \A u \in Thread : pc'[u] # "resetting"
    BY <1>0, <1>2, <1>3, <2>3, AdvanceEffect DEF ReportBegin, ReportLoad, Goto
  <2>4. CASE UNCHANGED vars
    BY <1>2, <1>3, <2>4 DEF vars
  <2>5. ~ \E t \in Thread : ResetStore(t)
    BY <1>3 DEF ResetStore
  <2> QED
    BY <1>2, <2>1, <2>2, <2>3, <2>4, <2>5, StepCases
<1> QED
  BY <1>5 DEF Resetting, At

LEMMA AlwaysQuiet == Spec => []Quiet
<1>1. Init => Quiet
  BY DEF Init, Quiet, Resetting, At
<1> QED
  BY <1>1, QuietStep, TypeCorrect, PTL DEF Spec

-----------------------------------------------------------------------------
\* A counter as t's report will have it, if nothing else is counted before it
\* is loaded, and by how much that report is then off.
Seen(t, k, c) == IF next[t] > k THEN report[t][c] ELSE metrics[c]
Ends(t) == Seen(t, 2, "hot_hits") + Seen(t, 3, "cold_hits") + Seen(t, 4, "misses")
Skew(t) == report[t]["lookups"] - Ends(t)

\* Ends counted before they are loaded make up for those still looked up as the
\* lookups were loaded, and lookups that begin are not seen until they end.
ReportFits(t) ==
    /\ pc[t] = "reporting" /\ next[t] = 1 => Looked <= met[t]
    /\ pc[t] = "reporting" /\ next[t] > 1 => Skew(t) <= met[t] /\ Looked <= Skew(t) + met[t]
    /\ pc[t] # "reporting" => Within(Drift(report[t]), met[t])

Reports == begun.resets = 0 => \A t \in Thread : ReportFits(t)

TypedReports ==
    /\ TypedCounters
    /\ \A t \in Thread :
          /\ report[t]["lookups"] \in Nat /\ report[t]["hot_hits"] \in Nat
          /\ report[t]["cold_hits"] \in Nat /\ report[t]["misses"] \in Nat
          /\ met[t] \in Nat /\ Ends(t) \in Nat

LEMMA TypedReportsFacts == TypeOK => TypedReports
<1> SUFFICES ASSUME TypeOK PROVE TypedReports
  OBVIOUS
<1>1. TypedCounters
  BY TypedCountersFacts
<1>2. \A t \in Thread : /\ report[t]["lookups"] \in Nat /\ report[t]["hot_hits"] \in Nat
                        /\ report[t]["cold_hits"] \in Nat /\ report[t]["misses"] \in Nat
                        /\ met[t] \in Nat
  BY CountersFacts DEF TypeOK
<1>3. \A t \in Thread : Ends(t) \in Nat
  BY <1>1, <1>2 DEF Ends, Seen, TypedCounters
<1> QED
  BY <1>1, <1>2, <1>3 DEF TypedReports

LEMMA TypedReportsNext == TypeOK' => TypedReports'
<1> QED
  BY TypedReportsFacts, PTL

\* Without a reset the counters are exact.
LEMMA ExactCounters ==
  ASSUME TypeOK, Quiet, Drifts, begun.resets = 0
  PROVE  metrics["lookups"] - (metrics["hot_hits"] + metrics["cold_hits"] + metrics["misses"]) = Looked
<1>1. TypedCounters /\ torn = 0 /\ Resetting = {}
  BY TypedCountersFacts DEF Quiet
<1>2. Within(metrics["lookups"] - (metrics["hot_hits"] + metrics["cold_hits"] + metrics["misses"])
               - Looked, 0)
  BY <1>1 DEF Drifts, DriftBounded, Drift, Hits, Looked
<1> QED
  BY <1>1, <1>2 DEF Within, TypedCounters

LEMMA LookupBeginReports ==
  ASSUME TypeOK, TypeOK', NEW u \in Thread, LookupBegin(u), NEW t \in Thread, ReportFits(t)
  PROVE  ReportFits(t)'
<1>0. TypedReports /\ TypedCounters
  BY TypedReportsFacts DEF TypedReports
<1>1. /\ pc \in [Thread -> Steps] /\ pc[u] = "idle" /\ pc' = [pc EXCEPT ![u] = "looking"]
      /\ next' = next /\ report' = report
      /\ met'[t] = IF pc[t] = "reporting" THEN met[t] + 1 ELSE met[t]
  BY DEF TypeOK, LookupBegin, Goto
<1>2. Looked' = Looked + 1
  <2>1. Looked' = Looked + (IF "looking" = "looking" THEN 1 ELSE 0)
                           - (IF pc[u] = "looking" THEN 1 ELSE 0)
    BY <1>1, LookMoves
  <2> QED
    BY <1>0, <1>1, <2>1 DEF TypedCounters
<1>3. /\ metrics'["hot_hits"] = metrics["hot_hits"]
      /\ metrics'["cold_hits"] = metrics["cold_hits"] /\ metrics'["misses"] = metrics["misses"]
  BY CountersFacts DEF TypeOK, LookupBegin, FetchAdd
<1>4. Skew(t)' = Skew(t)
  BY <1>1, <1>3 DEF Skew, Ends, Seen
<1>5. Skew(t) \in Int /\ Looked \in Nat /\ met[t] \in Nat
  BY <1>0 DEF TypedReports, TypedCounters, Skew
<1>6. (pc'[t] = "reporting") = (pc[t] = "reporting")
  BY <1>1
<1>7. Drift(report[t])' = Drift(report[t])
  BY <1>1 DEF Drift, Hits
<1> QED
  BY <1>1, <1>2, <1>4, <1>5, <1>6, <1>7 DEF ReportFits

LEMMA CountReports ==
  ASSUME TypeOK, TypeOK', NEW u \in Thread, NEW t \in Thread, ReportFits(t),
         \/ CountsAs(u, "looking", "hot_hits", "idle")
         \/ CountsAs(u, "looking", "cold_hits", "promoting")
         \/ CountsAs(u, "promoting", "promotions", "idle")
         \/ CountsAs(u, "looking", "misses", "idle")
         \/ CountsAs(u, "evicting", "evictions", "idle")
         \/ \E s \in {"idle", "evicting"} : CountsAs(u, "idle", "insertions", s)
  PROVE  ReportFits(t)'
<1>0. TypedReports /\ TypedCounters /\ pc \in [Thread -> Steps]
  BY TypedReportsFacts DEF TypedReports, TypeOK
<1>1. /\ next' = next /\ report' = report /\ met' = met
      /\ (pc'[t] = "reporting") = (pc[t] = "reporting")
  BY <1>0 DEF CountsAs
<1>2. \/ Looked' = Looked - 1 /\ (Ends(t)' = Ends(t) \/ Ends(t)' = Ends(t) + 1)
      \/ Looked' = Looked /\ Ends(t)' = Ends(t)
  <2> DEFINE h == metrics["hot_hits"]  k == metrics["cold_hits"]  m == metrics["misses"]
  <2>1. \/ Looked' = Looked - 1 /\ h' = h + 1 /\ k' = k /\ m' = m
        \/ Looked' = Looked - 1 /\ h' = h /\ k' = k + 1 /\ m' = m
        \/ Looked' = Looked - 1 /\ h' = h /\ k' = k /\ m' = m + 1
        \/ Looked' = Looked /\ h' = h /\ k' = k /\ m' = m
    BY CountEffect DEF Totals
  <2>2. /\ h \in Nat /\ k \in Nat /\ m \in Nat /\ next[t] \in 1 .. 7
        /\ report[t]["hot_hits"] \in Nat /\ report[t]["cold_hits"] \in Nat
        /\ report[t]["misses"] \in Nat
    BY <1>0 DEF TypedReports, TypedCounters
  <2> QED
    BY <1>1, <2>1, <2>2 DEF Ends, Seen
<1>3. Skew(t) \in Int /\ Looked \in Nat /\ met[t] \in Nat /\ Ends(t) \in Nat
      /\ report[t]["lookups"] \in Nat
  BY <1>0 DEF TypedReports, TypedCounters, Skew
<1>4. \/ Looked' = Looked - 1 /\ (Skew(t)' = Skew(t) \/ Skew(t)' = Skew(t) - 1)
      \/ Looked' = Looked /\ Skew(t)' = Skew(t)
  BY <1>1, <1>2, <1>3 DEF Skew
<1>5. Drift(report[t])' = Drift(report[t])
  BY <1>1 DEF Drift, Hits
<1> QED
  BY <1>1, <1>3, <1>4, <1>5 DEF ReportFits

\* A report begins, and loads its counters.
LEMMA ReporterReports ==
  ASSUME TypeOK, TypeOK', Quiet, Drifts, begun.resets = 0,
         NEW t \in Thread, ReportFits(t), ReportBegin(t) \/ ReportLoad(t)
  PROVE  ReportFits(t)'
<1>0. /\ TypedReports /\ TypedCounters /\ pc \in [Thread -> Steps] /\ next \in [Thread -> 1 .. 7]
      /\ metrics \in [Counters -> Nat] /\ report \in [Thread -> [Counters -> Nat]]
      /\ met \in [Thread -> Nat] /\ metrics' = metrics
  BY TypedReportsFacts, OrderFacts DEF TypedReports, TypeOK, ReportBegin, ReportLoad
<1>1. Looked' = Looked
  <2>1. PICK s \in {"idle", "reporting"} : pc' = [pc EXCEPT ![t] = s] \/ pc' = pc
    BY AdvanceEffect DEF ReportBegin, ReportLoad, Goto
  <2>2. pc[t] \notin {"looking", "promoting"}
    BY DEF ReportBegin, ReportLoad
  <2> QED
    BY <1>0, <2>1, <2>2, LookStays
<1>2. CASE ReportBegin(t)
  <2>1. pc'[t] = "reporting" /\ next'[t] = 1 /\ met'[t] = Looked + Promoting
    BY <1>0, <1>2, LookingCount DEF ReportBegin, Goto
  <2> QED
    BY <1>0, <1>1, <2>1 DEF ReportFits, TypedCounters
<1>3. CASE ReportLoad(t)
  <2> DEFINE n == next[t]
             L == metrics["lookups"]  H == metrics["hot_hits"]  K == metrics["cold_hits"]  M == metrics["misses"]
             l == report[t]["lookups"]  h == report[t]["hot_hits"]  k == report[t]["cold_hits"]  m == report[t]["misses"]
  <2>1. /\ report' = [report EXCEPT ![t] = [report[t] EXCEPT ![Order[next[t]]] = metrics[Order[next[t]]]]]
        /\ pc[t] = "reporting" /\ met' = met
    BY <1>3, ReportLoadEffect DEF ReportLoad
  <2>2. /\ l' = IF n = 1 THEN L ELSE l
        /\ h' = IF n = 2 THEN H ELSE h
        /\ k' = IF n = 3 THEN K ELSE k
        /\ m' = IF n = 4 THEN M ELSE m
    <3>1. n \in {1, 2, 3, 4, 5, 6, 7}
      BY <1>0
    <3>2. report'[t] = [report[t] EXCEPT ![Order[n]] = metrics[Order[n]]]
      BY <1>0, <2>1
    <3> QED
      BY <1>0, <3>1, <3>2, OrderFacts, CountersFacts
  <2>3. \/ n = 7 /\ pc'[t] = "idle"
        \/ n < 7 /\ pc'[t] = "reporting" /\ next'[t] = n + 1
    BY <1>0, <1>3, AdvanceEffect DEF ReportLoad
  <2>4. L - (H + K + M) = Looked
    BY ExactCounters
  <2>5. /\ n \in 1 .. 7 /\ L \in Nat /\ H \in Nat /\ K \in Nat /\ M \in Nat
        /\ l \in Nat /\ h \in Nat /\ k \in Nat /\ m \in Nat /\ Looked \in Nat /\ met[t] \in Nat
    BY <1>0 DEF TypedReports, TypedCounters
  <2>6. n > 1 => /\ Skew(t) = l - ((IF n > 2 THEN h ELSE H) + (IF n > 3 THEN k ELSE K) + (IF n > 4 THEN m ELSE M))
                 /\ Skew(t) <= met[t] /\ Looked <= Skew(t) + met[t]
    BY <1>0, <2>1, <2>5 DEF ReportFits, Skew, Ends, Seen
  <2>7. n = 1 => Looked <= met[t]
    BY <2>1 DEF ReportFits
  <2>8. CASE n = 1
    <3>1. Skew(t)' = Looked /\ pc'[t] = "reporting" /\ next'[t] = 2
      BY <1>0, <2>2, <2>3, <2>4, <2>5, <2>8 DEF Skew, Ends, Seen
    <3> QED
      BY <1>1, <2>1, <2>5, <2>7, <2>8, <3>1 DEF ReportFits
  <2>9. CASE n > 1 /\ n < 7
    <3>1. Skew(t)' = Skew(t) /\ pc'[t] = "reporting" /\ next'[t] = n + 1
      <4>1. Skew(t)' = l' - ((IF n + 1 > 2 THEN h' ELSE H) + (IF n + 1 > 3 THEN k' ELSE K)
                              + (IF n + 1 > 4 THEN m' ELSE M))
        BY <1>0, <2>3, <2>9 DEF Skew, Ends, Seen
      <4> QED
        BY <2>2, <2>3, <2>5, <2>6, <2>9, <4>1
    <3> QED
      BY <1>1, <2>1, <2>5, <2>6, <2>9, <3>1 DEF ReportFits
  <2>10. CASE n = 7
    <3>1. Drift(report[t])' = Skew(t) /\ pc'[t] = "idle"
      BY <2>2, <2>3, <2>5, <2>6, <2>10 DEF Drift, Hits
    <3>2. Within(Skew(t), met[t])
      BY <2>5, <2>6, <2>10 DEF Within
    <3> QED
      BY <2>1, <3>1, <3>2 DEF ReportFits
  <2> QED
    BY <2>5, <2>8, <2>9, <2>10
<1> QED
  BY <1>2, <1>3

LEMMA NextReports ==
  TypeOK /\ TypeOK' /\ Quiet /\ Drifts /\ Reports /\ [Next]_vars => Reports'
<1> SUFFICES ASSUME TypeOK, TypeOK', Quiet, Drifts, Reports, [Next]_vars, begun'.resets = 0,
                    NEW t \in Thread
             PROVE  ReportFits(t)'
  BY DEF Reports
<1>1. begun.resets = 0 /\ ReportFits(t) /\ ~ \E u \in Thread : ResetBegin(u)
  BY ResetsStep DEF Reports
<1>2. ~ \E u \in Thread : ResetStore(u)
  BY <1>1 DEF Quiet, Resetting, At, ResetStore
<1>3. pc \in [Thread -> Steps] /\ next \in [Thread -> 1 .. 7]
      /\ report \in [Thread -> [Counters -> Nat]] /\ met \in [Thread -> Nat]
  BY OrderFacts DEF TypeOK
<1>4. ASSUME NEW u \in Thread, ReportBegin(u) \/ ReportLoad(u), u # t PROVE ReportFits(t)'
  <2>1. UNCHANGED <<metrics, pc[t], next[t], report[t], met[t]>>
    BY <1>3, <1>4, AdvanceEffect, ReportLoadEffect DEF ReportBegin, ReportLoad, Goto
  <2>2. Looked' = Looked
    <3>1. PICK s \in {"idle", "reporting"} : pc' = [pc EXCEPT ![u] = s] \/ pc' = pc
      BY <1>4, AdvanceEffect DEF ReportBegin, ReportLoad, Goto
    <3>2. pc[u] \notin {"looking", "promoting"}
      BY <1>4 DEF ReportBegin, ReportLoad
    <3> QED
      BY <1>3, <3>1, <3>2, LookStays
  <2>3. Skew(t)' = Skew(t) /\ Drift(report[t])' = Drift(report[t])
    BY <2>1 DEF Skew, Ends, Seen, Drift, Hits
  <2> QED
    BY <1>1, <2>1, <2>2, <2>3 DEF ReportFits
<1>5. CASE UNCHANGED vars
  <2>1. UNCHANGED <<metrics, pc, next, report, met, Looked>>
    BY <1>5 DEF vars, local, Looked, At
  <2>2. Skew(t)' = Skew(t) /\ Drift(report[t])' = Drift(report[t])
    BY <2>1 DEF Skew, Ends, Seen, Drift, Hits
  <2> QED
    BY <1>1, <2>1, <2>2 DEF ReportFits
<1> QED
  BY <1>1, <1>2, <1>4, <1>5, StepCases, LookupBeginReports, CountReports, ReporterReports

LEMMA AlwaysReports == Spec => []Reports
<1>1. Init => Reports
  <2> SUFFICES ASSUME Init, NEW t \in Thread PROVE ReportFits(t)
    BY DEF Reports
  <2>1. /\ pc[t] = "idle" /\ met[t] = 0
        /\ report[t]["lookups"] = 0 /\ report[t]["hot_hits"] = 0
        /\ report[t]["cold_hits"] = 0 /\ report[t]["misses"] = 0
    BY CountersFacts DEF Init, Zeros
  <2> QED
    BY <2>1 DEF ReportFits, Within, Drift, Hits
<1>2. ResetBounds /\ Drifts => Drifts
  OBVIOUS
<1> QED
  BY <1>1, <1>2, NextReports, TypeCorrect, AlwaysQuiet, AlwaysDrifts, PTL DEF Spec

LEMMA Percentage ==
  ASSUME NEW h \in Nat, NEW l \in Nat, l > 0, h <= l
  PROVE  (h * 100) \div l <= 100
  OBVIOUS

\* A report that no lookup overlapped adds up, and its hit rate is a percentage;
\* any other is off by no more than the lookups that overlapped it, although its
\* counters are loaded one after the other (ssr.rs:205-228).
THEOREM ReportsAddUp == Spec => []ReportSkew
<1>1. TypeOK /\ Reports => ReportSkew
  <2> SUFFICES ASSUME TypeOK, Reports, NEW t \in Thread, pc[t] = "idle", begun.resets = 0
               PROVE  Within(Drift(report[t]), met[t]) /\ (met[t] = 0 => HitRate(report[t]) <= 100)
    BY DEF ReportSkew
  <2>1. Within(Drift(report[t]), met[t])
    BY DEF Reports, ReportFits
  <2>2. TypedReports
    BY TypedReportsFacts
  <2>3. ASSUME met[t] = 0, report[t]["lookups"] > 0
        PROVE  Hits(report[t]) \in Nat /\ Hits(report[t]) <= report[t]["lookups"]
    BY <2>1, <2>2, <2>3 DEF TypedReports, Within, Drift, Hits
  <2>4. ASSUME met[t] = 0, report[t]["lookups"] > 0 PROVE HitRate(report[t]) <= 100
    BY <2>2, <2>3, <2>4, Percentage DEF HitRate, TypedReports
  <2>5. ~ (report[t]["lookups"] > 0) => HitRate(report[t]) <= 100
    BY DEF HitRate
  <2> QED
    BY <2>1, <2>4, <2>5
<1> QED
  BY <1>1, TypeCorrect, AlwaysReports, PTL
=============================================================================
