----------------------------- MODULE MCSsrCache -----------------------------
(* Small instances of SsrCache.                                            *)
EXTENDS SsrCache

AllPrefixes == {Key}

Symmetry == Permutations(Thread) \cup Permutations(Key) \cup Permutations(Html)

\* States that differ only in what the clock reads, in the number of the
\* generation or in what a stale hot cache still holds are taken together.  What
\* counts is how old pages and entries are, up to the age where they are too
\* old, and that a cache is stale: it is emptied before it is next searched.
\* So MaxNow and MaxGeneration may be beyond the depth of the graph.
Age(time, most) == IF now - time < most THEN now - time ELSE most
Lives     == 2 * TTL + MaxInsertTicks + MaxLookupTicks
Copy(e)   == <<e.html, Age(e.created_at, TTL + 1)>>
Copies(h) == <<[i \in Slots |-> IF h.ultra_hot[i] = None THEN None
                                ELSE <<h.ultra_hot[i].url_hash, Copy(h.ultra_hot[i])>>],
               h.ultra_hot_next, [k \in DOMAIN h.hot_map |-> Copy(h.hot_map[k])],
               h.access_order>>
Essence ==
    <<[k \in DOMAIN cold |-> Copy(cold[k])],
      [t \in Thread |-> IF hotGen[t] = generation THEN Copies(hot[t]) ELSE "stale"],
      local,
      [p \in Html |-> <<owner[p], IF owner[p] = None THEN 0 ELSE Age(born[p], Lives + 1)>>],
      [t \in Promoting |-> Age(since[t], MaxLookupTicks)],
      done, doomed, purged>>
=============================================================================
