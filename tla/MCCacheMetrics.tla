--------------------------- MODULE MCCacheMetrics ---------------------------
(* Small instance of CacheMetrics.  Threads are interchangeable.           *)
EXTENDS CacheMetrics, TLC

Symmetry == Permutations(Thread)
=============================================================================
