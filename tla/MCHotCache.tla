----------------------------- MODULE MCHotCache -----------------------------
(* Small instance of HotCache.                                             *)
EXTENDS HotCache

Symmetry == Permutations(Key)
=============================================================================
