----------------------------- MODULE MCSsrEngine ----------------------------
(* Small instance of SsrEngine.  Calls are interchangeable.                *)
EXTENDS SsrEngine, TLC

Symmetry == Permutations(Call) \cup Permutations(Url)
=============================================================================
