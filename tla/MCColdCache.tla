---------------------------- MODULE MCColdCache -----------------------------
(* Small instance of ColdCache.                                           *)
EXTENDS ColdCache

OnePrefix == {{CHOOSE k \in Key : TRUE}}
=============================================================================
