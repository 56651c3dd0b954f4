------------------------------ MODULE MCV8Pool ------------------------------
(* Small instance of V8Pool.                                               *)
EXTENDS V8Pool
=============================================================================
