------------------------------- MODULE Config -------------------------------
(***************************************************************************)
(* SsrConfig and its builder (src/config.rs).  A builder is a function on  *)
(* the options that were set.  Durations are in seconds.  The name of a    *)
(* render function is told apart by its kind:                              *)
(*   "plain", "dotted"   identifiers, joined by dots;                      *)
(*   "malformed"         allowed characters but no such thing: 1x, a..b;   *)
(*   "empty", "foreign"  no character, or one that is not allowed.         *)
(***************************************************************************)
EXTENDS Integers, TLC

CONSTANTS
    None,
    Cpus,         \* num_cpus::get()
    DefaultPath   \* ssr-bundle.js

ASSUME ConfigConstants == Cpus \in Nat \ {0}

NameKinds == {"plain", "dotted", "malformed", "empty", "foreign"}

Default ==
    [bundle_path |-> DefaultPath, pool_size |-> Cpus, queue_capacity |-> 512,
     pin_threads |-> FALSE, cache_size |-> 300, cache_ttl |-> 300,
     request_timeout |-> 30, render_function |-> "plain"]

Builder == << >>

\* A setter; the last one wins.
Set(b, option, value) == (option :> value) @@ b

CacheTtlSecs(b, secs) == Set(b, "cache_ttl", IF secs > 0 THEN secs ELSE None)

Filled(b) == b @@ Default

\* Variant of Valid: the pool may have no worker.
Valid_NoWorkers(c) ==
    /\ c.cache_size > 0
    /\ c.queue_capacity > 0
    /\ c.render_function \notin {"empty", "foreign"}

Valid(c) ==
    /\ c.pool_size > 0
    /\ c.cache_size > 0
    /\ c.queue_capacity > 0
    /\ c.render_function \notin {"empty", "foreign"}
=============================================================================
