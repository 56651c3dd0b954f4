----------------------------- MODULE PageCache ------------------------------
(***************************************************************************)
(* What SsrCache promises its callers, without caches, threads or clocks:  *)
(* every page lives once.  It is offered by an insert call, stored when    *)
(* the call returns, and may be lost at any time after (evicted,           *)
(* overwritten, expired, invalidated).  A page that is gone never comes    *)
(* back, and a purge makes a set of returned pages gone for good.          *)
(***************************************************************************)
CONSTANT Html

VARIABLES
    life,      \* the stage each page is in
    purged     \* pages a revocation has taken away

Stages == {"new", "offered", "stored", "gone"}
In(stage) == {p \in Html : life[p] = stage}

Init == life = [p \in Html |-> "new"] /\ purged = {}

\* The pages of P move to a stage and those of Lost are gone.
Move(P, stage, Lost) ==
    life' = [p \in Html |-> IF p \in Lost THEN "gone"
                            ELSE IF p \in P THEN stage ELSE life[p]]

Offer(p) == life[p] = "new" /\ Move({p}, "offered", {}) /\ UNCHANGED purged

Store(p, Lost) ==
    /\ life[p] = "offered" /\ Lost \subseteq In("stored")
    /\ Move({p}, "stored", Lost)
    /\ UNCHANGED purged

Lose(Lost) ==
    /\ Lost \subseteq In("stored")
    /\ Move({}, "gone", Lost)
    /\ UNCHANGED purged

Purge(P, Lost) ==
    /\ P \subseteq In("stored") \cup In("gone")
    /\ Lost \subseteq In("stored")
    /\ Move({}, "gone", P \cup Lost)
    /\ purged' = purged \cup P

Next ==
    \/ \E p \in Html : Offer(p)
    \/ \E p \in Html, Lost \in SUBSET Html : Store(p, Lost)
    \/ \E Lost \in SUBSET Html : Lose(Lost)
    \/ \E P, Lost \in SUBSET Html : Purge(P, Lost)

Spec == Init /\ [][Next]_<<life, purged>>
=============================================================================
