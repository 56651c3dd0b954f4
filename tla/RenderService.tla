--------------------------- MODULE RenderService ----------------------------
(***************************************************************************)
(* What V8Pool promises its callers, without channel, threads or clock: a  *)
(* request is either accepted, and then rendered at most once and settled  *)
(* once, or it is given up and never rendered.  A caller is told what its  *)
(* request settled to, or Timeout when it was given up.                    *)
(***************************************************************************)
CONSTANT Call

VARIABLES
    stage,      \* the stage each request is in
    result,     \* what it settled to
    told        \* what its caller was told

Results == {"html", "error", "dropped"}
Report == [html |-> "html", error |-> "Render", dropped |-> "WorkerCrashed"]

Init ==
    /\ stage = [c \in Call |-> "new"]
    /\ result = [c \in Call |-> "none"]
    /\ told = [c \in Call |-> "none"]

Step(c, from, to) == stage[c] = from /\ stage' = [stage EXCEPT ![c] = to]

Ask(c)    == Step(c, "new", "asking") /\ UNCHANGED <<result, told>>
Accept(c) == Step(c, "asking", "accepted") /\ UNCHANGED <<result, told>>
Run(c)    == Step(c, "accepted", "running") /\ UNCHANGED <<result, told>>

Settle(c, r) ==
    /\ Step(c, "running", "settled")
    /\ result' = [result EXCEPT ![c] = r]
    /\ UNCHANGED told

\* Given up before it was accepted, by the deadline or by the caller.
GiveUp(c) ==
    /\ Step(c, "asking", "given up")
    /\ told' \in {told, [told EXCEPT ![c] = "Timeout"]}
    /\ UNCHANGED result

Tell(c) ==
    /\ stage[c] = "settled" /\ told[c] = "none"
    /\ told' = [told EXCEPT ![c] = Report[result[c]]]
    /\ UNCHANGED <<stage, result>>

Next == \E c \in Call :
    \/ Ask(c) \/ Accept(c) \/ Run(c) \/ GiveUp(c) \/ Tell(c)
    \/ \E r \in Results : Settle(c, r)

Spec == Init /\ [][Next]_<<stage, result, told>>
=============================================================================
