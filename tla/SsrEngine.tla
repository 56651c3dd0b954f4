----------------------------- MODULE SsrEngine ------------------------------
(***************************************************************************)
(* SsrEngine (src/engine.rs): a call looks its URL up in the cache, on a   *)
(* miss awaits the pool, and inserts what the pool rendered.  Meanwhile    *)
(* content changes, URLs are invalidated and callers give up.              *)
(*                                                                         *)
(* The cache is what PageCache promises and SsrCache implements; of the    *)
(* pool only the outcomes of V8Pool are left.  A call renders at most one  *)
(* page, so a page is named by its call.  The data given to a call is only *)
(* told apart by the version of the content it was taken from.             *)
(***************************************************************************)
EXTENDS Integers, FiniteSets

CONSTANTS
    Call,         \* futures of render_with_data and render_uncached
    Url,
    None,
    MaxVersion    \* bound: the content of a URL changes so many times

SsrErrors == {"Timeout", "PoolFull", "JsExecution"}

ASSUME EngineConstants ==
    /\ (Call \cup Url \cup SsrErrors) \cap {None} = {}
    /\ Call \cap SsrErrors = {}
    /\ MaxVersion \in Nat

VARIABLES
    life, purged,   \* the cache: the stage of each page, the pages revoked
    content,        \* version of what each URL should show
    step,           \* where each call is
    url,            \* its URL
    asked,          \* the version its data was taken from
    reply,          \* the page or error it returned
    revoking,       \* the invalidation under way: its URLs, the pages it takes
                    \* away, and for each URL what Revocation records
    revoked,        \* history: for each URL, the last invalidation that took
                    \* effect and returned
    known           \* history: that record when the call began

Cache == INSTANCE PageCache WITH Html <- Call

cache == <<life, purged>>
calls == <<step, url, asked, reply, known>>
vars == <<cache, content, calls, revoking, revoked>>

Steps == {"idle", "looking", "rendering", "uncached", "inserting", "returned",
          "cancelled"}
PoolErrors == {"Timeout", "Disconnected", "WorkerCrashed", "Render"}

\* History of an invalidation: the version of the content when it began and
\* the calls that were between their lookup and the return of their insert.
Revocation == [version : 0 .. MaxVersion, flying : SUBSET Call]
Never == [version |-> 0, flying |-> {}]

Init ==
    /\ Cache!Init
    /\ content = [u \in Url |-> 0]
    /\ step = [c \in Call |-> "idle"]
    /\ url = [c \in Call |-> None]
    /\ asked = [c \in Call |-> 0]
    /\ reply = [c \in Call |-> None]
    /\ revoking = None
    /\ revoked = [u \in Url |-> Never]
    /\ known = [c \in Call |-> Never]

PagesOf(U) == {p \in Call : url[p] \in U}
Settled    == Cache!In("stored") \cup Cache!In("gone")
Flying     == {c \in Call : step[c] \in {"looking", "rendering", "inserting"}}

Goto(c, s) ==
    /\ step' = [step EXCEPT ![c] = s]
    /\ UNCHANGED <<content, url, asked, known, revoking, revoked>>

Return(c, r) == Goto(c, "returned") /\ reply' = [reply EXCEPT ![c] = r]

-----------------------------------------------------------------------------
\* A caller takes its data and calls render_with_data ("looking") or
\* render_uncached.
Begin(c, u, first) ==
    /\ step[c] = "idle"
    /\ step' = [step EXCEPT ![c] = first]
    /\ url' = [url EXCEPT ![c] = u]
    /\ asked' = [asked EXCEPT ![c] = content[u]]
    /\ known' = [known EXCEPT ![c] = revoked[u]]
    /\ UNCHANGED <<cache, content, reply, revoking, revoked>>

\* try_get answers any page the cache holds for the URL, whatever data it was
\* rendered with, also one whose insert is still under way ...
Hit(c) ==
    /\ step[c] = "looking"
    /\ \E p \in PagesOf({url[c]}) :
        /\ p \in Cache!In("offered") \cup Cache!In("stored")
        /\ Return(c, p)
    /\ UNCHANGED cache

\* ... or finds none, which the promise of the cache always allows.
Miss(c) ==
    /\ step[c] = "looking"
    /\ Goto(c, "rendering")
    /\ UNCHANGED <<cache, reply>>

\* The pool has rendered: the insert begins ...
Rendered(c) ==
    /\ step[c] = "rendering"
    /\ Cache!Offer(c)
    /\ Goto(c, "inserting")
    /\ UNCHANGED reply

\* ... and returns; other pages may be evicted or overwritten by it.
Inserted(c) ==
    /\ step[c] = "inserting"
    /\ \E Lost \in SUBSET Call : Cache!Store(c, Lost)
    /\ Return(c, c)

RenderedUncached(c) ==
    /\ step[c] = "uncached"
    /\ Return(c, c)
    /\ UNCHANGED cache

\* Variant of MapPoolError: the other errors are handed on.
MapPoolError_Raw(e) ==
    CASE e = "Timeout"      -> "Timeout"
      [] e = "Disconnected" -> "PoolFull"
      [] OTHER              -> e

MapPoolError(e) ==
    CASE e = "Timeout"      -> "Timeout"
      [] e = "Disconnected" -> "PoolFull"
      [] OTHER              -> "JsExecution"

\* Variant of Failed: the insert comes before `?`.
Failed_Cached(c, e) ==
    /\ step[c] \in {"rendering", "uncached"}
    /\ Return(c, MapPoolError(e))
    /\ Cache!Offer(c)

\* The pool has failed: `?` returns before the insert.  V8Pool never reports
\* Disconnected.
Failed(c, e) ==
    /\ step[c] \in {"rendering", "uncached"}
    /\ Return(c, MapPoolError(e))
    /\ UNCHANGED cache

\* The caller drops the future at its only await.
Cancel(c) ==
    /\ step[c] \in {"rendering", "uncached"}
    /\ Goto(c, "cancelled")
    /\ UNCHANGED <<cache, reply>>

-----------------------------------------------------------------------------
\* External: the content of a URL changes.
Update(u) ==
    /\ content[u] < MaxVersion
    /\ content' = [content EXCEPT ![u] = @ + 1]
    /\ UNCHANGED <<cache, calls, revoking, revoked>>

\* invalidate, invalidate_prefix and clear_cache begin to revoke the pages of
\* a set of URLs; bound: one of them runs at a time.
RevokeBegin(U) ==
    /\ revoking = None
    /\ revoking' = [urls |-> U, doomed |-> PagesOf(U) \cap Settled,
                    record |-> [u \in U |-> [version |-> content[u], flying |-> Flying]]]
    /\ UNCHANGED <<cache, content, calls, revoked>>

\* Variant of RevokeEnd: only pages it meets by chance go.
RevokeEnd_Lossy ==
    /\ revoking # None
    /\ \E Lost \in SUBSET PagesOf(revoking.urls) : Cache!Lose(Lost)
    /\ revoked' = [u \in Url |-> IF u \in revoking.urls THEN revoking.record[u]
                                 ELSE revoked[u]]
    /\ revoking' = None
    /\ UNCHANGED <<content, calls>>

\* It has taken effect and returns.  Pages inserted while it ran may go too.
RevokeEnd ==
    /\ revoking # None
    /\ \E Lost \in SUBSET PagesOf(revoking.urls) : Cache!Purge(revoking.doomed, Lost)
    /\ revoked' = [u \in Url |-> IF u \in revoking.urls THEN revoking.record[u]
                                 ELSE revoked[u]]
    /\ revoking' = None
    /\ UNCHANGED <<content, calls>>

\* invalidate and invalidate_prefix revoke nothing when the cold cache holds
\* none of their URLs.
RevokeNothing ==
    /\ revoking # None
    /\ revoking' = None
    /\ UNCHANGED <<cache, content, calls, revoked>>

\* Pages expire, and evictions are not only those of a call's own insert.
Lose(Lost) ==
    /\ Lost # {}
    /\ Cache!Lose(Lost)
    /\ UNCHANGED <<content, calls, revoking, revoked>>

Next ==
    \/ \E c \in Call :
        \/ \E u \in Url, first \in {"looking", "uncached"} : Begin(c, u, first)
        \/ Hit(c) \/ Miss(c) \/ Rendered(c) \/ Inserted(c) \/ RenderedUncached(c)
        \/ \E e \in PoolErrors \ {"Disconnected"} : Failed(c, e)
        \/ Cancel(c)
    \/ \E u \in Url : Update(u)
    \/ \E U \in SUBSET Url \ {{}} : RevokeBegin(U)
    \/ RevokeEnd \/ RevokeNothing
    \/ \E Lost \in SUBSET Call : Lose(Lost)

Spec == Init /\ [][Next]_vars

-----------------------------------------------------------------------------
\* Types.  A reply is a page or one of the errors of src/error.rs.
TypeOK ==
    /\ life \in [Call -> Cache!Stages] /\ purged \subseteq Call
    /\ content \in [Url -> 0 .. MaxVersion]
    /\ step \in [Call -> Steps]
    /\ url \in [Call -> Url \cup {None}]
    /\ asked \in [Call -> 0 .. MaxVersion]
    /\ reply \in [Call -> Call \cup SsrErrors \cup {None}]
    /\ revoked \in [Url -> Revocation] /\ known \in [Call -> Revocation]

\* Only what a call rendered and is about to return, or has returned, is ever
\* in the cache: no page of a call that failed, was cancelled, was answered
\* from the cache or asked for no caching (engine.rs:114-123, 165-171).
OnlyAnswersCached ==
    \A c \in Call : life[c] # "new" => step[c] = "inserting" \/ reply[c] = c

\* `Use after content updates for a specific page`, says engine.rs:176 of
\* invalidate, and this is what it achieves: a call may be answered content
\* older than the last invalidation of its URL that took effect before the call
\* began, but only with a page whose render or insert was under way when that
\* invalidation began (engine.rs:112-123).  Every older page is gone and no
\* later render brings old content back.
Fresh(c) == reply[c] \in Call => asked[reply[c]] >= known[c].version
StaleOnlyInFlight == \A c \in Call : Fresh(c) \/ reply[c] \in known[c].flying
=============================================================================
