--------------------------- MODULE SsrEngineProofs --------------------------
(***************************************************************************)
(* For any calls, URLs and number of content changes: what may be in the   *)
(* cache, and how old an answer may be after an invalidation.              *)
(***************************************************************************)
EXTENDS SsrEngine, TLAPS

\* What TypeOK leaves out: the record of the invalidation under way.
RevokingOK ==
    \/ revoking = None
    \/ /\ revoking.urls \subseteq Url
       /\ revoking.record \in [revoking.urls -> Revocation]

\* A call that has not begun has no URL, and one that has not returned no reply.
Begun ==
    \A c \in Call :
        /\ step[c] # "idle" => url[c] \in Url
        /\ step[c] = "idle" => url[c] = None
        /\ reply[c] # None => step[c] = "returned"
        /\ reply[c] \in Call => step[reply[c]] # "idle"

\* A page is offered while its call inserts it, and stored once that returns.
CachedAfterInsert ==
    \A c \in Call :
        \/ life[c] = "new"
        \/ life[c] = "offered" /\ step[c] = "inserting"
        \/ life[c] \in {"stored", "gone"} /\ step[c] = "returned" /\ reply[c] = c

\* No invalidation is of content that is still to come.
VersionsPast ==
    /\ \A u \in Url : revoked[u].version <= content[u]
    /\ revoking # None => \A u \in revoking.urls : revoking.record[u].version <= content[u]
    /\ \A c \in Call : step[c] # "idle" =>
          asked[c] <= content[url[c]] /\ known[c].version <= asked[c]

\* A page no later call can be answered: it is gone, or it will never be in the
\* cache because its call ended without an insert or asked for no caching.
Dead(p) ==
    \/ life[p] = "gone"
    \/ life[p] = "new" /\ step[p] \in {"uncached", "returned", "cancelled"}

\* The effect of an invalidation r of URL u, but for the pages of Pending:
\* pages older than it are dead, those in flight when it began excepted.
Effective(r, u, Pending) ==
    \A p \in Call : url[p] = u =>
        asked[p] >= r.version \/ p \in r.flying \cup Pending \/ Dead(p)

\* Invalidations have had their effect once they returned, one under way when
\* the pages it has to take away are gone.
Revoked ==
    /\ \A u \in Url : Effective(revoked[u], u, {})
    /\ \A c \in Call : step[c] # "idle" => Effective(known[c], url[c], {})
    /\ revoking # None =>
          \A u \in revoking.urls : Effective(revoking.record[u], u, revoking.doomed)

IInv ==
    /\ TypeOK /\ RevokingOK /\ Begun /\ CachedAfterInsert /\ VersionsPast /\ Revoked
    /\ StaleOnlyInFlight

-----------------------------------------------------------------------------
LEMMA NeverFacts == Never \in Revocation /\ Never.version = 0 /\ Never.flying = {}
  BY EngineConstants DEF Never, Revocation

LEMMA InitIInv == Init => IInv
<1> SUFFICES ASSUME Init PROVE IInv
  OBVIOUS
<1> USE NeverFacts, EngineConstants DEF Init, Cache!Init
<1> HIDE DEF Never, Revocation
<1>1. TypeOK
  BY DEF TypeOK, Cache!Stages, Steps
<1>2. RevokingOK /\ Begun /\ CachedAfterInsert
  BY DEF RevokingOK, Begun, CachedAfterInsert
<1>3. VersionsPast /\ Revoked /\ StaleOnlyInFlight
  BY DEF VersionsPast, Revoked, Effective, StaleOnlyInFlight, Fresh
<1> QED
  BY <1>1, <1>2, <1>3 DEF IInv

\* A call takes its data: content older than no invalidation of its URL.
LEMMA BeginIInv ==
  ASSUME IInv, NEW c \in Call, NEW u \in Url, NEW first \in {"looking", "uncached"},
         Begin(c, u, first)
  PROVE  IInv'
<1> USE EngineConstants
<1>1. /\ step[c] = "idle" /\ url[c] = None /\ reply[c] = None /\ life[c] = "new"
      /\ u # None
  BY DEF Begin, IInv, Begun, CachedAfterInsert
<1>2. /\ step' = [step EXCEPT ![c] = first] /\ url' = [url EXCEPT ![c] = u]
      /\ asked' = [asked EXCEPT ![c] = content[u]]
      /\ known' = [known EXCEPT ![c] = revoked[u]]
      /\ UNCHANGED <<life, purged, content, reply, revoking, revoked>>
  BY DEF Begin, cache
<1>3. TypeOK'
  BY <1>2 DEF IInv, TypeOK, Steps
<1>4. /\ step'[c] = first /\ url'[c] = u /\ asked'[c] = content[u] /\ known'[c] = revoked[u]
      /\ \A d \in Call \ {c} : /\ step'[d] = step[d] /\ url'[d] = url[d]
                               /\ asked'[d] = asked[d] /\ known'[d] = known[d]
  BY <1>2 DEF IInv, TypeOK
<1>5. RevokingOK' /\ Begun' /\ CachedAfterInsert'
  BY <1>1, <1>2, <1>4 DEF IInv, RevokingOK, Begun, CachedAfterInsert
<1>6. VersionsPast'
  BY <1>1, <1>2, <1>4 DEF IInv, VersionsPast, TypeOK
<1>7. \A p \in Call : Dead(p) => Dead(p)'
  BY <1>1, <1>2, <1>4 DEF Dead
<1>8. ASSUME NEW r, NEW v \in Url, NEW X, Effective(r, v, X), r.version <= content[v]
      PROVE  Effective(r, v, X)'
  BY <1>1, <1>2, <1>4, <1>7, <1>8 DEF Effective
<1>9. \A v \in Url : Effective(revoked[v], v, {})'
  BY <1>2, <1>8 DEF IInv, Revoked, VersionsPast
<1>10. ASSUME NEW d \in Call, step'[d] # "idle" PROVE Effective(known[d], url[d], {})'
  <2>1. CASE d = c
    BY <1>2, <1>4, <1>9, <2>1 DEF Effective
  <2>2. CASE d # c
    <3>1. /\ step[d] # "idle" /\ url[d] \in Url /\ Effective(known[d], url[d], {})
          /\ known[d].version <= content[url[d]]
      BY <1>4, <1>10, <2>2 DEF IInv, Revoked, VersionsPast, Begun, TypeOK, Revocation
    <3>2. \A p \in Call : url'[p] = url[d] =>
             asked'[p] >= known[d].version \/ p \in known[d].flying \cup {} \/ Dead(p)'
      BY <1>8, <3>1 DEF Effective
    <3> QED
      BY <1>4, <2>2, <3>2 DEF Effective
  <2> QED
    BY <2>1, <2>2
<1>11. ASSUME revoking # None, NEW v \in revoking.urls
       PROVE  Effective(revoking.record[v], v, revoking.doomed)'
  <2>1. /\ v \in Url /\ Effective(revoking.record[v], v, revoking.doomed)
        /\ revoking.record[v].version <= content[v]
    BY <1>11 DEF IInv, Revoked, VersionsPast, RevokingOK
  <2>2. \A p \in Call : url'[p] = v =>
           \/ asked'[p] >= revoking.record[v].version
           \/ p \in revoking.record[v].flying \cup revoking.doomed
           \/ Dead(p)'
    BY <1>8, <2>1 DEF Effective
  <2> QED
    BY <1>2, <2>2 DEF Effective
<1>12. Revoked'
  BY <1>2, <1>9, <1>10, <1>11 DEF Revoked
<1>13. StaleOnlyInFlight'
  <2> SUFFICES ASSUME NEW d \in Call, reply[d] \in Call
               PROVE  asked'[reply[d]] >= known'[d].version \/ reply[d] \in known'[d].flying
    BY <1>2 DEF StaleOnlyInFlight, Fresh
  <2>1. d # c /\ reply[d] # c
    BY <1>1 DEF IInv, Begun
  <2> QED
    BY <1>4, <2>1 DEF IInv, StaleOnlyInFlight, Fresh
<1> QED
  BY <1>3, <1>5, <1>6, <1>12, <1>13 DEF IInv

\* A call under way goes on: what was dead stays dead.
LEMMA GotoFacts ==
  ASSUME IInv, NEW c \in Call, NEW s \in Steps, Goto(c, s),
         step[c] \notin {"idle", "returned", "cancelled"},
         s \notin {"idle", "looking", "uncached"},
         life[c] = "new" /\ step[c] = "uncached" => life'[c] = "new" /\ s # "rendering" /\ s # "inserting",
         \A p \in Call \ {c} : life[p] = "new" => life'[p] = "new",
         \A p \in Call : life[p] = "gone" => life'[p] = "gone"
  PROVE  /\ step' \in [Call -> Steps] /\ step'[c] = s
         /\ \A d \in Call \ {c} : step'[d] = step[d]
         /\ RevokingOK' /\ VersionsPast' /\ Revoked'
<1>1. /\ step' \in [Call -> Steps] /\ step'[c] = s
      /\ \A d \in Call \ {c} : step'[d] = step[d]
  BY DEF Goto, IInv, TypeOK
<1>2. UNCHANGED <<content, url, asked, known, revoking, revoked>>
  BY DEF Goto
<1>3. ASSUME NEW p \in Call, Dead(p) PROVE Dead(p)'
  <2>1. CASE p = c
    BY <1>1, <1>3, <2>1 DEF Dead, Steps
  <2>2. CASE p # c
    BY <1>1, <1>3, <2>2 DEF Dead
  <2> QED
    BY <2>1, <2>2
<1>4. RevokingOK' /\ VersionsPast'
  BY <1>1, <1>2 DEF IInv, RevokingOK, VersionsPast
<1>5. Revoked'
  BY <1>1, <1>2, <1>3 DEF IInv, Revoked, Effective
<1> QED
  BY <1>1, <1>4, <1>5

\* A hit is a page that is alive, so no invalidation the call knows of took it.
LEMMA HitIInv == ASSUME IInv, NEW c \in Call, Hit(c) PROVE IInv'
<1>1. PICK p \in PagesOf({url[c]}) :
        p \in Cache!In("offered") \cup Cache!In("stored") /\ Return(c, p)
  BY DEF Hit
<1>2. /\ p \in Call /\ url[p] = url[c] /\ life[p] \in {"offered", "stored"}
      /\ step[c] = "looking" /\ UNCHANGED <<life, purged>>
  BY <1>1 DEF Hit, PagesOf, Cache!In, cache
<1>3. Goto(c, "returned") /\ reply' = [reply EXCEPT ![c] = p]
  BY <1>1 DEF Return
<1>4. /\ step' \in [Call -> Steps] /\ step'[c] = "returned"
      /\ \A d \in Call \ {c} : step'[d] = step[d]
      /\ RevokingOK' /\ VersionsPast' /\ Revoked'
  BY <1>2, <1>3, GotoFacts DEF Steps
<1>5. reply'[c] = p /\ \A d \in Call \ {c} : reply'[d] = reply[d]
  BY <1>3 DEF IInv, TypeOK
<1>6. UNCHANGED <<content, url, asked, known, revoking, revoked>>
  BY <1>3 DEF Goto
<1>7. TypeOK'
  BY <1>2, <1>3, <1>4, <1>6 DEF IInv, TypeOK
<1>8. step[p] # "idle"
  BY <1>2, EngineConstants DEF IInv, Begun
<1>9. Begun'
  BY <1>2, <1>4, <1>5, <1>6, <1>8 DEF IInv, Begun
<1>10. CachedAfterInsert'
  BY <1>2, <1>4, <1>5, <1>6 DEF IInv, CachedAfterInsert, Begun
<1>11. asked[p] >= known[c].version \/ p \in known[c].flying
  BY <1>2 DEF IInv, Revoked, Effective, Dead
<1>12. StaleOnlyInFlight'
  BY <1>5, <1>6, <1>11 DEF IInv, StaleOnlyInFlight, Fresh
<1> QED
  BY <1>4, <1>7, <1>9, <1>10, <1>12 DEF IInv

\* A call that ends with its own page, inserted or not, has rendered it from
\* data taken after every invalidation it knows of.
LEMMA OwnPageIInv ==
  ASSUME IInv, NEW c \in Call, Return(c, c),
         \/ /\ step[c] = "inserting" /\ UNCHANGED purged
            /\ \E Lost \in SUBSET Call : Cache!Store(c, Lost)
         \/ step[c] = "uncached" /\ UNCHANGED cache
  PROVE  IInv'
<1>1. /\ \/ /\ step[c] = "inserting" /\ life[c] = "offered" /\ life'[c] = "stored"
            /\ life' \in [Call -> Cache!Stages]
            /\ \A p \in Call \ {c} : life'[p] = life[p] \/ (life[p] = "stored" /\ life'[p] = "gone")
         \/ step[c] = "uncached" /\ life[c] = "new" /\ UNCHANGED life
      /\ UNCHANGED purged
  <2>1. CASE step[c] = "inserting"
    <3>1. PICK Lost \in SUBSET Call : Cache!Store(c, Lost)
      BY <2>1
    <3> QED
      BY <2>1, <3>1 DEF Cache!Store, Cache!Move, Cache!In, Cache!Stages, IInv, TypeOK
  <2>2. CASE step[c] # "inserting"
    BY <2>2 DEF cache, IInv, CachedAfterInsert
  <2> QED
    BY <2>1, <2>2
<1>2. Goto(c, "returned") /\ reply' = [reply EXCEPT ![c] = c]
  BY DEF Return
<1>3. /\ step' \in [Call -> Steps] /\ step'[c] = "returned"
      /\ \A d \in Call \ {c} : step'[d] = step[d]
      /\ RevokingOK' /\ VersionsPast' /\ Revoked'
  <2>1. /\ step[c] \notin {"idle", "returned", "cancelled"}
        /\ life[c] = "new" /\ step[c] = "uncached" => life'[c] = "new"
        /\ \A p \in Call \ {c} : life[p] = "new" => life'[p] = "new"
        /\ \A p \in Call : life[p] = "gone" => life'[p] = "gone"
    BY <1>1
  <2>2. "returned" \in Steps
    BY DEF Steps
  <2> QED
    BY <1>2, <2>1, <2>2, GotoFacts
<1>4. reply'[c] = c /\ \A d \in Call \ {c} : reply'[d] = reply[d]
  BY <1>2 DEF IInv, TypeOK
<1>5. UNCHANGED <<content, url, asked, known, revoking, revoked>>
  BY <1>2 DEF Goto
<1>6. life' \in [Call -> Cache!Stages]
  BY <1>1 DEF IInv, TypeOK
<1>7. TypeOK'
  BY <1>1, <1>2, <1>3, <1>5, <1>6 DEF IInv, TypeOK
<1>8. Begun'
  BY <1>1, <1>3, <1>4, <1>5 DEF IInv, Begun
<1>9. CachedAfterInsert'
  BY <1>1, <1>3, <1>4, <1>5 DEF IInv, CachedAfterInsert, Begun
<1>10. asked[c] >= known[c].version
  BY <1>1 DEF IInv, VersionsPast, TypeOK, Revocation
<1>11. StaleOnlyInFlight'
  BY <1>4, <1>5, <1>10 DEF IInv, StaleOnlyInFlight, Fresh
<1> QED
  BY <1>3, <1>7, <1>8, <1>9, <1>11 DEF IInv

\* A call goes on, gives up or fails.
LEMMA SilentIInv ==
  ASSUME IInv, NEW c \in Call,
         Miss(c) \/ Rendered(c) \/ Cancel(c) \/ \E e \in PoolErrors \ {"Disconnected"} : Failed(c, e)
  PROVE  IInv'
<1> USE EngineConstants
<1> DEFINE Goes(s) ==
      /\ Goto(c, s) /\ UNCHANGED purged
      /\ \/ step[c] = "looking" /\ s = "rendering" /\ UNCHANGED <<life, reply>>
         \/ step[c] = "rendering" /\ s = "inserting" /\ Cache!Offer(c) /\ UNCHANGED reply
         \/ step[c] \in {"rendering", "uncached"} /\ s = "cancelled" /\ UNCHANGED <<life, reply>>
         \/ /\ step[c] \in {"rendering", "uncached"} /\ s = "returned" /\ UNCHANGED life
            /\ \E e \in SsrErrors : reply' = [reply EXCEPT ![c] = e]
<1>1. \E s \in {"rendering", "inserting", "returned", "cancelled"} : Goes(s)
  <2>1. CASE Miss(c)
    BY <2>1 DEF Miss, cache
  <2>2. CASE Rendered(c)
    BY <2>2 DEF Rendered, Cache!Offer
  <2>3. CASE Cancel(c)
    BY <2>3 DEF Cancel, cache
  <2>4. ASSUME NEW e \in PoolErrors \ {"Disconnected"}, Failed(c, e) PROVE Goes("returned")
    <3>1. MapPoolError(e) \in SsrErrors
      BY <2>4, Zenon DEF MapPoolError, PoolErrors, SsrErrors
    <3> QED
      BY <2>4, <3>1 DEF Failed, Return, cache
  <2> QED
    BY <2>1, <2>2, <2>3, <2>4
<1>2. PICK s \in {"rendering", "inserting", "returned", "cancelled"} : Goes(s)
  BY <1>1
<1>3. /\ life' \in [Call -> Cache!Stages]
      /\ \A d \in Call \ {c} : life'[d] = life[d]
      /\ IF s = "inserting" THEN life[c] = "new" /\ life'[c] = "offered" ELSE life'[c] = life[c]
      /\ life[c] = "new"
  BY <1>2 DEF Cache!Offer, Cache!Move, Cache!Stages, IInv, TypeOK, CachedAfterInsert
<1>4. /\ step' \in [Call -> Steps] /\ step'[c] = s
      /\ \A d \in Call \ {c} : step'[d] = step[d]
      /\ RevokingOK' /\ VersionsPast' /\ Revoked'
  <2>1. /\ step[c] \notin {"idle", "returned", "cancelled"}
        /\ s \notin {"idle", "looking", "uncached"} /\ s \in Steps
        /\ life[c] = "new" /\ step[c] = "uncached"
             => life'[c] = "new" /\ s # "rendering" /\ s # "inserting"
        /\ \A p \in Call \ {c} : life[p] = "new" => life'[p] = "new"
        /\ \A p \in Call : life[p] = "gone" => life'[p] = "gone"
    BY <1>2, <1>3 DEF Steps
  <2>2. Goto(c, s)
    BY <1>2
  <2> HIDE DEF Goes
  <2> QED
    BY <2>1, <2>2, GotoFacts
<1>5. UNCHANGED <<content, url, asked, known, revoking, revoked, purged>>
  BY <1>2 DEF Goto
<1>6. /\ reply' \in [Call -> Call \cup SsrErrors \cup {None}]
      /\ \A d \in Call \ {c} : reply'[d] = reply[d]
      /\ reply'[c] = reply[c] \/ (s = "returned" /\ reply'[c] \in SsrErrors)
  BY <1>2 DEF IInv, TypeOK
<1>7. step[c] # "idle" /\ step[c] # "returned" /\ reply[c] = None
  BY <1>2 DEF IInv, Begun
<1> HIDE DEF Goes
<1>8. TypeOK'
  BY <1>3, <1>4, <1>5, <1>6 DEF IInv, TypeOK
<1>9. Begun'
  BY <1>4, <1>5, <1>6, <1>7 DEF IInv, Begun
<1>10. CachedAfterInsert'
  BY <1>3, <1>4, <1>6, <1>7 DEF IInv, CachedAfterInsert
<1>11. StaleOnlyInFlight'
  BY <1>5, <1>6, <1>7 DEF IInv, StaleOnlyInFlight, Fresh
<1> QED
  BY <1>4, <1>8, <1>9, <1>10, <1>11 DEF IInv

-----------------------------------------------------------------------------
\* Content changes, pages are lost: no call moves.
LEMMA QuietIInv ==
  ASSUME IInv,
         \/ \E u \in Url : Update(u)
         \/ \E Lost \in SUBSET Call : Lose(Lost)
         \/ UNCHANGED vars
  PROVE  IInv'
<1>1. /\ UNCHANGED <<calls, revoking, revoked, purged>>
      /\ content' \in [Url -> 0 .. MaxVersion] /\ \A u \in Url : content[u] <= content'[u]
      /\ life' \in [Call -> Cache!Stages]
      /\ \A p \in Call : life'[p] = life[p] \/ (life[p] = "stored" /\ life'[p] = "gone")
  <2>1. ASSUME NEW u \in Url, Update(u) PROVE <1>1
    <3>1. /\ content' = [content EXCEPT ![u] = content[u] + 1] /\ content[u] < MaxVersion
          /\ UNCHANGED <<calls, revoking, revoked, purged, life>>
      BY <2>1 DEF Update, cache
    <3> QED
      BY <3>1, EngineConstants DEF IInv, TypeOK
  <2>2. ASSUME NEW Lost \in SUBSET Call, Lose(Lost) PROVE <1>1
    BY <2>2 DEF Lose, Cache!Lose, Cache!Move, Cache!In, Cache!Stages, IInv, TypeOK
  <2>3. ASSUME UNCHANGED vars PROVE <1>1
    BY <2>3 DEF vars, cache, IInv, TypeOK
  <2> QED
    BY <2>1, <2>2, <2>3
<1>2. UNCHANGED <<step, url, asked, reply, known>>
  BY <1>1 DEF calls
<1>3. TypeOK'
  BY <1>1, <1>2 DEF IInv, TypeOK
<1>4. RevokingOK' /\ Begun' /\ CachedAfterInsert' /\ StaleOnlyInFlight'
  BY <1>1, <1>2
  DEF IInv, RevokingOK, Begun, CachedAfterInsert, StaleOnlyInFlight, Fresh
<1>5. VersionsPast'
  <2>1. \A u \in Url : revoked'[u].version <= content'[u]
    BY <1>1, <1>3 DEF IInv, VersionsPast, TypeOK, Revocation
  <2>2. revoking' # None => \A u \in revoking'.urls : revoking'.record[u].version <= content'[u]
    BY <1>1, <1>3 DEF IInv, VersionsPast, TypeOK, Revocation, RevokingOK
  <2>3. \A c \in Call : step'[c] # "idle" =>
           asked'[c] <= content'[url'[c]] /\ known'[c].version <= asked'[c]
    BY <1>1, <1>2, <1>3 DEF IInv, VersionsPast, TypeOK, Begun
  <2> QED
    BY <2>1, <2>2, <2>3 DEF VersionsPast
<1>6. \A p \in Call : Dead(p) => Dead(p)'
  BY <1>1, <1>2 DEF Dead
<1>7. Revoked'
  BY <1>1, <1>2, <1>6 DEF IInv, Revoked, Effective
<1> QED
  BY <1>3, <1>4, <1>5, <1>7 DEF IInv

\* When an invalidation begins, a page of its URLs is in flight, dead, or one
\* of those it will take away.
LEMMA RevokeBeginIInv ==
  ASSUME IInv, NEW U \in SUBSET Url, RevokeBegin(U) PROVE IInv'
<1> DEFINE doomed == PagesOf(U) \cap Settled
           record == [u \in U |-> [version |-> content[u], flying |-> Flying]]
<1>1. /\ revoking' = [urls |-> U, doomed |-> doomed, record |-> record]
      /\ UNCHANGED <<life, purged, content, step, url, asked, reply, known, revoked>>
  BY DEF RevokeBegin, cache, calls
<1>2. Flying \in SUBSET Call
  BY DEF Flying
<1>3. record \in [U -> Revocation]
  <2> HIDE DEF Flying
  <2> QED
    BY <1>2 DEF IInv, TypeOK, Revocation
<1>4. \A u \in U : record[u].version = content[u] /\ record[u].flying = Flying
  OBVIOUS
<1>5. \A p \in Call : url[p] \in U => p \in Flying \cup doomed \/ Dead(p)
  <2> SUFFICES ASSUME NEW p \in Call, url[p] \in U PROVE p \in Flying \cup doomed \/ Dead(p)
    OBVIOUS
  <2>1. step[p] \in Steps \ {"idle"} /\ life[p] \in Cache!Stages
    BY EngineConstants DEF IInv, TypeOK, Begun
  <2> QED
    BY <2>1
    DEF Flying, Settled, PagesOf, Dead, Cache!In, Cache!Stages, Steps, IInv, CachedAfterInsert
<1> HIDE DEF doomed, record
<1>6. TypeOK'
  BY <1>1 DEF IInv, TypeOK
<1>7. revoking'.urls = U /\ revoking'.doomed = doomed /\ revoking'.record = record
  BY <1>1
<1>8. RevokingOK' /\ Begun' /\ CachedAfterInsert' /\ StaleOnlyInFlight'
  BY <1>1, <1>3, <1>7
  DEF IInv, RevokingOK, Begun, CachedAfterInsert, StaleOnlyInFlight, Fresh
<1>9. VersionsPast'
  BY <1>1, <1>4, <1>7 DEF IInv, VersionsPast, TypeOK
<1>10. ASSUME NEW u \in U PROVE Effective(record[u], u, doomed)
  BY <1>4, <1>5 DEF Effective
<1>11. Revoked'
  BY <1>1, <1>7, <1>10 DEF IInv, Revoked, Effective, Dead
<1> QED
  BY <1>6, <1>8, <1>9, <1>11 DEF IInv

\* When it returns they are gone, and its record becomes the last of its URLs.
LEMMA RevokeEndIInv == ASSUME IInv, RevokeEnd PROVE IInv'
<1>1. /\ revoking # None /\ revoking' = None
      /\ revoking.urls \subseteq Url /\ revoking.record \in [revoking.urls -> Revocation]
      /\ UNCHANGED <<content, step, url, asked, reply, known>>
      /\ revoked' = [u \in Url |-> IF u \in revoking.urls THEN revoking.record[u] ELSE revoked[u]]
  BY DEF RevokeEnd, calls, IInv, RevokingOK
<1>2. PICK Lost \in SUBSET PagesOf(revoking.urls) : Cache!Purge(revoking.doomed, Lost)
  BY DEF RevokeEnd
<1>3. /\ life' \in [Call -> Cache!Stages]
      /\ \A p \in Call : \/ life'[p] = life[p] /\ p \notin revoking.doomed
                         \/ life[p] \in {"stored", "gone"} /\ life'[p] = "gone"
      /\ purged' \subseteq Call
  BY <1>2 DEF Cache!Purge, Cache!Move, Cache!In, Cache!Stages, IInv, TypeOK
<1>4. \A u \in Url : revoked'[u] = IF u \in revoking.urls THEN revoking.record[u] ELSE revoked[u]
  BY <1>1
<1>5. revoked' \in [Url -> Revocation]
  BY <1>1 DEF IInv, TypeOK
<1>6. TypeOK'
  BY <1>1, <1>3, <1>5 DEF IInv, TypeOK
<1>7. RevokingOK' /\ Begun' /\ CachedAfterInsert' /\ StaleOnlyInFlight'
  BY <1>1, <1>3
  DEF IInv, RevokingOK, Begun, CachedAfterInsert, StaleOnlyInFlight, Fresh
<1>8. VersionsPast'
  BY <1>1, <1>4 DEF IInv, VersionsPast
<1>9. \A p \in Call : Dead(p) \/ p \in revoking.doomed => Dead(p)'
  BY <1>1, <1>3 DEF Dead
<1>10. ASSUME NEW u \in Url PROVE Effective(revoked[u], u, {})'
  <2>1. CASE u \in revoking.urls
    BY <1>1, <1>4, <1>9, <2>1 DEF IInv, Revoked, Effective
  <2>2. CASE u \notin revoking.urls
    BY <1>1, <1>4, <1>9, <2>2 DEF IInv, Revoked, Effective
  <2> QED
    BY <2>1, <2>2
<1>11. \A c \in Call : step'[c] # "idle" => Effective(known[c], url[c], {})'
  BY <1>1, <1>9 DEF IInv, Revoked, Effective
<1>12. Revoked'
  BY <1>1, <1>10, <1>11 DEF Revoked
<1> QED
  BY <1>6, <1>7, <1>8, <1>12 DEF IInv

LEMMA RevokeNothingIInv == ASSUME IInv, RevokeNothing PROVE IInv'
<1>1. /\ revoking' = None
      /\ UNCHANGED <<life, purged, content, step, url, asked, reply, known, revoked>>
  BY DEF RevokeNothing, cache, calls
<1> QED
  BY <1>1
  DEF IInv, TypeOK, RevokingOK, Begun, CachedAfterInsert, VersionsPast, Revoked, Effective,
      Dead, StaleOnlyInFlight, Fresh

LEMMA StepIInv == ASSUME IInv, [Next]_vars PROVE IInv'
<1>1. ASSUME NEW c \in Call, Inserted(c) \/ RenderedUncached(c) PROVE IInv'
  <2>1. CASE Inserted(c)
    <3>1. UNCHANGED purged
      BY <2>1 DEF Inserted, Cache!Store
    <3> QED
      BY <2>1, <3>1, OwnPageIInv DEF Inserted
  <2>2. CASE RenderedUncached(c)
    BY <2>2, OwnPageIInv DEF RenderedUncached
  <2> QED
    BY <1>1, <2>1, <2>2
<1> QED
  BY <1>1, BeginIInv, HitIInv, SilentIInv, QuietIInv, RevokeBeginIInv, RevokeEndIInv,
     RevokeNothingIInv
  DEF Next

LEMMA Inductive == Spec => []IInv
  BY InitIInv, StepIInv, PTL DEF Spec

-----------------------------------------------------------------------------
\* All variables keep their types.
THEOREM TypeCorrect == Spec => []TypeOK
<1>1. IInv => TypeOK
  BY DEF IInv
<1> QED
  BY <1>1, Inductive, PTL

\* No page of a call that failed, was cancelled, was answered from the cache or
\* asked for no caching is ever in the cache (engine.rs:114-123, 165-171).
THEOREM CachesOnlyAnswers == Spec => []OnlyAnswersCached
<1>1. IInv => OnlyAnswersCached
  BY DEF IInv, CachedAfterInsert, OnlyAnswersCached
<1> QED
  BY <1>1, Inductive, PTL

\* An answer older than an invalidation that returned before the call began is
\* a page whose render or insert was under way when that invalidation began:
\* older pages are dead when it returns, and dead pages stay dead, however
\* calls, updates and later invalidations interleave (engine.rs:112-123, 176).
THEOREM StaleOnlyFromFlight == Spec => []StaleOnlyInFlight
<1>1. IInv => StaleOnlyInFlight
  BY DEF IInv
<1> QED
  BY <1>1, Inductive, PTL
=============================================================================
