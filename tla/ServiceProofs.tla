--------------------------- MODULE ServiceProofs ----------------------------
(***************************************************************************)
(* For any number of calls, pools and workers, any configurations, files,  *)
(* URLs and layers.  While the process starts: all workers run one bundle, *)
(* those of engines find it, and only calls that overlap fail for it.      *)
(* While it serves: a reply fits the URL asked for and says how its body   *)
(* is coded.                                                               *)
(***************************************************************************)
EXTENDS Service, TLAPS, NaturalsInduction, WellFoundedInduction

-----------------------------------------------------------------------------
\* The start of the process.

\* What is needed of the types.
Shape ==
    /\ disk \in [Path -> Scripts \cup {None}]
    /\ pc \in [Call -> Steps] /\ via \in [Call -> Via \cup {None}]
    /\ config = [a \in Call |-> config[a]]
    /\ text \in [Call -> Text \cup {None}]
    /\ workers = [a \in Call |-> workers[a]]
    /\ \A a \in Call : workers[a] = [w \in DOMAIN workers[a] |-> workers[a][w]]

\* A call that reads a file was given its path, one that fills the cell has a
\* text for it.
Prepared ==
    \A a \in Call :
        /\ pc[a] \in {"checking", "reading"} => config[a].bundle_path \in Path
        /\ pc[a] = "setting" => text[a] # None

\* A worker only runs with the text in the cell ...
RunsCell ==
    \A a \in Call : \A w \in DOMAIN workers[a] :
        Running(workers[a][w]) => SSR_BUNDLE # None /\ workers[a][w].text = SSR_BUNDLE

\* ... which is full before an engine spawns any.
SpawnsLoaded ==
    \A a \in Call : via[a] \in {"build_engine", "new"} =>
        /\ pc[a] \in {"spawning", "ok"} => SSR_BUNDLE # None
        /\ \A w \in DOMAIN workers[a] : /\ workers[a][w].state # "panicked"
                                        /\ SSR_BUNDLE # None

\* A call that has not begun has no workers.
Fresh == \A a \in Call : pc[a] = "idle" => workers[a] = << >>

IInv == Shape /\ Prepared /\ RunsCell /\ SpawnsLoaded /\ Fresh

LEMMA InitIInv == StartInit => IInv
  BY StartupConstants
  DEF StartInit, IInv, Shape, Prepared, RunsCell, SpawnsLoaded, Fresh, Steps, Text

LEMMA TextFacts ==
  ASSUME NEW s \in Scripts, NEW p \in BOOLEAN
  PROVE  [script |-> s, polyfilled |-> p] \in Text /\ [script |-> s, polyfilled |-> p] # None
<1>1. [script |-> s, polyfilled |-> p] \in Text
  BY DEF Text
<1> QED
  BY <1>1, StartupConstants

LEMMA NewWorkersFacts ==
  ASSUME NEW c
  PROVE  /\ NewWorkers(c) = [w \in DOMAIN NewWorkers(c) |-> NewWorkers(c)[w]]
         /\ \A w \in DOMAIN NewWorkers(c) : NewWorkers(c)[w].state = "starting"
  BY DEF NewWorkers

\* A builder is read with a path the application named.
LEMMA BeginIInv == ASSUME IInv, NEW a \in Call, Begin(a) PROVE IInv'
<1> USE DEF Enter, Move, Fail
<1>0. pc[a] = "idle" /\ workers[a] = << >> /\ DOMAIN workers[a] = {}
  BY DEF Begin, BuildEngine, NewEngine, InitBundle, GiveText, NewPool, IInv, Fresh
<1>1. ASSUME NEW b \in Builders, BuildEngine(a, b) PROVE IInv'
  <2>1. Filled(b).bundle_path \in Path
    BY StartupConstants
  <2> QED
    BY <1>0, <1>1, <2>1
    DEF BuildEngine, IInv, Shape, Prepared, RunsCell, SpawnsLoaded, Fresh, Steps, Via
<1>2. ASSUME NEW c \in Literals, NewEngine(a, c) PROVE IInv'
  <2>1. c.bundle_path \in Path
    BY StartupConstants
  <2> QED
    BY <1>0, <1>2, <2>1
    DEF NewEngine, IInv, Shape, Prepared, RunsCell, SpawnsLoaded, Fresh, Steps, Via
<1>3. ASSUME NEW p \in Path, InitBundle(a, p) PROVE IInv'
  <2>1. [Default EXCEPT !.bundle_path = p].bundle_path = p
    BY DEF Default
  <2> QED
    BY <1>0, <1>3, <2>1
    DEF InitBundle, IInv, Shape, Prepared, RunsCell, SpawnsLoaded, Fresh, Steps, Via
<1>4. ASSUME NEW v \in {"from_string", "raw"}, NEW s \in Strings, GiveText(a, v, s) PROVE IInv'
  <2> DEFINE t == [script |-> s, polyfilled |-> v = "from_string"]
  <2>1. t \in Text /\ t # None
    <3>1. s \in Scripts /\ (v = "from_string") \in BOOLEAN
      BY StartupConstants
    <3> QED
      BY <3>1, TextFacts
  <2> HIDE DEF t
  <2>2. /\ text' = [text EXCEPT ![a] = t] /\ pc' = [pc EXCEPT ![a] = "setting"]
        /\ via' = [via EXCEPT ![a] = v] /\ config' = [config EXCEPT ![a] = None]
        /\ UNCHANGED <<disk, SSR_BUNDLE, workers>>
    BY <1>4 DEF GiveText, t
  <2>3. v \in {"from_string", "raw"} /\ v \in Via /\ "setting" \in Steps
    BY DEF Via, Steps
  <2>4. Shape'
    BY <2>1, <2>2, <2>3 DEF IInv, Shape
  <2>5. Prepared' /\ Fresh'
    BY <2>1, <2>2 DEF IInv, Shape, Prepared, Fresh
  <2>6. RunsCell' /\ SpawnsLoaded'
    BY <1>0, <2>2, <2>3 DEF IInv, Shape, RunsCell, SpawnsLoaded
  <2> QED
    BY <2>4, <2>5, <2>6 DEF IInv
<1>5. ASSUME NewPool(a) PROVE IInv'
  <2> DEFINE new == NewWorkers(Default)
  <2>1. /\ new = [w \in DOMAIN new |-> new[w]]
        /\ \A w \in DOMAIN new : new[w].state = "starting"
    BY NewWorkersFacts
  <2> HIDE DEF new
  <2>2. /\ workers' = [workers EXCEPT ![a] = new] /\ pc' = [pc EXCEPT ![a] = "ok"]
        /\ via' = [via EXCEPT ![a] = "V8Pool"] /\ config' = [config EXCEPT ![a] = Default]
        /\ UNCHANGED <<disk, SSR_BUNDLE, text>>
    BY <1>5 DEF NewPool, new
  <2>3. /\ workers'[a] = new /\ via'[a] = "V8Pool"
        /\ \A b \in Call \ {a} : workers'[b] = workers[b]
    BY <2>2 DEF IInv, Shape
  <2>4. Shape'
    BY <2>1, <2>2, <2>3 DEF IInv, Shape, Steps, Via
  <2>5. Prepared' /\ Fresh'
    BY <2>2, <2>3 DEF IInv, Shape, Prepared, Fresh
  <2>6. RunsCell' /\ SpawnsLoaded'
    BY <2>1, <2>2, <2>3 DEF IInv, Shape, RunsCell, SpawnsLoaded, Running
  <2> QED
    BY <2>4, <2>5, <2>6 DEF IInv
<1> QED
  BY <1>1, <1>2, <1>3, <1>4, <1>5 DEF Begin

LEMMA CallIInv == ASSUME IInv, NEW a \in Call, Step(a) PROVE IInv'
<1> USE DEF Move, Fail, Ready
<1>1. ASSUME CheckCell(a) PROVE IInv'
  BY <1>1 DEF CheckCell, IInv, Shape, Prepared, RunsCell, SpawnsLoaded, Fresh, Steps
<1>2. ASSUME ReadFile(a) PROVE IInv'
  <2> DEFINE script == disk[config[a].bundle_path]
             t == [script |-> script, polyfilled |-> TRUE]
  <2>1. pc[a] = "reading" /\ config[a].bundle_path \in Path
    BY <1>2 DEF ReadFile, IInv, Prepared
  <2>2. CASE script = None
    BY <1>2, <2>1, <2>2
    DEF ReadFile, IInv, Shape, Prepared, RunsCell, SpawnsLoaded, Fresh, Steps
  <2>3. CASE script # None
    <3>1. t \in Text /\ t # None
      <4>1. script \in Scripts /\ TRUE \in BOOLEAN
        BY <2>1, <2>3 DEF IInv, Shape
      <4> HIDE DEF script
      <4> QED
        BY <4>1, TextFacts
    <3>2. text' = [text EXCEPT ![a] = t] /\ pc' = [pc EXCEPT ![a] = "setting"]
      BY <1>2, <2>3 DEF ReadFile
    <3> HIDE DEF t, script
    <3> QED
      BY <1>2, <2>1, <3>1, <3>2
      DEF ReadFile, IInv, Shape, Prepared, RunsCell, SpawnsLoaded, Fresh, Steps
  <2> QED
    BY <2>2, <2>3
<1>3. ASSUME SetCell(a) PROVE IInv'
  BY <1>3 DEF SetCell, IInv, Shape, Prepared, RunsCell, SpawnsLoaded, Fresh, Steps
<1>4. ASSUME Spawn(a) PROVE IInv'
  <2> DEFINE new == NewWorkers(config[a])
  <2>1. /\ new = [w \in DOMAIN new |-> new[w]]
        /\ \A w \in DOMAIN new : new[w].state = "starting"
    BY NewWorkersFacts
  <2> HIDE DEF new
  <2>2. /\ workers' = [workers EXCEPT ![a] = new] /\ pc' = [pc EXCEPT ![a] = "ok"]
        /\ pc[a] = "spawning" /\ UNCHANGED <<disk, SSR_BUNDLE, via, config, text>>
    BY <1>4 DEF Spawn, new
  <2>3. /\ workers'[a] = new /\ pc'[a] = "ok"
        /\ \A b \in Call \ {a} : workers'[b] = workers[b] /\ pc'[b] = pc[b]
    BY <2>2 DEF IInv, Shape
  <2>4. Shape'
    BY <2>1, <2>2, <2>3 DEF IInv, Shape, Steps
  <2>5. Prepared' /\ Fresh'
    BY <2>2, <2>3 DEF IInv, Prepared, Fresh
  <2>6. RunsCell'
    BY <2>1, <2>2, <2>3 DEF IInv, RunsCell, Running
  <2>7. SpawnsLoaded'
    BY <2>1, <2>2, <2>3 DEF IInv, SpawnsLoaded
  <2> QED
    BY <2>4, <2>5, <2>6, <2>7 DEF IInv
<1> QED
  BY <1>1, <1>2, <1>3, <1>4 DEF Step

\* A starting worker of an engine finds the cell full.
LEMMA WorkerIInv ==
  ASSUME IInv, NEW a \in Call, NEW w \in DOMAIN workers[a], StartWorker(a, w)
  PROVE  IInv'
<1> DEFINE next == IF SSR_BUNDLE = None THEN [state |-> "panicked", text |-> None]
                   ELSE IF Loads(SSR_BUNDLE) THEN [state |-> "running", text |-> SSR_BUNDLE]
                   ELSE [state |-> "exited", text |-> None]
<1>1. /\ SSR_BUNDLE # None => next.state # "panicked"
      /\ Running(next) => SSR_BUNDLE # None /\ next.text = SSR_BUNDLE
  BY DEF Running
<1>2. workers' = [workers EXCEPT ![a][w] = next]
  BY DEF StartWorker
<1> HIDE DEF next
<1>3. /\ workers'[a] = [workers[a] EXCEPT ![w] = next]
      /\ \A b \in Call \ {a} : workers'[b] = workers[b]
      /\ workers' = [b \in Call |-> workers'[b]]
  BY <1>2 DEF IInv, Shape
<1>4. /\ DOMAIN workers'[a] = DOMAIN workers[a]
      /\ workers'[a][w] = next
      /\ \A v \in DOMAIN workers[a] \ {w} : workers'[a][v] = workers[a][v]
      /\ workers'[a] = [v \in DOMAIN workers'[a] |-> workers'[a][v]]
  BY <1>3 DEF IInv, Shape
<1>5. Shape'
  BY <1>3, <1>4 DEF StartWorker, IInv, Shape
<1>6. RunsCell' /\ SpawnsLoaded'
  BY <1>1, <1>3, <1>4 DEF StartWorker, IInv, RunsCell, SpawnsLoaded, Running
<1>7. Prepared' /\ Fresh'
  BY <1>3, <1>4 DEF StartWorker, IInv, Prepared, Fresh, Shape
<1> QED
  BY <1>5, <1>6, <1>7 DEF IInv

\* One that panics while it renders runs no more.
LEMMA CrashIInv ==
  ASSUME IInv, NEW a \in Call, NEW w \in DOMAIN workers[a], CrashWorker(a, w)
  PROVE  IInv'
<1> DEFINE next == [state |-> "crashed", text |-> None]
<1>1. next.state # "panicked" /\ ~Running(next)
  BY DEF Running
<1>2. workers' = [workers EXCEPT ![a][w] = next]
  BY DEF CrashWorker
<1> HIDE DEF next
<1>3. /\ workers'[a] = [workers[a] EXCEPT ![w] = next]
      /\ \A b \in Call \ {a} : workers'[b] = workers[b]
      /\ workers' = [b \in Call |-> workers'[b]]
  BY <1>2 DEF IInv, Shape
<1>4. /\ DOMAIN workers'[a] = DOMAIN workers[a]
      /\ workers'[a][w] = next
      /\ \A v \in DOMAIN workers[a] \ {w} : workers'[a][v] = workers[a][v]
      /\ workers'[a] = [v \in DOMAIN workers'[a] |-> workers'[a][v]]
  BY <1>3 DEF IInv, Shape
<1>5. Shape'
  BY <1>3, <1>4 DEF CrashWorker, IInv, Shape
<1>6. RunsCell' /\ SpawnsLoaded'
  BY <1>1, <1>3, <1>4 DEF CrashWorker, IInv, RunsCell, SpawnsLoaded, Running
<1>7. Prepared' /\ Fresh'
  BY <1>3, <1>4 DEF CrashWorker, IInv, Prepared, Fresh, Shape
<1> QED
  BY <1>5, <1>6, <1>7 DEF IInv

LEMMA StepIInv == ASSUME IInv, [StartNext]_start PROVE IInv'
<1>1. ASSUME NEW p \in Path, NEW s \in Strings, Deploy(p, s) PROVE IInv'
  BY <1>1, StartupConstants
  DEF Deploy, own, IInv, Shape, Prepared, RunsCell, SpawnsLoaded, Fresh
<1>2. ASSUME UNCHANGED start PROVE IInv'
  BY <1>2 DEF start, own, IInv, Shape, Prepared, RunsCell, SpawnsLoaded, Fresh
<1> QED
  BY <1>1, <1>2, BeginIInv, CallIInv, WorkerIInv, CrashIInv DEF StartNext

LEMMA Inductive == StartSpec => []IInv
  BY InitIInv, StepIInv, PTL DEF StartSpec

\* All workers of all engines and pools run one and the same bundle: each runs
\* what the cell holds, and OnceLock::set never replaces it.
THEOREM WorkersShareBundle == StartSpec => []OneBundle
<1>1. IInv => OneBundle
  BY DEF IInv, RunsCell, OneBundle
<1> QED
  BY <1>1, Inductive, PTL

\* No worker of an engine panics for want of a bundle, since `?` after
\* init_bundle leaves SsrEngine::new before the pool is made.
THEOREM EnginesAreLoaded == StartSpec => []EnginesFindBundle
<1>1. IInv => EnginesFindBundle
  BY DEF IInv, SpawnsLoaded, EnginesFindBundle, Engines
<1> QED
  BY <1>1, Inductive, PTL

-----------------------------------------------------------------------------
Busy(a) == pc[a] \notin {"idle", "ok", "failed"}

\* Calls that are under way together overlap.
Overlap == \A a, b \in Call : a # b /\ Busy(a) /\ Busy(b) => a \in raced /\ b \in raced

\* A call on a path found the cell empty, so if it is full before the call has
\* filled it another call has done so meanwhile.
LateIsRaced ==
    \A a \in Call : pc[a] \in {"reading", "setting"} /\ SSR_BUNDLE # None
        => a \in raced \/ via[a] \in {"from_string", "raw"}

\* Only calls that have failed have an error.
ErrorsLast == error = [a \in Call |-> error[a]] /\ \A a \in Call : error[a] # None => pc[a] = "failed"

RInv == Overlap /\ LateIsRaced /\ ErrorsLast /\ SequentialInitsAgree

LEMMA InitRInv == StartInit => RInv
  BY StartupConstants
  DEF StartInit, RInv, Overlap, Busy, LateIsRaced, ErrorsLast, SequentialInitsAgree,
      Errors

LEMMA EnterRInv ==
  ASSUME IInv, RInv, NEW a \in Call, NEW v, NEW c, Enter(a, v, c),
         NEW s \in Steps, pc' = [pc EXCEPT ![a] = s],
         s = "reading" => FALSE,
         s = "setting" => v \in {"from_string", "raw"},
         UNCHANGED error \/ (s = "failed" /\ error' = [error EXCEPT ![a] = "Config"]),
         UNCHANGED SSR_BUNDLE
  PROVE  RInv'
<1> DEFINE busy == {b \in Call : Busy(b)}
<1>1. /\ pc[a] = "idle" /\ pc'[a] = s /\ \A b \in Call \ {a} : pc'[b] = pc[b]
      /\ via'[a] = v /\ \A b \in Call \ {a} : via'[b] = via[b]
      /\ raced' = IF busy = {} THEN raced ELSE raced \cup busy \cup {a}
  BY DEF Enter, Busy, IInv, Shape
<1>2. ErrorsLast' /\ (\A b \in Call \ {a} : error'[b] = error[b]) /\ error'[a] # "AlreadySet"
  BY <1>1, StartupConstants DEF RInv, ErrorsLast, Errors
<1>3. Overlap'
  <2> SUFFICES ASSUME NEW x \in Call, NEW y \in Call, x # y, Busy(x)', Busy(y)'
               PROVE  x \in raced' /\ y \in raced'
    BY DEF Overlap
  <2>1. CASE x # a /\ y # a
    BY <1>1, <2>1 DEF RInv, Overlap, Busy
  <2>2. CASE x = a \/ y = a
    BY <1>1, <2>2 DEF Busy
  <2> QED
    BY <2>1, <2>2
<1>4. LateIsRaced'
  BY <1>1 DEF RInv, LateIsRaced
<1>5. SequentialInitsAgree'
  BY <1>1, <1>2 DEF RInv, SequentialInitsAgree
<1> QED
  BY <1>2, <1>3, <1>4, <1>5 DEF RInv

LEMMA BeginRInv == ASSUME IInv, RInv, NEW a \in Call, Begin(a) PROVE RInv'
<1> USE DEF Move, Fail, Steps
<1>1. ASSUME NEW b \in Builders, BuildEngine(a, b) PROVE RInv'
  BY <1>1, EnterRInv DEF BuildEngine
<1>2. ASSUME NEW c \in Literals, NewEngine(a, c) PROVE RInv'
  BY <1>2, EnterRInv DEF NewEngine
<1>3. ASSUME NEW p \in Path, InitBundle(a, p) PROVE RInv'
  BY <1>3, EnterRInv DEF InitBundle
<1>4. ASSUME NEW v \in {"from_string", "raw"}, NEW s \in Strings, GiveText(a, v, s) PROVE RInv'
  BY <1>4, EnterRInv DEF GiveText
<1>5. ASSUME NewPool(a) PROVE RInv'
  BY <1>5, EnterRInv DEF NewPool
<1> QED
  BY <1>1, <1>2, <1>3, <1>4, <1>5 DEF Begin

\* When a call fills the cell, every other one that is past its check overlaps.
LEMMA CallRInv == ASSUME IInv, RInv, NEW a \in Call, Step(a) PROVE RInv'
<1> USE DEF Move, Fail, Ready
<1>1. /\ Busy(a) /\ UNCHANGED <<via, raced>>
      /\ \A b \in Call \ {a} : pc'[b] = pc[b] /\ error'[b] = error[b]
      /\ pc'[a] \in {"reading", "setting", "spawning", "ok", "failed"}
      /\ error' = [b \in Call |-> error'[b]]
      /\ error'[a] = error[a] \/ (pc'[a] = "failed" /\ error'[a] \in Errors)
      /\ pc'[a] = "setting" => pc[a] = "reading"
      /\ pc'[a] = "reading" => SSR_BUNDLE = None
      /\ SSR_BUNDLE' # SSR_BUNDLE => SSR_BUNDLE = None /\ pc[a] = "setting" /\ pc'[a] \in {"spawning", "ok"}
      /\ error'[a] = "AlreadySet" /\ error[a] # "AlreadySet" => pc[a] = "setting" /\ SSR_BUNDLE # None
  BY DEF Step, CheckCell, ReadFile, SetCell, Spawn, Busy, Errors, RInv, ErrorsLast, IInv, Shape
<1>2. Overlap'
  BY <1>1 DEF RInv, Overlap, Busy
<1>3. LateIsRaced'
  <2> SUFFICES ASSUME NEW b \in Call, pc'[b] \in {"reading", "setting"}, SSR_BUNDLE' # None
               PROVE  b \in raced' \/ via'[b] \in {"from_string", "raw"}
    BY DEF LateIsRaced
  <2>1. CASE SSR_BUNDLE' = SSR_BUNDLE
    BY <1>1, <2>1 DEF RInv, LateIsRaced
  <2>2. CASE SSR_BUNDLE' # SSR_BUNDLE
    BY <1>1, <2>2 DEF RInv, Overlap, Busy
  <2> QED
    BY <2>1, <2>2
<1>4. ErrorsLast'
  BY <1>1 DEF RInv, ErrorsLast, Busy
<1>5. SequentialInitsAgree'
  BY <1>1 DEF RInv, SequentialInitsAgree, LateIsRaced
<1> QED
  BY <1>2, <1>3, <1>4, <1>5 DEF RInv

LEMMA StepRInv == ASSUME IInv, RInv, [StartNext]_start PROVE RInv'
<1>1. ASSUME UNCHANGED <<pc, via, error, raced, SSR_BUNDLE>> PROVE RInv'
  BY <1>1 DEF RInv, Overlap, Busy, LateIsRaced, ErrorsLast, SequentialInitsAgree
<1>2. ASSUME NEW a \in Call, NEW w \in DOMAIN workers[a],
             StartWorker(a, w) \/ CrashWorker(a, w)
      PROVE  RInv'
  BY <1>1, <1>2 DEF StartWorker, CrashWorker
<1>3. ASSUME NEW p \in Path, NEW s \in Strings, Deploy(p, s) PROVE RInv'
  BY <1>1, <1>3 DEF Deploy, own
<1>4. ASSUME UNCHANGED start PROVE RInv'
  BY <1>1, <1>4 DEF start, own
<1> QED
  BY <1>2, <1>3, <1>4, BeginRInv, CallRInv DEF StartNext

\* `Bundle already initialized` is only ever the answer to an engine or a path
\* whose call overlapped another (bundle.rs:185, 201): between the early return
\* for a full cell and the set, only a call under way at the same time can have
\* filled it.
THEOREM OnlyOverlapsFail == StartSpec => []SequentialInitsAgree
<1>1. StartSpec => []RInv
  BY InitRInv, StepRInv, Inductive, PTL DEF StartSpec
<1>2. RInv => SequentialInitsAgree
  BY DEF RInv
<1> QED
  BY <1>1, <1>2, PTL


-----------------------------------------------------------------------------
\* A URL and the literal it is escaped to.

\* Induction up to n, on a set.
LEMMA UpTo ==
  ASSUME NEW n \in Nat, NEW B, 0 \in B, \A i \in 1 .. n : i - 1 \in B => i \in B
  PROVE  0 .. n \subseteq B
<1> SUFFICES ASSUME 0 .. n \ B # {} PROVE FALSE
  OBVIOUS
<1> DEFINE Less == {p \in Nat \X Nat : p[1] < p[2]}
           Out == 0 .. n \ B
<1>1. Out \subseteq Nat /\ Out # {}
  OBVIOUS
<1>2. OpToRel(<, Nat) = Less
  BY Zenon DEF OpToRel
<1>3. IsWellFoundedOn(Less, Nat)
  BY <1>2, NatLessThanWellFounded, Zenon
<1>4. PICK i \in Out : \A j \in Out : ~(<<j, i>> \in Less)
  BY <1>1, <1>3, WFMin, Zenon
<1>5. i \in 0 .. n /\ i \notin B /\ i # 0
  OBVIOUS
<1>6. i - 1 \in 0 .. n /\ i \in 1 .. n /\ <<i - 1, i>> \in Less
  BY <1>5
<1>7. i - 1 \in B
  BY <1>4, <1>6
<1> QED
  BY <1>5, <1>6, <1>7

\* FlattenSeq, without the choice.
Flat(g, q, n) == g = [i \in 1 .. n |-> IF i = 1 THEN q[i] ELSE g[i - 1] \o q[i]]

LEMMA FlatAt ==
  ASSUME NEW q, NEW n, NEW g, Flat(g, q, n), NEW i \in 1 .. n
  PROVE  g[i] = IF i = 1 THEN q[i] ELSE g[i - 1] \o q[i]
  BY DEF Flat

LEMMA FlatExists ==
  ASSUME NEW q, NEW n \in Nat
  PROVE  \E g : Flat(g, q, n)
<1> DEFINE B == {m \in 0 .. n : \E g : Flat(g, q, m)}
<1>1. 0 \in B
  <2> DEFINE g == [i \in 1 .. 0 |-> q]
  <2>1. g = [i \in 1 .. 0 |-> IF i = 1 THEN q[i] ELSE g[i - 1] \o q[i]]
    OBVIOUS
  <2> HIDE DEF g
  <2>2. Flat(g, q, 0)
    BY <2>1 DEF Flat
  <2> QED
    BY <2>2
<1>2. ASSUME NEW m \in 1 .. n, m - 1 \in B PROVE m \in B
  <2>1. PICK g : Flat(g, q, m - 1)
    BY <1>2
  <2> DEFINE h == [i \in 1 .. m |-> IF i = m THEN (IF m = 1 THEN q[m] ELSE g[m - 1] \o q[m])
                                    ELSE g[i]]
  <2>2. ASSUME NEW i \in 1 .. m
        PROVE  h[i] = IF i = 1 THEN q[i] ELSE h[i - 1] \o q[i]
    <3>1. CASE i = m
      BY <3>1
    <3>2. CASE i # m
      <4>0. i \in 1 .. m - 1
        BY <3>2
      <4>1. g[i] = IF i = 1 THEN q[i] ELSE g[i - 1] \o q[i]
        BY <2>1, <4>0 DEF Flat
      <4>2. i # 1 => i - 1 \in 1 .. m /\ i - 1 # m
        BY <4>0
      <4> QED
        BY <3>2, <4>0, <4>1, <4>2
    <3> QED
      BY <3>1, <3>2
  <2>3. h = [i \in 1 .. m |-> h[i]]
    OBVIOUS
  <2> HIDE DEF h
  <2>4. Flat(h, q, m)
    BY <2>2, <2>3 DEF Flat
  <2> QED
    BY <2>4
<1> HIDE DEF B
<1>3. 0 .. n \subseteq B
  BY <1>1, <1>2, UpTo
<1> QED
  BY <1>3 DEF B

\* Two sequences with the same beginning.
Agree(q, p, k) == \A i \in 1 .. k : q[i] = p[i]

LEMMA FlatUnique ==
  ASSUME NEW q, NEW p, NEW n \in Nat, NEW m \in Nat, NEW g, NEW h, NEW k \in Nat,
         k <= n, k <= m, Flat(g, q, n), Flat(h, p, m), Agree(q, p, k)
  PROVE  Agree(g, h, k)
<1> DEFINE B == {i \in 0 .. k : i = 0 \/ g[i] = h[i]}
<1>1. 0 \in B
  OBVIOUS
<1>2. ASSUME NEW i \in 1 .. k, i - 1 \in B PROVE i \in B
  <2>1. i \in 1 .. n /\ i \in 1 .. m
    OBVIOUS
  <2>2. /\ g[i] = IF i = 1 THEN q[i] ELSE g[i - 1] \o q[i]
        /\ h[i] = IF i = 1 THEN p[i] ELSE h[i - 1] \o p[i]
    BY <2>1 DEF Flat
  <2> QED
    BY <1>2, <2>2 DEF Agree
<1> HIDE DEF B
<1>3. 0 .. k \subseteq B
  BY <1>1, <1>2, UpTo
<1> QED
  BY <1>3 DEF B, Agree

LEMMA FlattenIs ==
  ASSUME NEW q, Len(q) \in Nat, Len(q) # 0
  PROVE  \E g : Flat(g, q, Len(q)) /\ FlattenSeq(q) = g[Len(q)]
<1> DEFINE g == CHOOSE f : Flat(f, q, Len(q))
<1>1. Flat(g, q, Len(q))
  BY FlatExists
<1>2. FlattenSeq(q) = g[Len(q)]
  BY DEF FlattenSeq, Flat
<1> HIDE DEF g
<1> QED
  BY <1>1, <1>2

LEMMA FlattenSnoc ==
  ASSUME NEW T, NEW q \in Seq(Seq(T)), NEW x \in Seq(T)
  PROVE  FlattenSeq(Append(q, x)) = FlattenSeq(q) \o x
<1> DEFINE r == Append(q, x)
<1> PICK n \in Nat : n = Len(q)
  OBVIOUS
<1>1. Len(r) = n + 1 /\ r[n + 1] = x /\ \A i \in 1 .. n : q[i] = r[i]
  OBVIOUS
<1> HIDE DEF r
<1>2. PICK h : Flat(h, r, n + 1) /\ FlattenSeq(r) = h[n + 1]
  <2>1. Len(r) \in Nat /\ Len(r) # 0
    BY <1>1
  <2> QED
    BY <1>1, <2>1, FlattenIs
<1>3. h[n + 1] = IF n = 0 THEN x ELSE h[n] \o x
  <2>1. n + 1 \in 1 .. n + 1
    OBVIOUS
  <2>2. h[n + 1] = IF n + 1 = 1 THEN r[n + 1] ELSE h[n + 1 - 1] \o r[n + 1]
    BY <1>2, <2>1, FlatAt
  <2>3. n + 1 - 1 = n /\ (n + 1 = 1 <=> n = 0)
    OBVIOUS
  <2> QED
    BY <1>1, <2>2, <2>3
<1>4. CASE n = 0
  <2>1. FlattenSeq(q) = q /\ q = << >>
    <3>1. Len(q) = 0
      BY <1>4
    <3>2. q = << >>
      BY <3>1
    <3> QED
      BY <3>1, <3>2, Zenon DEF FlattenSeq
  <2> QED
    BY <1>1, <1>2, <1>3, <1>4, <2>1 DEF r
<1>5. CASE n # 0
  <2>1. PICK g : Flat(g, q, n) /\ FlattenSeq(q) = g[n]
    BY <1>5, FlattenIs
  <2>2. g[n] = h[n]
    <3>1. n \in Nat /\ n <= n /\ n <= n + 1 /\ n + 1 \in Nat /\ n \in 1 .. n
      BY <1>5
    <3>2. Flat(g, q, n) /\ Flat(h, r, n + 1) /\ Agree(q, r, n)
      BY <1>1, <1>2, <2>1 DEF Agree
    <3>3. Agree(g, h, n)
      BY <3>1, <3>2, FlatUnique
    <3> QED
      BY <3>1, <3>3 DEF Agree
  <2> QED
    BY <1>1, <1>2, <1>3, <1>5, <2>1, <2>2 DEF r
<1> QED
  BY <1>4, <1>5

LEMMA FlattenEmpty == FlattenSeq(<< >>) = << >>
  BY DEF FlattenSeq

\* What a token becomes.
Piece(d, c, r) == IF d = c THEN r ELSE <<d>>

LEMMA PieceType ==
  ASSUME NEW T, NEW d \in T, NEW c, NEW r \in Seq(T)
  PROVE  Piece(d, c, r) \in Seq(T)
<1>1. <<d>> \in Seq(T)
  OBVIOUS
<1> QED
  BY <1>1 DEF Piece

LEMMA ReplaceSnoc ==
  ASSUME NEW T, NEW s \in Seq(T), NEW d \in T, NEW c, NEW r \in Seq(T)
  PROVE  Replace(Append(s, d), c, r) = Replace(s, c, r) \o Piece(d, c, r)
<1> DEFINE pieces == [i \in DOMAIN s |-> Piece(s[i], c, r)]
           longer == [i \in DOMAIN Append(s, d) |-> Piece(Append(s, d)[i], c, r)]
<1> PICK n \in Nat : n = Len(s)
  OBVIOUS
<1>1. pieces \in Seq(Seq(T)) /\ Len(pieces) = n
  <2>1. \A i \in 1 .. n : s[i] \in T
    OBVIOUS
  <2>2. \A i \in 1 .. n : Piece(s[i], c, r) \in Seq(T)
    BY <2>1, PieceType
  <2>3. pieces = [i \in 1 .. n |-> Piece(s[i], c, r)]
    OBVIOUS
  <2> HIDE DEF pieces
  <2> QED
    BY <2>2, <2>3
<1>2. Piece(d, c, r) \in Seq(T)
  BY PieceType
<1>3. longer = Append(pieces, Piece(d, c, r))
  <2>1. /\ DOMAIN s = 1 .. n /\ DOMAIN Append(s, d) = 1 .. n + 1
        /\ Append(s, d)[n + 1] = d /\ \A i \in 1 .. n : Append(s, d)[i] = s[i]
    OBVIOUS
  <2> DEFINE both == Append(pieces, Piece(d, c, r))
  <2>2. /\ both = [i \in 1 .. n + 1 |-> both[i]]
        /\ both[n + 1] = Piece(d, c, r) /\ \A i \in 1 .. n : both[i] = pieces[i]
    <3> DEFINE p == Piece(d, c, r)
    <3>1. /\ both \in Seq(Seq(T)) /\ Len(both) = n + 1 /\ both[n + 1] = p
          /\ \A i \in 1 .. n : both[i] = pieces[i]
      <4> HIDE DEF pieces, p
      <4> QED
        BY <1>1, <1>2 DEF p
    <3> HIDE DEF both, p
    <3>2. both = [i \in 1 .. Len(both) |-> both[i]]
      BY <3>1
    <3> QED
      BY <3>1, <3>2 DEF p
  <2>3. \A i \in 1 .. n : pieces[i] = Piece(s[i], c, r)
    BY <2>1
  <2>4. longer = [i \in 1 .. n + 1 |-> Piece(Append(s, d)[i], c, r)]
    BY <2>1
  <2> HIDE DEF longer, both, pieces
  <2>5. \A i \in 1 .. n + 1 : both[i] = Piece(Append(s, d)[i], c, r)
    <3> TAKE i \in 1 .. n + 1
    <3>1. i = n + 1 \/ i \in 1 .. n
      OBVIOUS
    <3> QED
      BY <2>1, <2>2, <2>3, <3>1
  <2>6. longer = both
    BY <2>2, <2>4, <2>5, Zenon
  <2> QED
    BY <2>6 DEF both
<1>4. Replace(s, c, r) = FlattenSeq(pieces) /\ Replace(Append(s, d), c, r) = FlattenSeq(longer)
  BY Zenon DEF Replace, Piece
<1> HIDE DEF pieces, longer
<1> QED
  BY <1>1, <1>2, <1>3, <1>4, FlattenSnoc

LEMMA ReplaceEmpty == ASSUME NEW c, NEW r PROVE Replace(<< >>, c, r) = << >>
<1>1. [i \in DOMAIN << >> |-> IF << >>[i] = c THEN r ELSE <<<< >>[i]>>] = << >>
  OBVIOUS
<1> QED
  BY <1>1, FlattenEmpty DEF Replace

\* The token reader over a whole sequence.
Reads(g, q, n) == g = [i \in 0 .. n |-> IF i = 0 THEN Opened ELSE ReadToken(g[i - 1], q[i])]

LEMMA ReadsAt ==
  ASSUME NEW q, NEW n, NEW g, Reads(g, q, n), NEW i \in 0 .. n
  PROVE  g[i] = IF i = 0 THEN Opened ELSE ReadToken(g[i - 1], q[i])
  BY DEF Reads

LEMMA ReadsExists ==
  ASSUME NEW q, NEW n \in Nat
  PROVE  \E g : Reads(g, q, n)
<1> DEFINE B == {m \in 0 .. n : \E g : Reads(g, q, m)}
<1>1. 0 \in B
  <2> DEFINE g == [i \in 0 .. 0 |-> Opened]
  <2>1. g = [i \in 0 .. 0 |-> IF i = 0 THEN Opened ELSE ReadToken(g[i - 1], q[i])]
    OBVIOUS
  <2> HIDE DEF g
  <2>2. Reads(g, q, 0)
    BY <2>1 DEF Reads
  <2> QED
    BY <2>2
<1>2. ASSUME NEW m \in 1 .. n, m - 1 \in B PROVE m \in B
  <2>1. PICK g : Reads(g, q, m - 1)
    BY <1>2
  <2> DEFINE h == [i \in 0 .. m |-> IF i = m THEN ReadToken(g[m - 1], q[m]) ELSE g[i]]
  <2>2. ASSUME NEW i \in 0 .. m
        PROVE  h[i] = IF i = 0 THEN Opened ELSE ReadToken(h[i - 1], q[i])
    <3>1. CASE i = m
      <4>1. i # 0 /\ i - 1 \in 0 .. m /\ i - 1 # m
        BY <3>1
      <4>2. h[i - 1] = g[m - 1] /\ h[i] = ReadToken(g[m - 1], q[m])
        BY <3>1, <4>1
      <4> QED
        BY <3>1, <4>1, <4>2
    <3>2. CASE i # m
      <4>0. i \in 0 .. m - 1
        BY <3>2
      <4>1. g[i] = IF i = 0 THEN Opened ELSE ReadToken(g[i - 1], q[i])
        BY <2>1, <4>0 DEF Reads
      <4>2. i # 0 => i - 1 \in 0 .. m /\ i - 1 # m
        BY <4>0
      <4> QED
        BY <3>2, <4>0, <4>1, <4>2
    <3> QED
      BY <3>1, <3>2
  <2>3. h = [i \in 0 .. m |-> h[i]]
    OBVIOUS
  <2> HIDE DEF h
  <2>4. Reads(h, q, m)
    BY <2>2, <2>3 DEF Reads
  <2> QED
    BY <2>4
<1> HIDE DEF B
<1>3. 0 .. n \subseteq B
  BY <1>1, <1>2, UpTo
<1> QED
  BY <1>3 DEF B

LEMMA ReadsUnique ==
  ASSUME NEW q, NEW p, NEW n \in Nat, NEW m \in Nat, NEW g, NEW h, NEW k \in Nat,
         k <= n, k <= m, Reads(g, q, n), Reads(h, p, m), Agree(q, p, k)
  PROVE  g[k] = h[k]
<1> DEFINE B == {i \in 0 .. k : g[i] = h[i]}
<1>1. 0 \in B
  <2>1. 0 \in 0 .. n /\ 0 \in 0 .. m
    OBVIOUS
  <2> QED
    BY <2>1 DEF Reads
<1>2. ASSUME NEW i \in 1 .. k, i - 1 \in B PROVE i \in B
  <2>1. i \in 0 .. n /\ i \in 0 .. m /\ i # 0
    OBVIOUS
  <2>2. g[i] = ReadToken(g[i - 1], q[i]) /\ h[i] = ReadToken(h[i - 1], p[i])
    BY <2>1 DEF Reads
  <2> QED
    BY <1>2, <2>2 DEF Agree
<1> HIDE DEF B
<1>3. 0 .. k \subseteq B
  BY <1>1, <1>2, UpTo
<1> QED
  BY <1>3 DEF B

\* Reading whole sequences, from one that has been read one token more.
Read(s) ==
    LET read[i \in 0 .. Len(s)] == IF i = 0 THEN Opened ELSE ReadToken(read[i - 1], s[i])
    IN  read[Len(s)]

LEMMA LiteralIsRead == ASSUME NEW s PROVE Literal(s) = Read(Append(s, Quote))
  BY DEF Literal, Read

LEMMA ReadIs ==
  ASSUME NEW q, Len(q) \in Nat
  PROVE  \E g : Reads(g, q, Len(q)) /\ Read(q) = g[Len(q)]
<1> DEFINE g == CHOOSE f : Reads(f, q, Len(q))
<1>1. Reads(g, q, Len(q))
  BY ReadsExists
<1>2. Read(q) = g[Len(q)]
  BY DEF Read, Reads
<1> HIDE DEF g
<1> QED
  BY <1>1, <1>2

LEMMA ReadSnoc ==
  ASSUME NEW T, NEW q \in Seq(T), NEW x \in T
  PROVE  Read(Append(q, x)) = ReadToken(Read(q), x)
<1> DEFINE r == Append(q, x)
<1> PICK n \in Nat : n = Len(q)
  OBVIOUS
<1>1. Len(r) = n + 1 /\ r[n + 1] = x /\ \A i \in 1 .. n : q[i] = r[i]
  OBVIOUS
<1> HIDE DEF r
<1>2. PICK h : Reads(h, r, n + 1) /\ Read(r) = h[n + 1]
  BY <1>1, ReadIs
<1>3. PICK g : Reads(g, q, n) /\ Read(q) = g[n]
  BY ReadIs
<1>4. g[n] = h[n]
  <2>1. n \in Nat /\ n <= n /\ n <= n + 1 /\ n + 1 \in Nat /\ n \in 0 .. n
    OBVIOUS
  <2>2. Reads(g, q, n) /\ Reads(h, r, n + 1) /\ Agree(q, r, n)
    BY <1>1, <1>2, <1>3 DEF Agree
  <2> QED
    BY <2>1, <2>2, ReadsUnique
<1>5. h[n + 1] = ReadToken(h[n], x)
  <2>1. n + 1 \in 0 .. n + 1 /\ n + 1 # 0 /\ n + 1 - 1 = n
    OBVIOUS
  <2>2. h[n + 1] = IF n + 1 = 0 THEN Opened ELSE ReadToken(h[n + 1 - 1], r[n + 1])
    BY <1>2, <2>1, ReadsAt
  <2> QED
    BY <1>1, <2>1, <2>2
<1> QED
  BY <1>2, <1>3, <1>4, <1>5 DEF r

LEMMA ReadEmpty == Read(<< >>) = Opened
<1>1. PICK g : Reads(g, << >>, 0) /\ Read(<< >>) = g[0]
  BY ReadIs
<1>2. 0 \in 0 .. 0
  OBVIOUS
<1> QED
  BY <1>1, <1>2, ReadsAt

-----------------------------------------------------------------------------
\* The provers do not know that a literal is a STRING.
Token == STRING \cup {Quote, Backslash, Break}

LEMMA Tokens ==
  /\ Quote \in Token /\ Backslash \in Token /\ Break \in Token
  /\ Quote # Backslash /\ Quote # Break /\ Backslash # Break
<1>1. Quote \in Token /\ Backslash \in Token /\ Break \in Token
  BY DEF Token
<1>2. Quote # Backslash /\ Quote # Break /\ Backslash # Break
  BY DEF Quote, Backslash, Break
<1> QED
  BY <1>1, <1>2

LEMMA Appended ==
  ASSUME NEW T, NEW q \in Seq(T), NEW x \in T, NEW y \in T
  PROVE  /\ q \o <<x>> = Append(q, x) /\ q \o <<x, y>> = Append(Append(q, x), y)
         /\ Append(q, x) \in Seq(T) /\ <<x, y>> \in Seq(T)
<1>1. q \o <<x>> = Append(q, x)
  OBVIOUS
<1>2. q \o <<x, y>> = Append(Append(q, x), y)
  OBVIOUS
<1> QED
  BY <1>1, <1>2

LEMMA ReplaceOther ==
  ASSUME NEW T, NEW s \in Seq(T), NEW d \in T, NEW c, NEW r \in Seq(T), d # c,
         Replace(s, c, r) \in Seq(T)
  PROVE  Replace(Append(s, d), c, r) = Append(Replace(s, c, r), d)
<1>1. Replace(Append(s, d), c, r) = Replace(s, c, r) \o Piece(d, c, r)
  BY ReplaceSnoc
<1>2. Piece(d, c, r) = <<d>>
  BY DEF Piece
<1> QED
  BY <1>1, <1>2, Appended

LEMMA ReplaceHit ==
  ASSUME NEW T, NEW s \in Seq(T), NEW c \in T, NEW x \in T, NEW y \in T,
         Replace(s, c, <<x, y>>) \in Seq(T)
  PROVE  Replace(Append(s, c), c, <<x, y>>) = Append(Append(Replace(s, c, <<x, y>>), x), y)
<1> DEFINE r == <<x, y>>
<1>1. r \in Seq(T)
  BY Appended
<1>2. Replace(Append(s, c), c, r) = Replace(s, c, r) \o Piece(c, c, r)
  <2> HIDE DEF r
  <2> QED
    BY <1>1, ReplaceSnoc
<1>3. Piece(c, c, r) = r
  BY DEF Piece
<1>4. Replace(s, c, r) \o r = Append(Append(Replace(s, c, r), x), y)
  BY Appended
<1> QED
  BY <1>2, <1>3, <1>4, Zenon

\* How one token more is escaped.
LEMMA EscapedSnoc ==
  ASSUME NEW s \in Seq(Token), NEW d \in Token,
         Replace(s, Backslash, <<Backslash, Backslash>>) \in Seq(Token),
         EscapedUrl(s) \in Seq(Token)
  PROVE  /\ EscapedUrl(Append(s, d)) =
              IF d = Backslash THEN Append(Append(EscapedUrl(s), Backslash), Backslash)
              ELSE IF d = Quote THEN Append(Append(EscapedUrl(s), Backslash), Quote)
              ELSE Append(EscapedUrl(s), d)
         /\ Replace(Append(s, d), Backslash, <<Backslash, Backslash>>) \in Seq(Token)
<1> DEFINE two == <<Backslash, Backslash>>
           quoted == <<Backslash, Quote>>
           once == Replace(s, Backslash, two)
           twice == Replace(once, Quote, quoted)
<1>0. quoted \in Seq(Token) /\ two \in Seq(Token)
  BY Appended, Tokens
<1>1. once \in Seq(Token) /\ twice \in Seq(Token) /\ twice = EscapedUrl(s)
  BY DEF EscapedUrl
<1>2. \A t : EscapedUrl(t) = Replace(Replace(t, Backslash, two), Quote, quoted)
  BY DEF EscapedUrl
<1>3. CASE d = Backslash
  <2>1. Replace(Append(s, d), Backslash, two) = Append(Append(once, Backslash), Backslash)
    <3>1. Replace(Append(s, Backslash), Backslash, two) = Append(Append(once, Backslash), Backslash)
      BY ReplaceHit, Tokens
    <3> QED
      BY <1>3, <3>1
  <2> HIDE DEF once, two, quoted
  <2>2. Append(once, Backslash) \in Seq(Token) /\ Append(twice, Backslash) \in Seq(Token)
    BY <1>1, Appended, Tokens
  <2>3. Append(Append(once, Backslash), Backslash) \in Seq(Token)
    BY <2>2, Appended, Tokens
  <2>4. Replace(Append(once, Backslash), Quote, quoted) = Append(twice, Backslash)
    BY <1>0, <1>1, ReplaceOther, Tokens
  <2>5. Replace(Append(Append(once, Backslash), Backslash), Quote, quoted)
          = Append(Append(twice, Backslash), Backslash)
    <3> DEFINE first == Append(once, Backslash)
    <3>1. first \in Seq(Token) /\ Replace(first, Quote, quoted) \in Seq(Token)
      BY <2>2, <2>4
    <3> HIDE DEF first
    <3>2. Replace(Append(first, Backslash), Quote, quoted)
            = Append(Replace(first, Quote, quoted), Backslash)
      BY <1>0, <3>1, ReplaceOther, Tokens
    <3> QED
      BY <2>4, <3>2 DEF first
  <2>6. EscapedUrl(Append(s, d)) = Append(Append(twice, Backslash), Backslash)
    BY <1>2, <2>1, <2>5
  <2> QED
    BY <1>1, <1>3, <2>1, <2>3, <2>6 DEF two
<1>4. CASE d # Backslash
  <2> HIDE DEF once, two, quoted
  <2>1. Replace(Append(s, d), Backslash, two) = Append(once, d)
    BY <1>0, <1>1, <1>4, ReplaceOther, Tokens DEF once
  <2>2. Append(once, d) \in Seq(Token)
    BY <1>1, Appended, Tokens
  <2>3. d # Quote => Replace(Append(once, d), Quote, quoted) = Append(twice, d)
    BY <1>0, <1>1, ReplaceOther, Tokens
  <2>4. d = Quote => Replace(Append(once, d), Quote, quoted) = Append(Append(twice, Backslash), Quote)
    <3> USE DEF quoted
    <3> QED
      BY <1>1, ReplaceHit, Tokens
  <2>5. EscapedUrl(Append(s, d)) = Replace(Append(once, d), Quote, quoted)
    BY <1>2, <2>1
  <2>6. EscapedUrl(Append(s, d)) = IF d = Quote THEN Append(Append(twice, Backslash), Quote)
                                   ELSE Append(twice, d)
    BY <2>3, <2>4, <2>5
  <2> QED
    BY <1>1, <1>4, <2>1, <2>2, <2>6 DEF two
<1> QED
  BY <1>3, <1>4

Broken(s) == \E i \in DOMAIN s : s[i] = Break

Bad(lit) == lit \in [state : {"bad"}, value : Seq(Token)]

\* What has been read of an escaped URL.
ReadBack(lit, s) == IF Broken(s) THEN Bad(lit) ELSE lit = [state |-> "open", value |-> s]

LEMMA ReadTokenFacts ==
  ASSUME NEW c \in Token
  PROVE  /\ \A lit : Bad(lit) => Bad(ReadToken(lit, c))
         /\ \A v \in Seq(Token) : LET lit == [state |-> "open", value |-> v] IN
              /\ c = Break => Bad(ReadToken(lit, c))
              /\ c = Quote => ReadToken(lit, c) = [state |-> "closed", value |-> v]
              /\ c \notin {Break, Quote, Backslash}
                   => ReadToken(lit, c) = [state |-> "open", value |-> Append(v, c)]
              /\ c \in {Backslash, Quote}
                   => ReadToken(ReadToken(lit, Backslash), c)
                        = [state |-> "open", value |-> Append(v, c)]
<1> USE Tokens
<1>1. ASSUME NEW lit, Bad(lit) PROVE Bad(ReadToken(lit, c))
  <2>1. lit.state = "bad"
    BY <1>1 DEF Bad
  <2>2. ReadToken(lit, c) = [lit EXCEPT !.state = "bad"]
    BY <2>1 DEF ReadToken
  <2> QED
    BY <1>1, <2>2 DEF Bad
<1>2. ASSUME NEW v \in Seq(Token)
      PROVE  LET lit == [state |-> "open", value |-> v] IN
              /\ c = Break => Bad(ReadToken(lit, c))
              /\ c = Quote => ReadToken(lit, c) = [state |-> "closed", value |-> v]
              /\ c \notin {Break, Quote, Backslash}
                   => ReadToken(lit, c) = [state |-> "open", value |-> Append(v, c)]
              /\ c \in {Backslash, Quote}
                   => ReadToken(ReadToken(lit, Backslash), c)
                        = [state |-> "open", value |-> Append(v, c)]
  <2> DEFINE lit == [state |-> "open", value |-> v]
             esc == [state |-> "escape", value |-> v]
  <2>1. c = Break => Bad(ReadToken(lit, c))
    <3>1. [lit EXCEPT !.state = "bad"] = [state |-> "bad", value |-> v]
      OBVIOUS
    <3> QED
      BY <3>1 DEF ReadToken, Bad
  <2>2. c = Quote => ReadToken(lit, c) = [state |-> "closed", value |-> v]
    <3>1. [lit EXCEPT !.state = "closed"] = [state |-> "closed", value |-> v]
      OBVIOUS
    <3> QED
      BY <3>1 DEF ReadToken
  <2>3. c \notin {Break, Quote, Backslash}
          => ReadToken(lit, c) = [state |-> "open", value |-> Append(v, c)]
    <3>1. [lit EXCEPT !.value = Append(@, c)] = [state |-> "open", value |-> Append(v, c)]
      OBVIOUS
    <3> QED
      BY <3>1 DEF ReadToken
  <2>4. ReadToken(lit, Backslash) = esc
    <3>1. [lit EXCEPT !.state = "escape"] = esc
      OBVIOUS
    <3> QED
      BY <3>1 DEF ReadToken
  <2>5. ReadToken(esc, c) = [state |-> "open", value |-> Append(v, c)]
    BY DEF ReadToken
  <2> QED
    BY <2>1, <2>2, <2>3, <2>4, <2>5
<1> QED
  BY <1>1, <1>2

LEMMA EscapedEmpty == EscapedUrl(<< >>) = << >>
  BY ReplaceEmpty DEF EscapedUrl

\* Reading back, one token of the URL after the other.
LEMMA ReadBackSnoc ==
  ASSUME NEW s \in Seq(Token), NEW d \in Token,
         Replace(s, Backslash, <<Backslash, Backslash>>) \in Seq(Token),
         EscapedUrl(s) \in Seq(Token), ReadBack(Read(EscapedUrl(s)), s)
  PROVE  /\ EscapedUrl(Append(s, d)) \in Seq(Token)
         /\ ReadBack(Read(EscapedUrl(Append(s, d))), Append(s, d))
<1> DEFINE e == EscapedUrl(s)
           f == EscapedUrl(Append(s, d))
           lit == Read(e)
<1> USE Tokens
<1>1. Broken(Append(s, d)) <=> Broken(s) \/ d = Break
  <2> PICK n \in Nat : n = Len(s)
    OBVIOUS
  <2> DEFINE t == Append(s, d)
  <2>1. /\ DOMAIN s = 1 .. n /\ DOMAIN t = 1 .. n + 1
        /\ t[n + 1] = d /\ \A i \in 1 .. n : t[i] = s[i]
    OBVIOUS
  <2> HIDE DEF t
  <2>2. \A i \in 1 .. n + 1 : i = n + 1 \/ i \in 1 .. n
    OBVIOUS
  <2>3. Broken(t) <=> \E i \in 1 .. n + 1 : t[i] = Break
    BY <2>1 DEF Broken
  <2>4. Broken(s) <=> \E i \in 1 .. n : s[i] = Break
    BY <2>1 DEF Broken
  <2>5. n + 1 \in 1 .. n + 1 /\ \A i \in 1 .. n : i \in 1 .. n + 1
    OBVIOUS
  <2>6. Broken(t) <=> Broken(s) \/ d = Break
    BY <2>1, <2>2, <2>3, <2>4, <2>5
  <2> QED
    BY <2>6 DEF t
<1>2. e \in Seq(Token) /\ Append(s, d) \in Seq(Token)
  OBVIOUS
<1>3. f = IF d = Backslash THEN Append(Append(e, Backslash), Backslash)
          ELSE IF d = Quote THEN Append(Append(e, Backslash), Quote) ELSE Append(e, d)
  BY EscapedSnoc
<1> HIDE DEF e, f
<1>4. /\ Append(e, Backslash) \in Seq(Token) /\ Append(e, d) \in Seq(Token)
      /\ f \in Seq(Token)
  <2>1. \A q \in Seq(Token) : \A x \in Token : Append(q, x) \in Seq(Token)
    OBVIOUS
  <2>2. Append(e, Backslash) \in Seq(Token) /\ Append(e, d) \in Seq(Token)
    BY <1>2, <2>1
  <2>3. /\ Append(Append(e, Backslash), Backslash) \in Seq(Token)
        /\ Append(Append(e, Backslash), Quote) \in Seq(Token)
    BY <2>1, <2>2
  <2> QED
    BY <1>3, <2>2, <2>3
<1>5. Read(f) = IF d \in {Backslash, Quote} THEN ReadToken(ReadToken(lit, Backslash), d)
                ELSE ReadToken(lit, d)
  <2>1. /\ Read(Append(e, Backslash)) = ReadToken(lit, Backslash)
        /\ Read(Append(e, d)) = ReadToken(lit, d)
    BY <1>2, ReadSnoc
  <2>2. Read(Append(Append(e, Backslash), d)) = ReadToken(Read(Append(e, Backslash)), d)
    BY <1>4, ReadSnoc
  <2> QED
    BY <1>3, <2>1, <2>2
<1>6. ReadBack(lit, s)
  BY DEF e
<1> HIDE DEF lit
<1>7. CASE Broken(s)
  <2>1. Bad(lit)
    BY <1>6, <1>7 DEF ReadBack
  <2>2. Bad(ReadToken(lit, d)) /\ Bad(ReadToken(lit, Backslash))
    BY <2>1, ReadTokenFacts
  <2>3. Bad(ReadToken(ReadToken(lit, Backslash), d))
    BY <2>2, ReadTokenFacts
  <2>4. Bad(Read(f))
    BY <1>5, <2>2, <2>3
  <2> QED
    BY <1>1, <1>4, <1>7, <2>4 DEF ReadBack, f
<1>8. CASE ~Broken(s)
  <2>1. lit = [state |-> "open", value |-> s]
    BY <1>6, <1>8 DEF ReadBack
  <2>2. d = Break => Bad(Read(f))
    BY <1>5, <2>1, ReadTokenFacts
  <2>3. d \in {Backslash, Quote} => Read(f) = [state |-> "open", value |-> Append(s, d)]
    BY <1>5, <2>1, ReadTokenFacts
  <2>4. d \notin {Break, Backslash, Quote} => Read(f) = [state |-> "open", value |-> Append(s, d)]
    BY <1>5, <2>1, ReadTokenFacts
  <2> QED
    BY <1>1, <1>4, <1>8, <2>2, <2>3, <2>4 DEF ReadBack, f
<1> QED
  BY <1>7, <1>8

Fine(s) == /\ s \in Seq(Token)
           /\ Replace(s, Backslash, <<Backslash, Backslash>>) \in Seq(Token)
           /\ EscapedUrl(s) \in Seq(Token)
           /\ ReadBack(Read(EscapedUrl(s)), s)

LEMMA FineEmpty == Fine(<< >>)
<1>1. Replace(<< >>, Backslash, <<Backslash, Backslash>>) = << >>
  BY ReplaceEmpty
<1>2. ~Broken(<< >>) /\ << >> \in Seq(Token)
  BY DEF Broken
<1> QED
  BY <1>1, <1>2, EscapedEmpty, ReadEmpty DEF ReadBack, Opened, Fine

LEMMA FineSnoc ==
  ASSUME NEW s, NEW d \in Token, Fine(s)
  PROVE  Fine(Append(s, d))
<1>1. s \in Seq(Token) /\ Append(s, d) \in Seq(Token)
  BY DEF Fine
<1>2. /\ Replace(s, Backslash, <<Backslash, Backslash>>) \in Seq(Token)
      /\ EscapedUrl(s) \in Seq(Token) /\ ReadBack(Read(EscapedUrl(s)), s)
  BY DEF Fine
<1>3. Replace(Append(s, d), Backslash, <<Backslash, Backslash>>) \in Seq(Token)
  BY <1>1, <1>2, EscapedSnoc
<1>4. /\ EscapedUrl(Append(s, d)) \in Seq(Token)
      /\ ReadBack(Read(EscapedUrl(Append(s, d))), Append(s, d))
  BY <1>1, <1>2, ReadBackSnoc
<1> QED
  BY <1>1, <1>3, <1>4 DEF Fine

LEMMA AllFine == ASSUME NEW u \in Seq(Token) PROVE Fine(u)
<1> PICK n \in Nat : n = Len(u)
  OBVIOUS
<1> DEFINE B == {i \in 0 .. n : Fine(SubSeq(u, 1, i))}
<1>1. 0 \in B
  <2>1. SubSeq(u, 1, 0) = << >> /\ 0 \in 0 .. n
    OBVIOUS
  <2> QED
    BY <2>1, FineEmpty
<1>2. ASSUME NEW i \in 1 .. n, i - 1 \in B PROVE i \in B
  <2>1. /\ SubSeq(u, 1, i) = Append(SubSeq(u, 1, i - 1), u[i])
        /\ u[i] \in Token /\ i \in 0 .. n
    OBVIOUS
  <2>2. Fine(SubSeq(u, 1, i - 1))
    BY <1>2
  <2>3. Fine(SubSeq(u, 1, i))
    BY <2>1, <2>2, FineSnoc
  <2> QED
    BY <2>1, <2>3
<1>3. SubSeq(u, 1, n) = u /\ n \in 0 .. n
  OBVIOUS
<1> HIDE DEF B
<1>4. n \in B
  BY <1>1, <1>2, <1>3, UpTo
<1> QED
  BY <1>3, <1>4 DEF B

\* The literal in the script is read as the URL, and fails to be read exactly
\* for a URL with a line terminator (renderer.rs:28).
THEOREM EscapeRoundTrip ==
  ASSUME NEW u \in Seq(STRING)
  PROVE  /\ ~Broken(u) => Literal(EscapedUrl(u)) = [state |-> "closed", value |-> u]
         /\ Broken(u) => Literal(EscapedUrl(u)).state = "bad"
<1>0. u \in Seq(Token)
  BY DEF Token
<1>1. EscapedUrl(u) \in Seq(Token) /\ ReadBack(Read(EscapedUrl(u)), u)
  BY <1>0, AllFine DEF Fine
<1>2. Literal(EscapedUrl(u)) = ReadToken(Read(EscapedUrl(u)), Quote)
  BY <1>1, LiteralIsRead, ReadSnoc, Tokens
<1>3. CASE Broken(u)
  <2>1. Bad(ReadToken(Read(EscapedUrl(u)), Quote))
    BY <1>1, <1>3, ReadTokenFacts, Tokens DEF ReadBack
  <2> QED
    BY <1>2, <1>3, <2>1 DEF Bad
<1>4. CASE ~Broken(u)
  <2>1. Read(EscapedUrl(u)) = [state |-> "open", value |-> u]
    BY <1>1, <1>4 DEF ReadBack
  <2> QED
    BY <1>0, <1>2, <1>4, <2>1, ReadTokenFacts, Tokens
<1> QED
  BY <1>3, <1>4

-----------------------------------------------------------------------------
\* The server.

\* A running worker runs a text that loads.
Loaded ==
    \A a \in Call : \A w \in DOMAIN workers[a] :
        Running(workers[a][w]) => workers[a][w].text \in Text /\ Loads(workers[a][w].text)

\* Nothing is served before there is an engine to serve it.
Hosting ==
    /\ host \in Engines \cup {None} /\ stack \in Stacks \cup {<< >>}
    /\ host = None => at = "idle" /\ depth = 0 /\ response = None

\* Where a request may be, and on whose behalf.
Travelling ==
    /\ files \subseteq Files
    /\ at \in Places /\ depth \in 0 .. Len(stack)
    /\ request # None => request \in Requests
    /\ at # "idle" => request \in Requests
    /\ at \in {"inward", "reading", "waiting"} => response = None
    /\ at = "reading" => /\ depth < Len(stack) /\ stack[depth + 1] = "static"
                         /\ AcceptsBrotli(request)

\* A page is cached for the URL it shows.
CacheOwn ==
    /\ cache = [u \in Url |-> cache[u]]
    /\ \A u \in Url : cache[u] # None => cache[u] \in {Page(u), ErrorPage(u)}

Mimes == {MimeOf[e] : e \in DOMAIN MimeOf} \cup {"application/octet-stream"}
Replies == [type : Mimes, body : Bodies, codings : Nat, encoding : BOOLEAN, vary : BOOLEAN]

\* What the body is, for the request it answers.
Fits(resp) ==
    /\ resp.body.kind \in Served \cup {"file"} => resp.body.url = request.url
    /\ resp.body.kind = "Syntax"
         => Broken(request.url) \/ config[host].render_function = "malformed"

\* The layers it has left.
Left(layer) == {i \in depth + 1 .. Len(stack) : stack[i] = layer}

\* A body is compressed once by the layer that compresses or because it is a
\* .br file, and twice if the first is around the layer that read the second.
Coded(resp) ==
    /\ resp.encoding <=> resp.codings > 0
    /\ resp.vary <=> resp.encoding
    /\ resp.encoding => AcceptsBrotli(request)
    /\ resp.codings <= 2 /\ resp.codings <= Len(stack) - depth + 1
    /\ IF resp.body.kind = "file"
       THEN /\ resp.codings > 0 /\ Left("static") # {}
            /\ resp.codings > 1 => /\ resp.type = "text/html"
                                   /\ \E i \in Left("compress"), j \in Left("static") : i < j
       ELSE /\ resp.codings <= 1
            /\ resp.codings > 0 => Left("compress") # {}

Replying ==
    at = "outward" \/ (at = "idle" /\ response # None)
        => response \in Replies /\ Fits(response) /\ Coded(response)
       /\ (at = "idle" => depth = 0)

SInv == IInv /\ StartTypeOK /\ Loaded /\ Hosting /\ Travelling /\ CacheOwn /\ Replying

LEMMA NewWorkersTypes ==
  ASSUME NEW c, NEW w \in DOMAIN NewWorkers(c)
  PROVE  NewWorkers(c)[w] \in Thread /\ ~Running(NewWorkers(c)[w])
  BY DEF NewWorkers, Thread, Running

\* Types and Loaded while the process starts.
LEMMA BeginTypes ==
  ASSUME IInv, StartTypeOK, Loaded, NEW a \in Call, Begin(a)
  PROVE  (StartTypeOK /\ Loaded)'
<1> USE DEF Move, Fail
<1>0. raced \cup {b \in Call : pc[b] \notin {"idle", "ok", "failed"}} \cup {a} \subseteq Call
  BY DEF StartTypeOK
<1>1. ASSUME NEW b \in Builders, BuildEngine(a, b) PROVE (StartTypeOK /\ Loaded)'
  BY <1>0, <1>1 DEF BuildEngine, Enter, StartTypeOK, Loaded, Steps, Via, Errors
<1>2. ASSUME NEW c \in Literals, NewEngine(a, c) PROVE (StartTypeOK /\ Loaded)'
  BY <1>0, <1>2 DEF NewEngine, Enter, StartTypeOK, Loaded, Steps, Via, Errors
<1>3. ASSUME NEW p \in Path, InitBundle(a, p) PROVE (StartTypeOK /\ Loaded)'
  BY <1>0, <1>3 DEF InitBundle, Enter, StartTypeOK, Loaded, Steps, Via, Errors
<1>4. ASSUME NEW v \in {"from_string", "raw"}, NEW s \in Strings, GiveText(a, v, s)
      PROVE  (StartTypeOK /\ Loaded)'
  <2> DEFINE t == [script |-> s, polyfilled |-> v = "from_string"]
  <2>1. t \in Text
    <3>1. s \in Scripts /\ (v = "from_string") \in BOOLEAN
      BY StartupConstants
    <3> QED
      BY <3>1, TextFacts
  <2>2. text' = [text EXCEPT ![a] = t]
    BY <1>4 DEF GiveText
  <2>3. v \in Via
    BY DEF Via
  <2> HIDE DEF t
  <2> QED
    BY <1>0, <1>4, <2>1, <2>2, <2>3 DEF GiveText, Enter, StartTypeOK, Loaded, Steps
<1>5. ASSUME NewPool(a) PROVE (StartTypeOK /\ Loaded)'
  <2> DEFINE new == NewWorkers(Default)
  <2>1. \A w \in DOMAIN new : new[w] \in Thread /\ ~Running(new[w])
    BY NewWorkersTypes
  <2>2. workers' = [workers EXCEPT ![a] = new]
    BY <1>5 DEF NewPool
  <2> HIDE DEF new
  <2>3. workers'[a] = new /\ \A b \in Call \ {a} : workers'[b] = workers[b]
    BY <2>2 DEF IInv, Shape
  <2>4. /\ \A b \in Call : \A w \in DOMAIN workers'[b] : workers'[b][w] \in Thread
        /\ Loaded'
    BY <2>1, <2>3 DEF StartTypeOK, Loaded, Running
  <2> QED
    BY <1>0, <1>5, <2>4 DEF NewPool, Enter, StartTypeOK, Steps, Via
<1> QED
  BY <1>1, <1>2, <1>3, <1>4, <1>5 DEF Begin

LEMMA CallTypes ==
  ASSUME IInv, StartTypeOK, Loaded, NEW a \in Call, Step(a)
  PROVE  (StartTypeOK /\ Loaded)'
<1> USE DEF Move, Fail, Ready
<1>1. ASSUME CheckCell(a) PROVE (StartTypeOK /\ Loaded)'
  BY <1>1 DEF CheckCell, StartTypeOK, Loaded, Steps
<1>2. ASSUME ReadFile(a) PROVE (StartTypeOK /\ Loaded)'
  <2> DEFINE script == disk[config[a].bundle_path]
             t == [script |-> script, polyfilled |-> TRUE]
  <2>1. script # None => t \in Text
    <3>1. config[a].bundle_path \in Path
      BY <1>2 DEF ReadFile, IInv, Prepared
    <3>2. script # None => script \in Scripts
      BY <3>1 DEF StartTypeOK
    <3> HIDE DEF script
    <3> QED
      BY <3>2, TextFacts
  <2>2. IF script = None THEN error' = [error EXCEPT ![a] = "Unreadable"] /\ UNCHANGED text
        ELSE text' = [text EXCEPT ![a] = t] /\ UNCHANGED error
    BY <1>2 DEF ReadFile
  <2>3. pc' = [pc EXCEPT ![a] = "failed"] \/ pc' = [pc EXCEPT ![a] = "setting"]
    BY <1>2 DEF ReadFile
  <2> HIDE DEF t, script
  <2> QED
    BY <1>2, <2>1, <2>2, <2>3 DEF ReadFile, StartTypeOK, Loaded, Steps, Errors
<1>3. ASSUME SetCell(a) PROVE (StartTypeOK /\ Loaded)'
  BY <1>3 DEF SetCell, StartTypeOK, Loaded, Steps, Errors
<1>4. ASSUME Spawn(a) PROVE (StartTypeOK /\ Loaded)'
  <2> DEFINE new == NewWorkers(config[a])
  <2>1. \A w \in DOMAIN new : new[w] \in Thread /\ ~Running(new[w])
    BY NewWorkersTypes
  <2>2. workers' = [workers EXCEPT ![a] = new]
    BY <1>4 DEF Spawn
  <2> HIDE DEF new
  <2>3. workers'[a] = new /\ \A b \in Call \ {a} : workers'[b] = workers[b]
    BY <2>2 DEF IInv, Shape
  <2>4. /\ \A b \in Call : \A w \in DOMAIN workers'[b] : workers'[b][w] \in Thread
        /\ Loaded'
    BY <2>1, <2>3 DEF StartTypeOK, Loaded, Running
  <2> QED
    BY <1>4, <2>4 DEF Spawn, StartTypeOK, Steps
<1> QED
  BY <1>1, <1>2, <1>3, <1>4 DEF Step

LEMMA WorkerTypes ==
  ASSUME IInv, StartTypeOK, Loaded, NEW a \in Call, NEW w \in DOMAIN workers[a],
         StartWorker(a, w)
  PROVE  (StartTypeOK /\ Loaded)'
<1> DEFINE next == IF SSR_BUNDLE = None THEN [state |-> "panicked", text |-> None]
                   ELSE IF Loads(SSR_BUNDLE) THEN [state |-> "running", text |-> SSR_BUNDLE]
                   ELSE [state |-> "exited", text |-> None]
<1>1. next \in Thread
  BY DEF Thread, StartTypeOK
<1>2. Running(next) => next.text \in Text /\ Loads(next.text)
  BY DEF Running, StartTypeOK
<1>3. workers' = [workers EXCEPT ![a][w] = next]
  BY DEF StartWorker
<1> HIDE DEF next
<1>4. /\ workers'[a] = [workers[a] EXCEPT ![w] = next]
      /\ \A b \in Call \ {a} : workers'[b] = workers[b]
  BY <1>3 DEF IInv, Shape
<1>5. /\ DOMAIN workers'[a] = DOMAIN workers[a] /\ workers'[a][w] = next
      /\ \A v \in DOMAIN workers[a] \ {w} : workers'[a][v] = workers[a][v]
  BY <1>4 DEF IInv, Shape
<1>6. /\ \A b \in Call : \A v \in DOMAIN workers'[b] : workers'[b][v] \in Thread
      /\ Loaded'
  BY <1>1, <1>2, <1>4, <1>5 DEF StartTypeOK, Loaded, Running
<1> QED
  BY <1>6 DEF StartWorker, StartTypeOK

LEMMA CrashTypes ==
  ASSUME IInv, StartTypeOK, Loaded, NEW a \in Call, NEW w \in DOMAIN workers[a],
         CrashWorker(a, w)
  PROVE  (StartTypeOK /\ Loaded)'
<1> DEFINE next == [state |-> "crashed", text |-> None]
<1>1. next \in Thread /\ ~Running(next)
  BY DEF Thread, Running
<1>2. workers' = [workers EXCEPT ![a][w] = next]
  BY DEF CrashWorker
<1> HIDE DEF next
<1>3. /\ workers'[a] = [workers[a] EXCEPT ![w] = next]
      /\ \A b \in Call \ {a} : workers'[b] = workers[b]
  BY <1>2 DEF IInv, Shape
<1>4. /\ DOMAIN workers'[a] = DOMAIN workers[a] /\ workers'[a][w] = next
      /\ \A v \in DOMAIN workers[a] \ {w} : workers'[a][v] = workers[a][v]
  BY <1>3 DEF IInv, Shape
<1>5. /\ \A b \in Call : \A v \in DOMAIN workers'[b] : workers'[b][v] \in Thread
      /\ Loaded'
  BY <1>1, <1>3, <1>4 DEF StartTypeOK, Loaded, Running
<1> QED
  BY <1>5 DEF CrashWorker, StartTypeOK

LEMMA StartTypes ==
  ASSUME IInv, StartTypeOK, Loaded, [StartNext]_start
  PROVE  (IInv /\ StartTypeOK /\ Loaded)'
<1>1. ASSUME NEW p \in Path, NEW s \in Strings, Deploy(p, s) PROVE (StartTypeOK /\ Loaded)'
  BY <1>1, StartupConstants DEF Deploy, own, StartTypeOK, Loaded
<1>2. ASSUME UNCHANGED start PROVE (StartTypeOK /\ Loaded)'
  BY <1>2 DEF start, own, StartTypeOK, Loaded
<1> QED
  BY <1>1, <1>2, StepIInv, BeginTypes, CallTypes, WorkerTypes, CrashTypes DEF StartNext

\* What render_html may answer for a URL.
LEMMA RenderHtmlFacts ==
  ASSUME NEW t \in Text, Loads(t), NEW name, NEW u \in Url, NEW json,
         NEW body \in RenderHtml(t.script, name, LiteralOf[u], json)
  PROVE  /\ body \in {Page(u), ErrorPage(u)} \cup {Err(e) : e \in ErrKinds}
         /\ body.kind = "Syntax" => Broken(u) \/ name = "malformed"
<1> DEFINE lit == LiteralOf[u]
<1>0. lit = Literal(EscapedUrl(u))
  BY DEF LiteralOf
<1>1. /\ ~Broken(u) => lit = [state |-> "closed", value |-> u]
      /\ Broken(u) => lit.state = "bad"
  BY <1>0, ServiceConstants, EscapeRoundTrip
<1>2. body \in RenderHtml(t.script, name, lit, json)
  OBVIOUS
<1> HIDE DEF lit
<1>3. CASE ~json
  BY <1>2, <1>3 DEF RenderHtml, Err, ErrKinds
<1>4. CASE json /\ (name = "malformed" \/ lit.state # "closed")
  BY <1>1, <1>2, <1>4 DEF RenderHtml, Err, ErrKinds
<1>5. CASE json /\ ~(name = "malformed" \/ lit.state # "closed")
  <2>1. lit.value = u
    BY <1>1, <1>5
  <2>2. body \in Resolved(t.script, u)
    BY <1>2, <1>5, <2>1 DEF RenderHtml
  <2>3. t.script \in {"renders", "flaky", "nameless", "number", "pending", "browser"}
    BY DEF Text, Scripts, Loads
  <2>4. body \in {Page(u), ErrorPage(u), Err("Promise"), Err("Result")}
    BY <2>2, <2>3 DEF Resolved
  <2>5. body.kind # "Syntax"
    <3>1. /\ Page(u).kind = "page" /\ ErrorPage(u).kind = "error page"
          /\ Err("Promise").kind = "Promise" /\ Err("Result").kind = "Result"
      BY DEF Page, ErrorPage, Err
    <3> QED
      BY <2>4, <3>1
  <2>6. body \in {Page(u), ErrorPage(u)} \cup {Err(e) : e \in ErrKinds}
    <3>1. "Promise" \in ErrKinds /\ "Result" \in ErrKinds
      BY DEF ErrKinds
    <3> QED
      BY <2>4, <3>1
  <2> QED
    BY <2>5, <2>6
<1> QED
  BY <1>3, <1>4, <1>5

LEMMA InitSInv == Init => SInv
<1> SUFFICES ASSUME Init PROVE SInv
  OBVIOUS
<1>1. IInv
  BY InitIInv DEF Init
<1>2. StartTypeOK /\ Loaded
  BY StartupConstants
  DEF Init, StartInit, StartTypeOK, Loaded, Steps, Via, Errors, Text
<1>3. Hosting /\ Travelling /\ CacheOwn /\ Replying
  BY DEF Init, Hosting, Travelling, CacheOwn, Replying, Places
<1> QED
  BY <1>1, <1>2, <1>3 DEF SInv

\* Every step of the server is one of the start of its process, or none.
LEMMA StepsStart == ASSUME SInv, Next PROVE [StartNext]_start
<1>1. ASSUME Starting PROVE StartNext
  BY <1>1 DEF Starting, StartNext
<1>2. ASSUME NEW a \in Call, NEW w \in DOMAIN workers[a], WorkerStarts(a, w) PROVE StartNext
  BY <1>2 DEF WorkerStarts, StartNext
<1>3. ASSUME NEW a \in Call, Serve(a) PROVE UNCHANGED start
  BY <1>3 DEF Serve
<1>4. ASSUME NEW r \in Requests, Receive(r) PROVE UNCHANGED start
  BY <1>4 DEF Receive
<1>5. ASSUME RequestStep PROVE UNCHANGED start
  BY <1>5 DEF RequestStep, PassLayer, FileExists, ReadBr, Hit, Miss, Leave, Delivered, Goto
<1>6. ASSUME NEW w \in DOMAIN workers[host], Rendered(workers[host][w]) PROVE UNCHANGED start
  BY <1>6 DEF Rendered, Goto
<1>7. ASSUME host # None, NEW w \in DOMAIN workers[host], Crashed(w) \/ OtherCrashes(w)
      PROVE  StartNext
  <2>1. host \in Call
    BY <1>7 DEF SInv, Hosting, Engines
  <2>2. CrashWorker(host, w)
    BY <1>7 DEF Crashed, OtherCrashes
  <2> QED
    BY <2>1, <2>2 DEF StartNext
<1>8. ASSUME GivenUp PROVE UNCHANGED start
  BY <1>8 DEF GivenUp, Goto
<1>9. ASSUME NEW u \in Files, FileChanges(u) PROVE UNCHANGED start
  BY <1>9 DEF FileChanges
<1>10. ASSUME NEW u \in Url, Forget(u) PROVE UNCHANGED start
  BY <1>10 DEF Forget
<1> QED
  BY <1>1, <1>2, <1>3, <1>4, <1>5, <1>6, <1>7, <1>8, <1>9, <1>10 DEF Next, HostRenders

\* The server's own part of the invariant.
Server == Hosting /\ Travelling /\ CacheOwn /\ Replying

LEMMA BeforeServing ==
  ASSUME SInv,
         Starting \/ \E a \in Call : Serve(a) \/ \E w \in DOMAIN workers[a] : WorkerStarts(a, w)
  PROVE  Server'
<1>1. ASSUME Starting PROVE Server'
  BY <1>1 DEF Starting, request_vars, SInv, Server, Hosting, Travelling, CacheOwn, Replying
<1>2. ASSUME NEW a \in Call, NEW w \in DOMAIN workers[a], WorkerStarts(a, w) PROVE Server'
  <2>1. UNCHANGED <<host, stack, files, cache, at, depth, request, response, pc, via, config>>
    BY <1>2 DEF WorkerStarts, StartWorker, request_vars
  <2> QED
    BY <2>1 DEF SInv, Server, Hosting, Engines, Travelling, CacheOwn, Replying, Fits, Coded, Left
<1>3. ASSUME NEW a \in Call, Serve(a) PROVE Server'
  <2>1. /\ UNCHANGED <<cache, at, depth, request, response, pc, via>>
        /\ host = None /\ host' = a /\ a \in Engines /\ stack' \in Stacks /\ files' = Files
    BY <1>3 DEF Serve, start, own, request_vars
  <2>2. at = "idle" /\ depth = 0 /\ response = None
    BY <2>1 DEF SInv, Hosting
  <2>3. Len(stack') \in Nat
    BY <2>1, ServiceConstants
  <2> QED
    BY <2>1, <2>2, <2>3, ServiceConstants
    DEF SInv, Server, Hosting, Engines, Travelling, CacheOwn, Replying
<1> QED
  BY <1>1, <1>2, <1>3

LEMMA OtherEnds ==
  ASSUME SInv, NEW w \in DOMAIN workers[host], OtherCrashes(w) PROVE Server'
<1>1. UNCHANGED <<host, stack, files, cache, at, depth, request, response, pc, via, config>>
  BY DEF OtherCrashes, CrashWorker, request_vars
<1> QED
  BY <1>1 DEF SInv, Server, Hosting, Engines, Travelling, CacheOwn, Replying, Fits, Coded, Left

LEMMA Arrives == ASSUME SInv, NEW r \in Requests, Receive(r) PROVE Server'
<1>1. /\ at = "idle" /\ host # None /\ UNCHANGED <<host, stack, files, cache, pc, via, config>>
      /\ request' = r /\ response' = None /\ at' = "inward" /\ depth' = 0
  BY DEF Receive, start, own
<1>2. 0 \in 0 .. Len(stack)
  BY DEF SInv, Travelling
<1>3. Hosting' /\ CacheOwn'
  BY <1>1 DEF SInv, Hosting, Engines, CacheOwn
<1>4. Travelling'
  BY <1>1, <1>2 DEF SInv, Travelling, Places
<1>5. Replying'
  BY <1>1 DEF Replying
<1> QED
  BY <1>3, <1>4, <1>5 DEF Server

\* The way in.
LEMMA GoesIn ==
  ASSUME SInv, PassLayer \/ FileExists \/ Miss \/ (ReadBr /\ ~Found)
  PROVE  Server'
<1>1. /\ at \in {"inward", "reading"} /\ at' \in {"inward", "reading", "waiting"}
      /\ UNCHANGED <<start, host, stack, request, files, cache, response>>
      /\ \/ depth' = depth /\ (at' = "reading" => depth < Len(stack) /\ Layer = "static" /\ Eligible(request))
         \/ depth' = depth + 1 /\ depth < Len(stack) /\ at' = "inward"
  BY DEF PassLayer, FileExists, Miss, Handling, ReadBr, Goto, SInv, Travelling
<1>2. host # None /\ response = None /\ request \in Requests
  BY <1>1 DEF SInv, Hosting, Travelling
<1>3. Hosting' /\ CacheOwn'
  BY <1>1, <1>2 DEF SInv, Hosting, Engines, CacheOwn, start, own
<1>4. Travelling'
  <2>1. depth \in 0 .. Len(stack) /\ Len(stack) \in Nat
    <3>1. stack \in Stacks \cup {<< >>}
      BY DEF SInv, Hosting
    <3> QED
      BY <3>1, ServiceConstants DEF SInv, Travelling
  <2> QED
    BY <1>1, <1>2, <2>1 DEF SInv, Travelling, Places, Layer, Eligible
<1>5. Replying'
  BY <1>1 DEF Replying
<1> QED
  BY <1>3, <1>4, <1>5 DEF Server

\* A reply is made.
LEMMA Replied ==
  ASSUME SInv, at \in {"inward", "reading", "waiting"}, at' = "outward",
         UNCHANGED <<pc, via, config, host, stack, request, files, depth>>, CacheOwn',
         response' \in Replies, Fits(response'), Coded(response')
  PROVE  Server'
<1>1. host # None /\ request \in Requests
  BY DEF SInv, Hosting, Travelling
<1>2. Hosting'
  BY <1>1 DEF SInv, Hosting, Engines
<1>3. Travelling'
  BY <1>1 DEF SInv, Travelling, Places
<1>4. Fits(response)' /\ Coded(response)'
  BY DEF Fits, Coded, Left
<1>5. Replying'
  BY <1>4 DEF Replying
<1> QED
  BY <1>2, <1>3, <1>5 DEF Server

\* Html that answers the request, not compressed yet.
LEMMA HtmlFits ==
  ASSUME SInv, at \in {"inward", "waiting"}, NEW body \in Bodies, body.kind # "file",
         body.kind \in Served => body.url = request.url,
         body.kind = "Syntax" => Broken(request.url) \/ config[host].render_function = "malformed"
  PROVE  Html(body) \in Replies /\ Fits(Html(body)) /\ Coded(Html(body))
<1> DEFINE resp == Html(body)
<1>1. /\ resp.type = "text/html" /\ resp.body = body /\ resp.codings = 0
      /\ resp.encoding = FALSE /\ resp.vary = FALSE
  BY DEF Html
<1>2. "text/html" \in Mimes
  <2>1. "html" \in DOMAIN MimeOf /\ MimeOf["html"] = "text/html"
    BY DEF MimeOf
  <2> QED
    BY <2>1 DEF Mimes
<1>3. resp \in Replies
  BY <1>2 DEF Html, Replies
<1> HIDE DEF resp
<1>4. Fits(resp)
  BY <1>1 DEF Fits
<1>5. Len(stack) \in Nat /\ depth \in 0 .. Len(stack)
  <2>1. stack \in Stacks \cup {<< >>}
    BY DEF SInv, Hosting
  <2> QED
    BY <2>1, ServiceConstants DEF SInv, Travelling
<1>6. Coded(resp)
  BY <1>1, <1>5 DEF Coded
<1> QED
  BY <1>3, <1>4, <1>6 DEF resp

LEMMA PageFacts ==
  ASSUME NEW u \in Url, NEW body \in {Page(u), ErrorPage(u)} \cup {Err(e) : e \in ErrKinds}
  PROVE  /\ body \in Bodies /\ body.kind # "file"
         /\ body.kind \in Served => body.url = u /\ body \in {Page(u), ErrorPage(u)}
         /\ body \in {Page(u), ErrorPage(u)} => body.kind # "Syntax"
<1>1. CASE body = Page(u)
  BY <1>1 DEF Page, Bodies, Served
<1>2. CASE body = ErrorPage(u)
  BY <1>2 DEF ErrorPage, Bodies, Served
<1>3. ASSUME NEW e \in ErrKinds, body = Err(e)
      PROVE  body \in Bodies /\ body.kind \notin Served \cup {"file"} /\ body \notin {Page(u), ErrorPage(u)}
  <2>1. body.kind = e /\ body = [kind |-> e, url |-> << >>]
    BY <1>3 DEF Err
  <2>2. e \notin Served \cup {"file"} /\ Page(u).kind \in Served /\ ErrorPage(u).kind \in Served
    BY DEF ErrKinds, Served, Page, ErrorPage
  <2>3. [kind |-> e, url |-> << >>] \in Bodies
    BY DEF Bodies
  <2>4. body \in Bodies
    BY <2>1, <2>3
  <2>5. body.kind \notin Served \cup {"file"}
    BY <2>1, <2>2
  <2>6. body # Page(u) /\ body # ErrorPage(u)
    BY <2>2, <2>5
  <2> QED
    BY <2>4, <2>5, <2>6
<1> QED
  BY <1>1, <1>2, <1>3

LEMMA Cached ==
  ASSUME SInv, Hit PROVE Server'
<1> DEFINE body == cache[request.url]
<1>1. /\ at = "inward" /\ at' = "outward" /\ body # None /\ response' = Html(body)
      /\ UNCHANGED <<start, host, stack, request, files, depth, cache>>
  BY DEF Hit, Handling, Goto
<1>2. request \in Requests /\ request.url \in Url
  BY <1>1 DEF SInv, Travelling, Requests
<1>3. body \in {Page(request.url), ErrorPage(request.url)}
  BY <1>1, <1>2 DEF SInv, CacheOwn
<1> HIDE DEF body
<1>4. body \in Bodies /\ body.kind # "file" /\ body.url = request.url /\ body.kind # "Syntax"
  <2>1. Page(request.url).url = request.url /\ ErrorPage(request.url).url = request.url
    BY DEF Page, ErrorPage
  <2> QED
    BY <1>2, <1>3, <2>1, PageFacts
<1>5. Html(body) \in Replies /\ Fits(Html(body)) /\ Coded(Html(body))
  BY <1>1, <1>4, HtmlFits
<1>6. CacheOwn'
  BY <1>1 DEF SInv, CacheOwn
<1>7. UNCHANGED <<pc, via, config>>
  BY <1>1 DEF start, own
<1> QED
  BY <1>1, <1>5, <1>6, <1>7, Replied

LEMMA GaveUp == ASSUME SInv, GivenUp PROVE Server'
<1> DEFINE body == Err("Timeout")
<1>1. /\ at = "waiting" /\ at' = "outward" /\ response' = Html(body)
      /\ UNCHANGED <<start, host, stack, request, files, depth, cache>>
  BY DEF GivenUp, Goto
<1>2. body \in Bodies /\ body.kind \notin Served \cup {"file", "Syntax"}
  BY DEF Bodies, Served, Err
<1> HIDE DEF body
<1>3. Html(body) \in Replies /\ Fits(Html(body)) /\ Coded(Html(body))
  BY <1>1, <1>2, HtmlFits
<1>4. CacheOwn'
  BY <1>1 DEF SInv, CacheOwn
<1>5. UNCHANGED <<pc, via, config>>
  BY <1>1 DEF start, own
<1> QED
  BY <1>1, <1>3, <1>4, <1>5, Replied

\* A render that panics leaves the cache alone.
LEMMA WorkerCrashes ==
  ASSUME SInv, NEW w \in DOMAIN workers[host], Crashed(w) PROVE Server'
<1> DEFINE body == Err("WorkerCrashed")
<1>1. /\ at = "waiting" /\ at' = "outward" /\ response' = Html(body)
      /\ UNCHANGED <<pc, via, config, host, stack, request, files, depth, cache>>
  BY DEF Crashed, CrashWorker
<1>2. body \in Bodies /\ body.kind \notin Served \cup {"file", "Syntax"}
  BY DEF Bodies, Served, Err
<1> HIDE DEF body
<1>3. Html(body) \in Replies /\ Fits(Html(body)) /\ Coded(Html(body))
  BY <1>1, <1>2, HtmlFits
<1>4. CacheOwn'
  BY <1>1 DEF SInv, CacheOwn
<1> QED
  BY <1>1, <1>3, <1>4, Replied

LEMMA WorkerReplies ==
  ASSUME SInv, NEW i \in DOMAIN workers[host], Rendered(workers[host][i]) PROVE Server'
<1> DEFINE w == workers[host][i]
<1>1. /\ at = "waiting" /\ at' = "outward"
      /\ UNCHANGED <<start, host, stack, request, files, depth>>
  BY DEF Rendered, Goto
<1>2. Rendered(w)
  OBVIOUS
<1>3. host # None /\ host \in Call /\ request \in Requests /\ request.url \in Url
  BY <1>1 DEF SInv, Hosting, Engines, Travelling, Requests
<1>4. w.text \in Text /\ Loads(w.text)
  BY <1>2, <1>3 DEF Rendered, SInv, Loaded, Running
<1>5. PICK body \in RenderHtml(w.text.script, config[host].render_function,
                               LiteralOf[request.url], request.json) :
        /\ response' = Html(body)
        /\ cache' = IF body.kind \in Served
                    THEN [cache EXCEPT ![request.url] = body] ELSE cache
  BY <1>2 DEF Rendered
<1> HIDE DEF w
<1>6. /\ body \in {Page(request.url), ErrorPage(request.url)} \cup {Err(e) : e \in ErrKinds}
      /\ body.kind = "Syntax" => Broken(request.url) \/ config[host].render_function = "malformed"
  BY <1>3, <1>4, RenderHtmlFacts
<1>7. /\ body \in Bodies /\ body.kind # "file"
      /\ body.kind \in Served => body.url = request.url
                                 /\ body \in {Page(request.url), ErrorPage(request.url)}
  BY <1>3, <1>6, PageFacts
<1>8. Html(body) \in Replies /\ Fits(Html(body)) /\ Coded(Html(body))
  BY <1>1, <1>6, <1>7, HtmlFits
<1>9. CacheOwn'
  BY <1>3, <1>5, <1>7 DEF SInv, CacheOwn
<1>10. UNCHANGED <<pc, via, config>>
  BY <1>1 DEF start, own
<1> QED
  BY <1>1, <1>5, <1>8, <1>9, <1>10, Replied

LEMMA FileRead == ASSUME SInv, ReadBr, Found PROVE Server'
<1> DEFINE resp == FileResponse(request.url)
<1>1. /\ at = "reading" /\ at' = "outward" /\ response' = resp
      /\ UNCHANGED <<start, host, stack, request, files, depth, cache>>
  BY DEF ReadBr, Goto
<1>2. /\ request \in Requests /\ request.url \in Url
      /\ depth < Len(stack) /\ stack[depth + 1] = "static" /\ AcceptsBrotli(request)
      /\ depth \in 0 .. Len(stack)
  BY <1>1 DEF SInv, Travelling, Requests
<1>3. /\ resp.type = GuessContentType(request.url) /\ resp.body = [kind |-> "file", url |-> request.url]
      /\ resp.codings = 1 /\ resp.encoding = TRUE /\ resp.vary = TRUE
      /\ resp.body.kind = "file" /\ resp.body.url = request.url
  BY DEF FileResponse
<1>4. resp \in Replies
  <2>1. GuessContentType(request.url) \in Mimes
    BY DEF GuessContentType, Mimes
  <2>2. [kind |-> "file", url |-> request.url] \in Bodies
    BY <1>2 DEF Bodies
  <2> QED
    BY <2>1, <2>2 DEF FileResponse, Replies
<1> HIDE DEF resp
<1>5. Fits(resp)
  BY <1>3 DEF Fits
<1>6. Len(stack) \in Nat
  <2>1. stack \in Stacks \cup {<< >>}
    BY DEF SInv, Hosting
  <2> QED
    BY <2>1, ServiceConstants
<1>7. Coded(resp)
  <2>1. depth + 1 \in Left("static")
    BY <1>2, <1>6 DEF Left
  <2> QED
    BY <1>2, <1>3, <1>6, <2>1 DEF Coded
<1>8. CacheOwn'
  BY <1>1 DEF SInv, CacheOwn
<1>9. UNCHANGED <<pc, via, config>>
  BY <1>1 DEF start, own
<1> QED
  BY <1>1, <1>4, <1>5, <1>7, <1>8, <1>9, Replied

LEMMA ReplySet ==
  ASSUME NEW r \in Replies, NEW d \in Nat, NEW x \in BOOLEAN, NEW y \in BOOLEAN
  PROVE  LET m == [r EXCEPT !.codings = d, !.encoding = x, !.vary = y] IN
         /\ m \in Replies /\ m.type = r.type /\ m.body = r.body
         /\ m.codings = d /\ m.encoding = x /\ m.vary = y
<1>1. PICK t \in Mimes, b \in Bodies, c \in Nat, e \in BOOLEAN, v \in BOOLEAN :
        r = [type |-> t, body |-> b, codings |-> c, encoding |-> e, vary |-> v]
  BY Zenon DEF Replies
<1> DEFINE m == [r EXCEPT !.codings = d, !.encoding = x, !.vary = y]
<1>2. r.type = t /\ r.body = b
  BY <1>1
<1>3. m = [type |-> t, body |-> b, codings |-> d, encoding |-> x, vary |-> y]
  <2>1. m = [[[r EXCEPT !.codings = d] EXCEPT !.encoding = x] EXCEPT !.vary = y]
    OBVIOUS
  <2>2. [r EXCEPT !.codings = d]
          = [type |-> t, body |-> b, codings |-> d, encoding |-> e, vary |-> v]
    BY <1>1
  <2>3. [[type |-> t, body |-> b, codings |-> d, encoding |-> e, vary |-> v] EXCEPT !.encoding = x]
          = [type |-> t, body |-> b, codings |-> d, encoding |-> x, vary |-> v]
    OBVIOUS
  <2>4. [[type |-> t, body |-> b, codings |-> d, encoding |-> x, vary |-> v] EXCEPT !.vary = y]
          = [type |-> t, body |-> b, codings |-> d, encoding |-> x, vary |-> y]
    OBVIOUS
  <2> HIDE DEF m
  <2> QED
    BY <2>1, <2>2, <2>3, <2>4, Zenon
<1> HIDE DEF m
<1>4. /\ m \in Replies /\ m.type = r.type /\ m.body = r.body
      /\ m.codings = d /\ m.encoding = x /\ m.vary = y
  BY <1>2, <1>3 DEF Replies
<1> QED
  BY <1>4 DEF m

LEMMA CompressedReply ==
  ASSUME NEW r \in Replies
  PROVE  LET m == [r EXCEPT !.codings = @ + 1, !.encoding = TRUE, !.vary = TRUE] IN
         /\ m \in Replies /\ m.type = r.type /\ m.body = r.body
         /\ m.codings = r.codings + 1 /\ m.encoding = TRUE /\ m.vary = TRUE
<1>1. r.codings + 1 \in Nat /\ TRUE \in BOOLEAN
  BY DEF Replies
<1> QED
  BY <1>1, ReplySet

\* The way out.  A layer compresses once; a second time only what brotli_static,
\* which is then further in, read from a file.
LEMMA GoesOut == ASSUME SInv, Leave PROVE Server'
<1> DEFINE more == [response EXCEPT !.codings = @ + 1, !.encoding = TRUE, !.vary = TRUE]
<1>1. /\ at = "outward" /\ at' = "outward" /\ depth > 0 /\ depth' = depth - 1
      /\ UNCHANGED <<start, host, stack, request, files, cache>>
      /\ response' = IF stack[depth] = "compress" /\ AcceptsBrotli(request)
                          /\ response.type = "text/html"
                     THEN more ELSE response
  BY DEF Leave, Goto, Compressed
<1>2. /\ host # None /\ request \in Requests /\ depth \in 1 .. Len(stack) /\ Len(stack) \in Nat
      /\ stack \in Stacks
  <2>1. stack \in Stacks \cup {<< >>}
    BY DEF SInv, Hosting
  <2>2. Len(stack) \in Nat
    BY <2>1, ServiceConstants
  <2> QED
    BY <1>1, <2>1, <2>2 DEF SInv, Hosting, Travelling
<1>3. response \in Replies /\ Fits(response) /\ Coded(response)
  BY <1>1 DEF SInv, Replying
<1>4. /\ Left("static") \subseteq Left("static")' /\ Left("compress") \subseteq Left("compress")'
      /\ stack[depth] = "compress" => depth \in Left("compress")' /\ Left("compress") = {}
      /\ \A j \in Left("static") : depth < j
  <2>1. depth' + 1 = depth /\ \A i \in depth + 1 .. Len(stack) : i # depth /\ depth < i /\ i \in depth .. Len(stack)
    BY <1>1, <1>2
  <2>2. /\ Left("static")' = {i \in depth .. Len(stack) : stack[i] = "static"}
        /\ Left("compress")' = {i \in depth .. Len(stack) : stack[i] = "compress"}
    BY <1>1, <2>1 DEF Left
  <2>3. depth \in depth .. Len(stack)
    BY <1>2
  <2>4. \A i, j \in 1 .. Len(stack) : stack[i] = stack[j] => i = j
    BY <1>2, ServiceConstants DEF IsInjective
  <2>5. \A i \in depth + 1 .. Len(stack) : i \in 1 .. Len(stack)
    BY <1>2
  <2> QED
    BY <1>2, <2>1, <2>2, <2>3, <2>4, <2>5 DEF Left
<1>5. CASE response' = response
  <2>1. Fits(response)'
    BY <1>1, <1>3, <1>5 DEF Fits, start, own
  <2>2. Coded(response)'
    BY <1>1, <1>2, <1>3, <1>4, <1>5 DEF Coded, Replies
  <2> QED
    BY <1>1, <1>2, <1>3, <1>5, <2>1, <2>2
    DEF Server, SInv, Hosting, Engines, Travelling, CacheOwn, Replying, Places, start, own
<1>6. CASE response' # response
  <2>1. /\ response' = more /\ stack[depth] = "compress" /\ AcceptsBrotli(request)
        /\ response.type = "text/html"
    BY <1>1, <1>6
  <2>2. /\ response' \in Replies /\ response'.type = response.type /\ response'.body = response.body
        /\ response'.codings = response.codings + 1
        /\ response'.encoding = TRUE /\ response'.vary = TRUE
    BY <1>3, <2>1, CompressedReply
  <2>3. Fits(response)'
    BY <1>1, <1>3, <2>2 DEF Fits, start, own
  <2>4. response.codings \in Nat /\ response.codings <= Len(stack) - depth + 1
    BY <1>3 DEF Replies, Coded
  <2>5. response.codings <= 1 /\ (response.body.kind # "file" => response.codings = 0)
    BY <1>3, <1>4, <2>1, <2>4 DEF Coded
  <2>6. response.body.kind = "file"
          => \E i \in Left("compress")', j \in Left("static")' : i < j
    BY <1>3, <1>4, <2>1 DEF Coded
  <2>7. response.body.kind = "file" => Left("static")' # {}
    BY <1>3, <1>4 DEF Coded
  <2>8. Left("compress")' # {}
    BY <1>4, <2>1
  <2> HIDE DEF more
  <2>9. Coded(response)'
    BY <1>1, <1>2, <2>1, <2>2, <2>4, <2>5, <2>6, <2>7, <2>8 DEF Coded
  <2> QED
    BY <1>1, <1>2, <2>2, <2>3, <2>9
    DEF Server, SInv, Hosting, Engines, Travelling, CacheOwn, Replying, Places, start, own
<1> QED
  BY <1>5, <1>6

LEMMA Rests ==
  ASSUME SInv, Delivered \/ (\E u \in Files : FileChanges(u)) \/ (\E u \in Url : Forget(u))
  PROVE  Server'
<1>1. ASSUME Delivered PROVE Server'
  <2>1. /\ at = "outward" /\ depth = 0 /\ at' = "idle"
        /\ UNCHANGED <<start, host, stack, request, files, depth, cache, response>>
    BY <1>1 DEF Delivered, Goto
  <2>2. host # None
    BY <2>1 DEF SInv, Hosting
  <2> QED
    BY <2>1, <2>2
    DEF Server, SInv, Hosting, Engines, Travelling, CacheOwn, Replying, Fits, Coded, Left,
        Places, start, own
<1>2. ASSUME NEW u \in Files, FileChanges(u) PROVE Server'
  <2>1. /\ files' \subseteq Files
        /\ UNCHANGED <<start, host, stack, request, at, depth, cache, response>>
    BY <1>2 DEF FileChanges, request_vars, SInv, Travelling
  <2> QED
    BY <2>1
    DEF Server, SInv, Hosting, Engines, Travelling, CacheOwn, Replying, Fits, Coded, Left,
        start, own
<1>3. ASSUME NEW u \in Url, Forget(u) PROVE Server'
  <2>1. /\ cache' = [cache EXCEPT ![u] = None]
        /\ UNCHANGED <<start, host, stack, request, at, depth, files, response>>
    BY <1>3 DEF Forget, request_vars
  <2> QED
    BY <2>1
    DEF Server, SInv, Hosting, Engines, Travelling, CacheOwn, Replying, Fits, Coded, Left,
        start, own
<1> QED
  BY <1>1, <1>2, <1>3

LEMMA StepSInv == ASSUME SInv, [Next]_vars PROVE SInv'
<1>1. (IInv /\ StartTypeOK /\ Loaded)'
  <2>1. [StartNext]_start
    BY StepsStart DEF vars
  <2> QED
    BY <2>1, StartTypes DEF SInv
<1>2. CASE Next
  <2>1. Server'
    BY <1>2, BeforeServing, Arrives, GoesIn, Cached, GaveUp, WorkerReplies,
       WorkerCrashes, OtherEnds, FileRead, GoesOut, Rests
    DEF Next, RequestStep, HostRenders
  <2> QED
    BY <1>1, <2>1 DEF Server, SInv
<1>3. CASE UNCHANGED vars
  <2>1. Server'
    BY <1>3
    DEF vars, request_vars, Server, SInv, Hosting, Engines, Travelling, CacheOwn, Replying,
        Fits, Coded, Left, start, own
  <2> QED
    BY <1>1, <2>1 DEF Server, SInv
<1> QED
  BY <1>2, <1>3

LEMMA AlwaysSInv == Spec => []SInv
  BY InitSInv, StepSInv, PTL DEF Spec

\* The server and the process it runs in keep their types.
THEOREM TypeCorrect == Spec => []TypeOK
<1>1. SInv => TypeOK
  <2> SUFFICES ASSUME SInv PROVE TypeOK
    OBVIOUS
  <2>1. stack \in Stacks \cup {<< >>} /\ Len(stack) \in Nat
    <3>1. stack \in Stacks \cup {<< >>}
      BY DEF SInv, Hosting
    <3> QED
      BY <3>1, ServiceConstants
  <2>2. \A u \in Url : cache[u] # None => cache[u].kind \in Served
    <3>1. \A u \in Url : Page(u).kind \in Served /\ ErrorPage(u).kind \in Served
      BY DEF Page, ErrorPage, Served
    <3> QED
      BY <3>1 DEF SInv, CacheOwn
  <2>3. response # None => response.body \in Bodies /\ response.codings \in 0 .. Len(stack) + 1
    <3>1. ASSUME response # None PROVE response \in Replies /\ Coded(response) /\ depth \in 0 .. Len(stack)
      BY <3>1 DEF SInv, Replying, Travelling, Places
    <3> QED
      BY <2>1, <3>1 DEF Coded, Replies
  <2> QED
    BY <2>1, <2>2, <2>3 DEF SInv, Hosting, Engines, Travelling, TypeOK
<1> QED
  BY <1>1, AlwaysSInv, PTL

\* Whatever tokens a URL has, a page shown for it is its own: the two
\* replacements of renderer.rs:28 make a literal that is read back as the URL, and
\* only a line terminator or a malformed name leaves the script unparsed.
THEOREM PagesFitUrl == Spec => []RepliesFitUrl
<1>1. SInv => RepliesFitUrl
  <2> SUFFICES ASSUME SInv, response # None PROVE Fits(response)
    BY DEF Fits, RepliesFitUrl, Broken
  <2> QED
    BY DEF SInv, Replying, Travelling, Places
<1> QED
  BY <1>1, AlwaysSInv, PTL

\* The headers of a reply say how its body is coded, whatever the order of the
\* layers (brotli.rs:30-39, 67-79, 105-147), if each is there once at most.
THEOREM CodingIsDeclared == Spec => []BodyAsDeclared
<1>1. SInv => BodyAsDeclared
  <2> SUFFICES ASSUME SInv, response # None, at = "idle" PROVE BodyAsDeclared
    BY DEF BodyAsDeclared
  <2>1. depth = 0 /\ Coded(response) /\ response \in Replies
    BY DEF SInv, Replying
  <2>2. response.codings > 1 => stack[1] = "compress" /\ response.body.kind = "file"
                                /\ response.type = "text/html"
    <3> SUFFICES ASSUME response.codings > 1
                 PROVE  stack[1] = "compress" /\ response.body.kind = "file"
                        /\ response.type = "text/html"
      OBVIOUS
    <3>1. response.body.kind = "file" /\ response.type = "text/html"
      BY <2>1 DEF Coded, Replies
    <3>2. PICK i \in Left("compress"), j \in Left("static") : i < j
      BY <2>1, <3>1 DEF Coded
    <3>3. stack \in Stacks \cup {<< >>}
      BY DEF SInv, Hosting
    <3>4. Len(stack) \in Nat /\ i \in 1 .. Len(stack) /\ j \in 1 .. Len(stack) /\ stack[j] = "static"
      BY <2>1, <3>2, <3>3, ServiceConstants DEF Left
    <3>5. stack \in Stacks /\ 1 \in 1 .. Len(stack) /\ 1 # j
      BY <3>2, <3>3, <3>4
    <3>6. stack[1] \in {"compress", "static"} /\ (stack[1] = stack[j] => 1 = j)
      BY <3>4, <3>5, ServiceConstants DEF IsInjective
    <3> QED
      BY <3>1, <3>4, <3>5, <3>6
  <2> QED
    BY <2>1, <2>2 DEF BodyAsDeclared, Coded
<1> QED
  BY <1>1, AlwaysSInv, PTL

\* A server starts as any process does, so what is proved of the start holds
\* while it serves: its workers run one bundle, and find it.
THEOREM ServesAsStarted == Spec => StartSpec
<1>1. Init => StartInit
  BY DEF Init
<1>2. SInv /\ [Next]_vars => [StartNext]_start
  BY StepsStart DEF vars
<1> QED
  BY <1>1, <1>2, AlwaysSInv, PTL DEF Spec, StartSpec

\* So the workers that serve run one bundle and find it, and an engine was only
\* refused for calls that overlapped (bundle.rs:185-201, engine.rs:53).
THEOREM ServesOneBundle == Spec => [](OneBundle /\ EnginesFindBundle /\ SequentialInitsAgree)
  BY ServesAsStarted, WorkersShareBundle, EnginesAreLoaded, OnlyOverlapsFail, PTL
=============================================================================
