------------------------------ MODULE Startup -------------------------------
(***************************************************************************)
(* How a process gets its bundle and its engines: the once-only cell       *)
(* SSR_BUNDLE with its four ways in (src/v8_pool/bundle.rs), SsrEngine::new *)
(* (src/engine.rs), V8Pool::new (src/v8_pool/pool.rs), and the start of    *)
(* the worker threads, each of which reads the cell (runtime.rs).          *)
(*                                                                         *)
(* The application makes its calls one after the other or from several     *)
(* threads at once.  A bundle is told apart by what its script does when   *)
(* it is loaded and called; Renderer.tla says how the rendering kinds go.  *)
(*                                                                         *)
(* External: OnceLock (get, and a set that fails once it is full), the     *)
(* file system, whose files may change between calls.                      *)
(***************************************************************************)
EXTENDS Config, FiniteSets

CONSTANTS
    Call,        \* calls the application makes while it starts
    Path,
    Disks,       \* bound: the contents the bundle files may have at first
    Builders,    \* bound: the builders build_engine is called on
    Literals,    \* bound: the configurations given to SsrEngine::new
    Strings,     \* bound: the scripts passed as strings or written to files
    MaxDeploys   \* bound: how often a bundle file is replaced

Scripts == {"renders", "flaky", "nameless", "number", "pending", "browser", "broken"}
Text == [script : Scripts, polyfilled : BOOLEAN]
Errors == {"Config", "Unreadable", "AlreadySet"}

ASSUME StartupConstants ==
    /\ DefaultPath \in Path
    /\ Disks \subseteq [Path -> Scripts \cup {None}]
    /\ Strings \subseteq Scripts
    /\ \A b \in Builders : Filled(b).bundle_path \in Path
    /\ \A c \in Literals : c.bundle_path \in Path
    /\ None \notin Text \cup Errors
    /\ MaxDeploys \in Nat

VARIABLES
    disk,        \* script in each bundle file; None if there is no file
    deploys,
    SSR_BUNDLE,  \* the cell: None or a text
    pc,          \* where each call is
    via,         \* the function called
    config,      \* its configuration
    text,        \* the text it is about to put into the cell
    error,       \* the error it returned
    workers,     \* the workers of the pool it made
    raced        \* history: calls that overlapped another one

own   == <<pc, via, config, text, error, workers>>
start == <<disk, deploys, SSR_BUNDLE, own, raced>>

Steps  == {"idle", "checking", "reading", "setting", "spawning", "ok", "failed"}
Via    == {"build_engine", "new", "V8Pool", "init_bundle", "from_string", "raw"}
Thread == [state : {"starting", "running", "exited", "panicked", "crashed"},
           text  : Text \cup {None}]

Engines == {a \in Call : via[a] \in {"build_engine", "new"} /\ pc[a] = "ok"}
Running(w) == w.state = "running"

StartInit ==
    /\ disk \in Disks /\ deploys = 0
    /\ SSR_BUNDLE = None
    /\ pc = [a \in Call |-> "idle"]
    /\ via = [a \in Call |-> None] /\ config = [a \in Call |-> None]
    /\ text = [a \in Call |-> None] /\ error = [a \in Call |-> None]
    /\ workers = [a \in Call |-> << >>]
    /\ raced = {}

-----------------------------------------------------------------------------
Move(a, s) == pc' = [pc EXCEPT ![a] = s] /\ UNCHANGED error
Fail(a, e) == /\ pc' = [pc EXCEPT ![a] = "failed"]
              /\ error' = [error EXCEPT ![a] = e]

\* A call begins.
Enter(a, v, c) ==
    LET busy == {b \in Call : pc[b] \notin {"idle", "ok", "failed"}} IN
    /\ pc[a] = "idle"
    /\ via' = [via EXCEPT ![a] = v]
    /\ config' = [config EXCEPT ![a] = c]
    /\ raced' = IF busy = {} THEN raced ELSE raced \cup busy \cup {a}
    /\ UNCHANGED <<disk, deploys>>

\* build_engine on a builder: `self.build()?` and then SsrEngine::new.
BuildEngine(a, b) ==
    /\ Enter(a, "build_engine", Filled(b))
    /\ IF Valid(Filled(b)) THEN Move(a, "checking") ELSE Fail(a, "Config")
    /\ UNCHANGED <<SSR_BUNDLE, text, workers>>

\* SsrEngine::new on a configuration written out, which nothing validates.
NewEngine(a, c) ==
    /\ Enter(a, "new", c) /\ Move(a, "checking")
    /\ UNCHANGED <<SSR_BUNDLE, text, workers>>

InitBundle(a, p) ==
    /\ Enter(a, "init_bundle", [Default EXCEPT !.bundle_path = p])
    /\ Move(a, "checking")
    /\ UNCHANGED <<SSR_BUNDLE, text, workers>>

Ready(a) == Move(a, IF via[a] \in {"build_engine", "new"} THEN "spawning" ELSE "ok")

\* Variant of CheckCell: without the early return.
CheckCell_Always(a) ==
    /\ pc[a] = "checking" /\ Move(a, "reading")
    /\ UNCHANGED <<disk, deploys, SSR_BUNDLE, via, config, text, workers, raced>>

\* init_bundle returns at once when there is a bundle, whatever its path.
CheckCell(a) ==
    /\ pc[a] = "checking"
    /\ IF SSR_BUNDLE # None THEN Ready(a) ELSE Move(a, "reading")
    /\ UNCHANGED <<disk, deploys, SSR_BUNDLE, via, config, text, workers, raced>>

\* Variant of ReadFile: an unreadable file is let pass.
ReadFile_Lenient(a) ==
    LET script == disk[config[a].bundle_path] IN
    /\ pc[a] = "reading"
    /\ IF script = None
       THEN Ready(a) /\ UNCHANGED text
       ELSE /\ text' = [text EXCEPT ![a] = [script |-> script, polyfilled |-> TRUE]]
            /\ Move(a, "setting")
    /\ UNCHANGED <<disk, deploys, SSR_BUNDLE, via, config, workers, raced>>

ReadFile(a) ==
    LET script == disk[config[a].bundle_path] IN
    /\ pc[a] = "reading"
    /\ IF script = None
       THEN Fail(a, "Unreadable") /\ UNCHANGED text
       ELSE /\ text' = [text EXCEPT ![a] = [script |-> script, polyfilled |-> TRUE]]
            /\ Move(a, "setting")
    /\ UNCHANGED <<disk, deploys, SSR_BUNDLE, via, config, workers, raced>>

\* Variant of SetCell: a plain store.
SetCell_Overwrites(a) ==
    /\ pc[a] = "setting"
    /\ SSR_BUNDLE' = text[a] /\ Ready(a)
    /\ UNCHANGED <<disk, deploys, via, config, text, workers, raced>>

\* OnceLock::set.
SetCell(a) ==
    /\ pc[a] = "setting"
    /\ IF SSR_BUNDLE = None
       THEN SSR_BUNDLE' = text[a] /\ Ready(a)
       ELSE Fail(a, "AlreadySet") /\ UNCHANGED SSR_BUNDLE
    /\ UNCHANGED <<disk, deploys, via, config, text, workers, raced>>

\* init_bundle_from_string and init_bundle_raw never return early.
GiveText(a, v, script) ==
    /\ Enter(a, v, None) /\ Move(a, "setting")
    /\ text' = [text EXCEPT ![a] = [script |-> script, polyfilled |-> v = "from_string"]]
    /\ UNCHANGED <<SSR_BUNDLE, workers>>

NewWorkers(c) == [w \in 1 .. c.pool_size |-> [state |-> "starting", text |-> None]]

\* The rest of SsrEngine::new.
Spawn(a) ==
    /\ pc[a] = "spawning" /\ Move(a, "ok")
    /\ workers' = [workers EXCEPT ![a] = NewWorkers(config[a])]
    /\ UNCHANGED <<disk, deploys, SSR_BUNDLE, via, config, text, raced>>

\* V8Pool::new on its own asks for no bundle.
NewPool(a) ==
    /\ Enter(a, "V8Pool", Default) /\ Move(a, "ok")
    /\ workers' = [workers EXCEPT ![a] = NewWorkers(Default)]
    /\ UNCHANGED <<SSR_BUNDLE, text>>

\* Polyfills are what a script that touches `window` when it is loaded needs.
Loads(t) == t.script # "broken" /\ (t.script = "browser" => t.polyfilled)

\* init_runtime in a worker thread: get_bundle panics when there is no bundle,
\* and a bundle that does not load ends the thread.
StartWorker(a, w) ==
    /\ w \in DOMAIN workers[a] /\ workers[a][w].state = "starting"
    /\ workers' = [workers EXCEPT ![a][w] =
          IF SSR_BUNDLE = None   THEN [state |-> "panicked", text |-> None]
          ELSE IF Loads(SSR_BUNDLE) THEN [state |-> "running", text |-> SSR_BUNDLE]
          ELSE [state |-> "exited", text |-> None]]
    /\ UNCHANGED <<disk, deploys, SSR_BUNDLE, pc, via, config, text, error, raced>>

\* A panic while it renders ends a worker that had started.  Nothing replaces
\* it, and the pool does not learn of it.
CrashWorker(a, w) ==
    /\ w \in DOMAIN workers[a] /\ Running(workers[a][w])
    /\ workers' = [workers EXCEPT ![a][w] = [state |-> "crashed", text |-> None]]
    /\ UNCHANGED <<disk, deploys, SSR_BUNDLE, pc, via, config, text, error, raced>>

\* External: a bundle file is written.
Deploy(p, script) ==
    /\ deploys < MaxDeploys /\ deploys' = deploys + 1
    /\ disk[p] # script /\ disk' = [disk EXCEPT ![p] = script]
    /\ UNCHANGED <<SSR_BUNDLE, own, raced>>

Step(a) == CheckCell(a) \/ ReadFile(a) \/ SetCell(a) \/ Spawn(a)

Begin(a) ==
    \/ \E b \in Builders : BuildEngine(a, b)
    \/ \E c \in Literals : NewEngine(a, c)
    \/ \E p \in Path : InitBundle(a, p)
    \/ \E v \in {"from_string", "raw"}, s \in Strings : GiveText(a, v, s)
    \/ NewPool(a)

StartNext ==
    \/ \E a \in Call : Begin(a) \/ Step(a)
    \/ \E a \in Call : \E w \in DOMAIN workers[a] : StartWorker(a, w) \/ CrashWorker(a, w)
    \/ \E p \in Path, s \in Strings : Deploy(p, s)

StartSpec == StartInit /\ [][StartNext]_start

-----------------------------------------------------------------------------
StartTypeOK ==
    /\ disk \in [Path -> Scripts \cup {None}] /\ deploys \in 0 .. MaxDeploys
    /\ SSR_BUNDLE \in Text \cup {None}
    /\ pc \in [Call -> Steps] /\ via \in [Call -> Via \cup {None}]
    /\ text \in [Call -> Text \cup {None}] /\ error \in [Call -> Errors \cup {None}]
    /\ \A a \in Call : \A w \in DOMAIN workers[a] : workers[a][w] \in Thread
    /\ raced \subseteq Call

\* All workers of all engines and pools of a process run one and the same
\* bundle, whatever paths their configurations name and however the files
\* change between two constructions (bundle.rs:185-201, runtime.rs:29).
OneBundle ==
    \A a, b \in Call : \A v \in DOMAIN workers[a], w \in DOMAIN workers[b] :
        Running(workers[a][v]) /\ Running(workers[b][w])
            => workers[a][v].text = workers[b][w].text

\* No worker of an engine ever panics for want of a bundle (bundle.rs:231,
\* engine.rs:53): an engine that could not load one is not made.
EnginesFindBundle ==
    \A a \in Engines : \A w \in DOMAIN workers[a] : workers[a][w].state # "panicked"

\* Making an engine or naming a bundle file fails with `Bundle already
\* initialized` only when it overlapped another call: calls made one after the
\* other get the bundle that is there (bundle.rs:185, 201).
SequentialInitsAgree ==
    \A a \in Call : error[a] = "AlreadySet"
        => a \in raced \/ via[a] \in {"from_string", "raw"}
=============================================================================
