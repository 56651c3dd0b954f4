------------------------------- MODULE V8Pool -------------------------------
(***************************************************************************)
(* V8Pool (src/v8_pool/pool.rs): asynchronous calls put render requests    *)
(* into a bounded channel, worker threads that share its receiver behind a *)
(* mutex take them out, render, and answer through a oneshot channel.      *)
(* Calls time out while the channel is full, may be cancelled wherever     *)
(* they await, and workers may fail to start or panic.                     *)
(*                                                                         *)
(* A call stands for one future of render_with_data and the request it     *)
(* sends; what is rendered does not matter here.                           *)
(*                                                                         *)
(* External: std::sync::mpsc::sync_channel (a FIFO; with capacity 0 a send *)
(* succeeds only into a waiting receive), tokio::sync::oneshot, Mutex.     *)
(***************************************************************************)
EXTENDS Integers, FiniteSets, SequencesExt

CONSTANTS
    Call,            \* futures of render_with_data
    Worker,          \* the num_threads worker threads
    NoCall,          \* the job of a worker that has none
    QueueCapacity,   \* the values queue_capacity may have
    Timeout,         \* request_timeout; NoTimeout is None
    NoTimeout,
    MaxNow           \* bound: the clock stops here, past every deadline

ASSUME PoolConstants ==
    /\ NoCall \notin Call
    /\ IsFiniteSet(Worker)
    /\ QueueCapacity \subseteq Nat
    /\ NoTimeout \notin Nat /\ Timeout \in Nat \cup {NoTimeout}

VARIABLES
    capacity,      \* queue_capacity of this pool
    queue,         \* requests in the channel's buffer
    open,          \* the pool has not been dropped
    worker_count,
    wpc,           \* where each worker thread is
    job,           \* the request it renders
    cpc,           \* where each call is
    deadline,      \* when it stops retrying
    answer,        \* its oneshot channel
    outcome,       \* what it returned
    now,
    runs           \* history: how often each request was handed to V8

calls   == <<cpc, deadline, answer, outcome>>
workers == <<wpc, job, worker_count>>
vars    == <<capacity, queue, open, now, runs, calls, workers>>

WorkerSteps == {"starting", "ready", "receiving", "rendering", "exited", "panicked"}
CallSteps   == {"idle", "sending", "waiting", "returned", "cancelled"}
Live        == {w \in Worker : wpc[w] \notin {"exited", "panicked"}}

\* V8Pool::new: all workers are spawned, and counted, before it returns.
Init ==
    /\ capacity \in QueueCapacity
    /\ queue = << >> /\ open = TRUE /\ now = 0
    /\ worker_count = Cardinality(Worker)
    /\ wpc = [w \in Worker |-> "starting"] /\ job = [w \in Worker |-> NoCall]
    /\ cpc = [c \in Call |-> "idle"] /\ deadline = [c \in Call |-> NoTimeout]
    /\ answer = [c \in Call |-> "none"] /\ outcome = [c \in Call |-> "none"]
    /\ runs = [c \in Call |-> 0]

WorkerGoto(w, step) == wpc' = [wpc EXCEPT ![w] = step]
CallGoto(c, step)   == cpc' = [cpc EXCEPT ![c] = step]

-----------------------------------------------------------------------------
NewDeadline == IF Timeout = NoTimeout THEN NoTimeout ELSE now + Timeout

\* A call borrows the pool, so it starts before the drop.
Begin(c) ==
    /\ cpc[c] = "idle" /\ open
    /\ NewDeadline # NoTimeout => NewDeadline <= MaxNow
    /\ CallGoto(c, "sending")
    /\ deadline' = [deadline EXCEPT ![c] = NewDeadline]
    /\ UNCHANGED <<capacity, queue, open, now, runs, answer, outcome, workers>>

\* The channel takes a request into its buffer, or without a buffer straight
\* into the hands of the worker that waits in recv.
Waiting == {w \in Worker : wpc[w] = "receiving" /\ job[w] = NoCall}

\* Variant of Full: one request too many.
Full_Late == IF capacity = 0 THEN Waiting = {} ELSE Len(queue) > capacity

Full == IF capacity = 0 THEN Waiting = {} ELSE Len(queue) >= capacity

\* try_send
Send(c) ==
    /\ cpc[c] = "sending" /\ ~Full
    /\ IF capacity = 0
       THEN /\ \E w \in Waiting : job' = [job EXCEPT ![w] = c]
            /\ UNCHANGED queue
       ELSE queue' = Append(queue, c) /\ UNCHANGED job
    /\ CallGoto(c, "waiting")
    /\ UNCHANGED <<capacity, open, now, runs, deadline, answer, outcome, wpc, worker_count>>

\* Variant of Expired: the deadline moves on with every attempt.
Expired_Restarts(c) == Timeout # NoTimeout /\ now >= now + Timeout

Expired(c) == deadline[c] # NoTimeout /\ now >= deadline[c]

\* Variant of TimedOut: the request stays behind in the channel.
TimedOut_Sent(c) ==
    /\ cpc[c] = "sending" /\ Full /\ Expired(c)
    /\ CallGoto(c, "returned")
    /\ outcome' = [outcome EXCEPT ![c] = "Timeout"]
    /\ queue' = Append(queue, c)
    /\ UNCHANGED <<capacity, open, now, runs, deadline, answer, workers>>

\* Only an attempt that finds the channel full looks at the deadline.  One that
\* finds it full in time yields and tries again, which changes nothing.
TimedOut(c) ==
    /\ cpc[c] = "sending" /\ Full /\ Expired(c)
    /\ CallGoto(c, "returned")
    /\ outcome' = [outcome EXCEPT ![c] = "Timeout"]
    /\ UNCHANGED <<capacity, queue, open, now, runs, deadline, answer, workers>>

Reported == [html |-> "html", error |-> "Render", dropped |-> "WorkerCrashed"]

\* response_rx.await has no deadline.  A sender dropped without an answer is
\* reported as WorkerCrashed.
Return(c) ==
    /\ cpc[c] = "waiting" /\ answer[c] # "none"
    /\ CallGoto(c, "returned")
    /\ outcome' = [outcome EXCEPT ![c] = Reported[answer[c]]]
    /\ UNCHANGED <<capacity, queue, open, now, runs, deadline, answer, workers>>

\* The caller drops the future at yield_now or at the await.  A request already
\* sent stays sent.
Cancel(c) ==
    /\ cpc[c] \in {"sending", "waiting"}
    /\ CallGoto(c, "cancelled")
    /\ UNCHANGED <<capacity, queue, open, now, runs, deadline, answer, outcome, workers>>

\* Drop of the pool: nobody borrows it any more; the sender goes away.
DropPool ==
    /\ open /\ \A c \in Call : cpc[c] \notin {"sending", "waiting"}
    /\ open' = FALSE
    /\ UNCHANGED <<capacity, queue, now, runs, calls, workers>>

-----------------------------------------------------------------------------
\* init_runtime
Start(w) ==
    /\ wpc[w] = "starting"
    /\ WorkerGoto(w, "ready")
    /\ UNCHANGED <<capacity, queue, open, now, runs, calls, job, worker_count>>

StartFails(w) ==
    /\ wpc[w] = "starting"
    /\ WorkerGoto(w, "exited")
    /\ worker_count' = worker_count - 1
    /\ UNCHANGED <<capacity, queue, open, now, runs, calls, job>>

\* request_rx.lock(), held until recv returns.
Lock(w) ==
    /\ wpc[w] = "ready" /\ \A v \in Worker : wpc[v] # "receiving"
    /\ WorkerGoto(w, "receiving")
    /\ UNCHANGED <<capacity, queue, open, now, runs, calls, job, worker_count>>

\* Variant of Receive: looks at the request without taking it out.
Receive_Peek(w) ==
    /\ wpc[w] = "receiving" /\ (job[w] # NoCall \/ queue # << >>)
    /\ job' = [job EXCEPT ![w] = IF @ # NoCall THEN @ ELSE Head(queue)]
    /\ runs' = [runs EXCEPT ![job'[w]] = @ + 1]
    /\ WorkerGoto(w, "rendering")
    /\ UNCHANGED <<capacity, queue, open, now, calls, worker_count>>

\* recv returns a request, which is also taken when its caller is gone or the
\* pool has been dropped.
Receive(w) ==
    /\ wpc[w] = "receiving" /\ (job[w] # NoCall \/ queue # << >>)
    /\ IF job[w] # NoCall THEN UNCHANGED <<queue, job>>
       ELSE queue' = Tail(queue) /\ job' = [job EXCEPT ![w] = Head(queue)]
    /\ runs' = [runs EXCEPT ![job'[w]] = @ + 1]
    /\ WorkerGoto(w, "rendering")
    /\ UNCHANGED <<capacity, open, now, calls, worker_count>>

\* Variant of Disconnected: tries again instead of leaving the loop.
Disconnected_Retries(w) ==
    /\ wpc[w] = "receiving" /\ job[w] = NoCall /\ queue = << >> /\ ~open
    /\ WorkerGoto(w, "ready")
    /\ UNCHANGED <<capacity, queue, open, now, runs, calls, job, worker_count>>

\* recv fails once the sender is gone and the buffer is empty.
Disconnected(w) ==
    /\ wpc[w] = "receiving" /\ job[w] = NoCall /\ queue = << >> /\ ~open
    /\ WorkerGoto(w, "exited")
    /\ worker_count' = worker_count - 1
    /\ UNCHANGED <<capacity, queue, open, now, runs, calls, job>>

\* with_runtime returns and the result is sent, to nobody if the call is gone.
Finish(w, result) ==
    /\ wpc[w] = "rendering"
    /\ answer' = [answer EXCEPT ![job[w]] = result]
    /\ job' = [job EXCEPT ![w] = NoCall]
    /\ WorkerGoto(w, "ready")
    /\ UNCHANGED <<capacity, queue, open, now, runs, cpc, deadline, outcome, worker_count>>

\* Variant of Panic: the panic leaks the request and its sender.
Panic_Leaks(w) ==
    /\ wpc[w] = "rendering"
    /\ WorkerGoto(w, "panicked")
    /\ job' = [job EXCEPT ![w] = NoCall]
    /\ UNCHANGED <<capacity, queue, open, now, runs, calls, worker_count>>

\* A panic in with_runtime unwinds the thread: the request and its sender are
\* dropped, nobody counts the worker out, and no other takes its place.
Panic(w) ==
    /\ wpc[w] = "rendering"
    /\ WorkerGoto(w, "panicked")
    /\ job' = [job EXCEPT ![w] = NoCall]
    /\ answer' = [answer EXCEPT ![job[w]] = "dropped"]
    /\ UNCHANGED <<capacity, queue, open, now, runs, cpc, deadline, outcome, worker_count>>

\* get_bundle or JsRuntime::new panics before the loop.
StartPanics(w) ==
    /\ wpc[w] = "starting"
    /\ WorkerGoto(w, "panicked")
    /\ UNCHANGED <<capacity, queue, open, now, runs, calls, job, worker_count>>

-----------------------------------------------------------------------------
Tick ==
    /\ now < MaxNow
    /\ now' = now + 1
    /\ UNCHANGED <<capacity, queue, open, runs, calls, workers>>

Starts(w) == Start(w) \/ StartFails(w) \/ StartPanics(w)
Recv(w)   == Receive(w) \/ Disconnected(w)
Render(w) == \/ \E result \in {"html", "error"} : Finish(w, result)
             \/ Panic(w)
Attempt(c) == Send(c) \/ TimedOut(c)

Next ==
    \/ Tick \/ DropPool
    \/ \E c \in Call : Begin(c) \/ Attempt(c) \/ Return(c) \/ Cancel(c)
    \/ \E w \in Worker : Starts(w) \/ Lock(w) \/ Recv(w) \/ Render(w)

Spec == Init /\ [][Next]_vars

\* Threads and polled futures keep running and time passes; some worker gets a
\* free mutex, not necessarily each; a render ends, which is up to the bundle.
FairSpec ==
    /\ Spec /\ WF_vars(Tick) /\ WF_vars(\E w \in Worker : Lock(w))
    /\ \A w \in Worker : WF_vars(Starts(w)) /\ WF_vars(Recv(w)) /\ WF_vars(Render(w))
    /\ \A c \in Call : WF_vars(Attempt(c)) /\ WF_vars(Return(c))

-----------------------------------------------------------------------------
Places(c) ==
    [queued  |-> Cardinality({i \in DOMAIN queue : queue[i] = c}),
     held    |-> Cardinality({w \in Worker : job[w] = c}),
     settled |-> IF answer[c] = "none" THEN 0 ELSE 1]

TypeOK ==
    /\ capacity \in QueueCapacity /\ queue \in Seq(Call) /\ Len(queue) <= capacity
    /\ open \in BOOLEAN /\ now \in Nat
    /\ worker_count \in 0 .. Cardinality(Worker)
    /\ wpc \in [Worker -> WorkerSteps] /\ job \in [Worker -> Call \cup {NoCall}]
    /\ cpc \in [Call -> CallSteps]
    /\ deadline \in [Call -> Nat \cup {NoTimeout}]
    /\ answer \in [Call -> {"none", "html", "error", "dropped"}]
    /\ outcome \in [Call -> {"none", "html", "Render", "WorkerCrashed", "Timeout"}]
    /\ runs \in [Call -> Nat]

\* A sent request is in the channel, or with one worker, or answered: it is
\* neither lost nor handed out twice by the shared receiver, and a panic
\* accounts for the one it was rendering (pool.rs:247-276).
SentIsSomewhere ==
    \A c \in Call :
        LET p == Places(c)
        IN  /\ p.queued + p.held + p.settled <= 1
            /\ cpc[c] = "waiting" => p.queued + p.held + p.settled = 1

\* A call that reports Timeout has left no request behind, so its caller may
\* try again without rendering twice (pool.rs:164-181).
TimeoutNeverRuns ==
    \A c \in Call : outcome[c] = "Timeout" =>
        runs[c] = 0 /\ Places(c).queued = 0 /\ Places(c).held = 0

\* A call that has sent its request gets its answer unless it is cancelled or
\* every worker is gone; other workers' panics do not strand it.
SentIsAnswered ==
    \A c \in Call : cpc[c] = "waiting" ~> cpc[c] # "waiting" \/ Live = {}

\* With a timeout no call retries for ever, whatever the workers do.
SendingEnds ==
    Timeout # NoTimeout => \A c \in Call : cpc[c] = "sending" ~> cpc[c] # "sending"

\* Once the pool is dropped every worker renders what is left and exits
\* (pool.rs:201-205): "workers will receive disconnect and exit".
ShutdownCompletes == ~open ~> Live = {}

\* The stage of a request, by where it is found.
Stage ==
    [c \in Call |->
        IF answer[c] # "none" THEN "settled"
        ELSE IF \E w \in Worker : job[w] = c /\ wpc[w] = "rendering" THEN "running"
        ELSE IF \/ \E w \in Worker : job[w] = c
                \/ \E i \in DOMAIN queue : queue[i] = c THEN "accepted"
        ELSE IF cpc[c] = "idle" THEN "new"
        ELSE IF cpc[c] = "sending" THEN "asking"
        ELSE "given up"]

\* The pool serves requests as RenderService promises, whatever calls time out
\* or are cancelled and whatever workers panic: none is rendered twice, settled
\* twice or given up after it was accepted (pool.rs:151-188, 247-276).
Promise == INSTANCE RenderService WITH stage <- Stage, result <- answer, told <- outcome
ImplementsRenderService == Promise!Spec

-----------------------------------------------------------------------------
\* pool.rs:190, "Get the number of active workers", engine.rs:207, "Get the
\* number of active V8 workers": worker_count counts the workers that can still
\* render.  The code counts a worker out when it fails to start or leaves its
\* loop (pool.rs:238-240, 286-287), and not when a panic unwinds its thread.
CountsActive == worker_count = Cardinality(Live)
=============================================================================
