---------------------------- MODULE V8PoolProofs ----------------------------
(***************************************************************************)
(* For any calls, workers, queue capacities and timeout: where a request   *)
(* may be, what a Timeout means, that the counter never wraps, and that    *)
(* the pool serves requests as RenderService promises.                     *)
(***************************************************************************)
EXTENDS V8Pool, FiniteSetTheorems, TLAPS

Queued(c) == \E i \in 1 .. Len(queue) : queue[i] = c
Held(c)   == \E w \in Worker : job[w] = c

\* TypeOK but for the range of worker_count, which Counted gives.
Types ==
    /\ capacity \in QueueCapacity /\ queue \in Seq(Call) /\ Len(queue) <= capacity
    /\ open \in BOOLEAN /\ now \in Nat
    /\ wpc \in [Worker -> WorkerSteps] /\ job \in [Worker -> Call \cup {NoCall}]
    /\ cpc \in [Call -> CallSteps]
    /\ deadline \in [Call -> Nat \cup {NoTimeout}]
    /\ answer \in [Call -> {"none", "html", "error", "dropped"}]
    /\ outcome \in [Call -> {"none", "html", "Render", "WorkerCrashed", "Timeout"}]
    /\ runs \in [Call -> Nat]

\* A worker has a request while it renders, and perhaps as it receives it.
Jobs ==
    \A w \in Worker :
        /\ wpc[w] = "rendering" => job[w] # NoCall
        /\ job[w] # NoCall => wpc[w] \in {"receiving", "rendering"}

\* No request is in two places.
OnePlace ==
    /\ \A i, j \in 1 .. Len(queue) : queue[i] = queue[j] => i = j
    /\ \A v, w \in Worker : job[v] # NoCall /\ job[v] = job[w] => v = w
    /\ \A c \in Call : ~ (Queued(c) /\ Held(c))
    /\ \A c \in Call : answer[c] # "none" => ~Queued(c) /\ ~Held(c)

\* A request that was not sent is nowhere and was never rendered; one that was
\* sent is somewhere.
Unsent(c) == ~Queued(c) /\ ~Held(c) /\ answer[c] = "none" /\ runs[c] = 0

Accounted ==
    \A c \in Call :
        /\ cpc[c] \in {"idle", "sending"} \/ outcome[c] = "Timeout" => Unsent(c)
        /\ cpc[c] = "waiting" => Queued(c) \/ Held(c) \/ answer[c] # "none"
        /\ outcome[c] # "none" => cpc[c] = "returned"

IInv == Types /\ Jobs /\ OnePlace /\ Accounted

-----------------------------------------------------------------------------
LEMMA AppendFacts ==
  ASSUME NEW q \in Seq(Call), NEW c \in Call
  PROVE  /\ Append(q, c) \in Seq(Call) /\ Len(Append(q, c)) = Len(q) + 1
         /\ Append(q, c)[Len(q) + 1] = c
         /\ \A i \in 1 .. Len(q) : Append(q, c)[i] = q[i]
  OBVIOUS

LEMMA TailFacts ==
  ASSUME NEW q \in Seq(Call), q # << >>
  PROVE  /\ Tail(q) \in Seq(Call) /\ Len(Tail(q)) = Len(q) - 1 /\ Len(q) >= 1
         /\ Head(q) = q[1] /\ q[1] \in Call
         /\ \A i \in 1 .. Len(q) - 1 : Tail(q)[i] = q[i + 1]
  OBVIOUS

LEMMA InitIInv == Init => IInv
<1> SUFFICES ASSUME Init PROVE IInv
  OBVIOUS
<1> USE PoolConstants DEF Init
<1>1. Types
  BY DEF Types, WorkerSteps, CallSteps
<1>2. Jobs /\ OnePlace /\ Accounted
  BY DEF Jobs, OnePlace, Accounted, Unsent, Queued, Held
<1> QED
  BY <1>1, <1>2 DEF IInv

\* Steps that move no request.
LEMMA StillIInv ==
  ASSUME IInv, UNCHANGED <<capacity, queue, job, answer, runs>>,
         open' \in BOOLEAN, now' \in Nat, wpc' \in [Worker -> WorkerSteps],
         deadline' \in [Call -> Nat \cup {NoTimeout}],
         cpc' \in [Call -> CallSteps],
         outcome' \in [Call -> {"none", "html", "Render", "WorkerCrashed", "Timeout"}],
         \A w \in Worker : wpc'[w] # wpc[w] => wpc'[w] # "rendering" /\ job[w] = NoCall,
         \A c \in Call : \/ cpc'[c] = cpc[c] /\ outcome'[c] = outcome[c]
                         \/ /\ cpc'[c] \in {"sending", "returned", "cancelled"}
                            /\ cpc'[c] = "sending" => cpc[c] = "idle" /\ outcome'[c] = outcome[c]
                            /\ cpc'[c] = "cancelled" => outcome'[c] = outcome[c] /\ cpc[c] # "returned"
                            /\ outcome'[c] = "Timeout" => outcome[c] = "Timeout" \/ cpc[c] = "sending"
  PROVE  IInv'
<1>1. Types'
  BY DEF IInv, Types
<1>2. Jobs'
  BY DEF IInv, Jobs
<1>3. OnePlace'
  BY DEF IInv, OnePlace, Queued, Held
<1>4. ASSUME NEW c \in Call
      PROVE  /\ cpc'[c] \in {"idle", "sending"} \/ outcome'[c] = "Timeout" => Unsent(c)
             /\ cpc'[c] = "waiting" => Queued(c) \/ Held(c) \/ answer[c] # "none"
             /\ outcome'[c] # "none" => cpc'[c] = "returned"
  <2>1. /\ cpc[c] \in {"idle", "sending"} \/ outcome[c] = "Timeout" => Unsent(c)
        /\ cpc[c] = "waiting" => Queued(c) \/ Held(c) \/ answer[c] # "none"
        /\ outcome[c] # "none" => cpc[c] = "returned"
    BY DEF IInv, Accounted
  <2>2. cpc[c] \in CallSteps /\ cpc'[c] \in CallSteps
    BY DEF IInv, Types
  <2> QED
    BY <2>1, <2>2
<1>5. Accounted'
  BY <1>4 DEF Accounted, Unsent, Queued, Held
<1> QED
  BY <1>1, <1>2, <1>3, <1>5 DEF IInv

LEMMA ReportedFacts ==
  ASSUME NEW a \in {"html", "error", "dropped"}
  PROVE  Reported[a] \in {"html", "Render", "WorkerCrashed"}
  BY DEF Reported

\* Calls begin, return, time out and are cancelled.
LEMMA CallIInv ==
  ASSUME IInv, NEW c \in Call, Begin(c) \/ TimedOut(c) \/ Return(c) \/ Cancel(c)
  PROVE  IInv'
<1> USE DEF CallGoto, CallSteps, workers, calls
<1>0. /\ wpc \in [Worker -> WorkerSteps] /\ open \in BOOLEAN /\ now \in Nat
      /\ cpc \in [Call -> CallSteps] /\ deadline \in [Call -> Nat \cup {NoTimeout}]
      /\ outcome \in [Call -> {"none", "html", "Render", "WorkerCrashed", "Timeout"}]
      /\ answer \in [Call -> {"none", "html", "error", "dropped"}]
  BY DEF IInv, Types
<1>1. CASE Begin(c)
  <2>1. NewDeadline \in Nat \cup {NoTimeout}
    BY <1>0, PoolConstants DEF NewDeadline
  <2> HIDE DEF NewDeadline
  <2> QED
    BY <1>0, <1>1, <2>1, StillIInv DEF Begin
<1>2. CASE TimedOut(c)
  BY <1>0, <1>2, StillIInv DEF TimedOut
<1>3. CASE Return(c)
  <2> DEFINE r == Reported[answer[c]]
  <2>1. r \in {"html", "Render", "WorkerCrashed"}
    BY <1>0, <1>3, ReportedFacts DEF Return
  <2>2. /\ cpc[c] = "waiting" /\ cpc' = [cpc EXCEPT ![c] = "returned"]
        /\ outcome' = [outcome EXCEPT ![c] = r]
        /\ UNCHANGED <<capacity, queue, open, now, runs, deadline, answer, wpc, job>>
    BY <1>3 DEF Return
  <2> HIDE DEF r
  <2> QED
    BY <1>0, <2>1, <2>2, StillIInv
<1>4. CASE Cancel(c)
  BY <1>0, <1>4, StillIInv DEF Cancel
<1> QED
  BY <1>1, <1>2, <1>3, <1>4

\* Workers start, wait and leave, the clock ticks, the pool is dropped.
LEMMA WorkerIInv ==
  ASSUME IInv,
         \/ \E w \in Worker : Starts(w) \/ Lock(w) \/ Disconnected(w)
         \/ Tick \/ DropPool \/ UNCHANGED vars
  PROVE  IInv'
<1> USE DEF WorkerGoto, WorkerSteps, workers, calls
<1>0. /\ wpc \in [Worker -> WorkerSteps] /\ open \in BOOLEAN /\ now \in Nat
      /\ cpc \in [Call -> CallSteps] /\ deadline \in [Call -> Nat \cup {NoTimeout}]
      /\ outcome \in [Call -> {"none", "html", "Render", "WorkerCrashed", "Timeout"}]
  BY DEF IInv, Types
<1>1. ASSUME NEW w \in Worker, Starts(w) \/ Lock(w) \/ Disconnected(w) PROVE IInv'
  <2>1. PICK s \in {"ready", "exited", "panicked", "receiving"} : wpc' = [wpc EXCEPT ![w] = s]
    BY <1>1 DEF Starts, Start, StartFails, StartPanics, Lock, Disconnected
  <2>2. /\ job[w] = NoCall
        /\ UNCHANGED <<capacity, queue, open, now, runs, cpc, deadline, answer, outcome, job>>
    BY <1>1 DEF Starts, Start, StartFails, StartPanics, Lock, Disconnected, IInv, Jobs
  <2> QED
    BY <1>0, <2>1, <2>2, StillIInv
<1>2. CASE Tick
  BY <1>0, <1>2, StillIInv DEF Tick
<1>3. CASE DropPool
  BY <1>0, <1>3, StillIInv DEF DropPool
<1>4. CASE UNCHANGED vars
  BY <1>0, <1>4, StillIInv DEF vars
<1> QED
  BY <1>1, <1>2, <1>3, <1>4

\* A request goes from its caller into the buffer or to the waiting worker.
LEMMA SendIInv ==
  ASSUME IInv, NEW c \in Call, Send(c)
  PROVE  IInv'
<1> USE DEF Send, CallGoto, CallSteps, workers
<1>0. /\ Unsent(c) /\ cpc[c] = "sending" /\ outcome[c] = "none" /\ c # NoCall
      /\ cpc' = [cpc EXCEPT ![c] = "waiting"]
      /\ UNCHANGED <<capacity, open, now, runs, deadline, answer, outcome, wpc>>
  BY PoolConstants DEF IInv, Accounted
<1>1. ASSUME capacity # 0, queue' = Append(queue, c), job' = job PROVE IInv'
  <2> DEFINE n == Len(queue) + 1
  <2>1. /\ n \in Nat /\ n <= capacity /\ queue' \in Seq(Call) /\ Len(queue') = n
        /\ queue'[n] = c /\ \A i \in 1 .. n - 1 : queue'[i] = queue[i]
    BY <1>0, <1>1, AppendFacts, PoolConstants DEF IInv, Types, Full
  <2> HIDE DEF n
  <2>2. Len(queue) = n - 1
    BY <2>1 DEF n, IInv, Types
  <2>3. Types'
    BY <1>0, <1>1, <2>1 DEF IInv, Types
  <2>4. Jobs'
    BY <1>0, <1>1 DEF IInv, Jobs
  <2>5. \A i \in 1 .. n : i = n \/ i \in 1 .. n - 1
    BY <2>1
  <2>6. OnePlace'
    BY <1>0, <1>1, <2>1, <2>2, <2>5 DEF IInv, OnePlace, Unsent, Queued, Held
  <2>7. n \in 1 .. n /\ \A i \in 1 .. n - 1 : i \in 1 .. n
    BY <2>1 DEF n, IInv, Types
  <2>8. \A d \in Call : (Queued(d)' <=> Queued(d) \/ d = c) /\ (Held(d)' <=> Held(d))
    BY <1>1, <2>1, <2>2, <2>5, <2>7 DEF Queued, Held
  <2>9. ASSUME NEW d \in Call
        PROVE  /\ cpc'[d] \in {"idle", "sending"} \/ outcome'[d] = "Timeout" =>
                     ~Queued(d)' /\ ~Held(d)' /\ answer'[d] = "none" /\ runs'[d] = 0
               /\ cpc'[d] = "waiting" => Queued(d)' \/ Held(d)' \/ answer'[d] # "none"
               /\ outcome'[d] # "none" => cpc'[d] = "returned"
    BY <1>0, <2>8 DEF IInv, Types, Accounted, Unsent
  <2>10. Accounted'
    BY <2>9 DEF Accounted, Unsent, Queued, Held
  <2> QED
    BY <2>3, <2>4, <2>6, <2>10 DEF IInv
<1>2. ASSUME NEW w \in Waiting, job' = [job EXCEPT ![w] = c], queue' = queue PROVE IInv'
  <2>1. /\ w \in Worker /\ wpc[w] = "receiving" /\ job[w] = NoCall
        /\ job \in [Worker -> Call \cup {NoCall}]
    BY <1>2 DEF Waiting, IInv, Types
  <2>3. Types'
    BY <1>0, <1>2, <2>1 DEF IInv, Types
  <2>4. Jobs'
    BY <1>0, <1>2, <2>1 DEF IInv, Jobs
  <2>6. OnePlace'
    BY <1>0, <1>2, <2>1 DEF IInv, OnePlace, Unsent, Queued, Held
  <2>7. \A d \in Call : Held(d)' <=> Held(d) \/ d = c
    BY <1>0, <1>2, <2>1, PoolConstants DEF Held
  <2>8. ASSUME NEW d \in Call
        PROVE  /\ cpc'[d] \in {"idle", "sending"} \/ outcome'[d] = "Timeout" =>
                     ~Queued(d)' /\ ~Held(d)' /\ answer'[d] = "none" /\ runs'[d] = 0
               /\ cpc'[d] = "waiting" => Queued(d)' \/ Held(d)' \/ answer'[d] # "none"
               /\ outcome'[d] # "none" => cpc'[d] = "returned"
    BY <1>0, <1>2, <2>7 DEF IInv, Types, Accounted, Unsent, Queued
  <2>9. Accounted'
    BY <2>8 DEF Accounted, Unsent, Queued, Held
  <2> QED
    BY <2>3, <2>4, <2>6, <2>9 DEF IInv
<1> QED
  BY <1>1, <1>2

\* The worker that receives has a request, from the buffer or from its sender.
LEMMA ReceiveTakes ==
  ASSUME IInv, NEW w \in Worker, Receive(w)
  PROVE  \E c \in Call :
           /\ c # NoCall /\ job'[w] = c /\ job' = [job EXCEPT ![w] = c]
           /\ job[w] = c \/ (job[w] = NoCall /\ Queued(c))
           /\ \A d \in Call : /\ Queued(d)' <=> Queued(d) /\ d # c
                              /\ Held(d)' <=> Held(d) \/ d = c
<1> USE DEF Receive
<1>0. job \in [Worker -> Call \cup {NoCall}] /\ queue \in Seq(Call)
  BY DEF IInv, Types
<1>1. ASSUME job[w] # NoCall, job' = job, queue' = queue
      PROVE  \A d \in Call : /\ Queued(d)' <=> Queued(d) /\ d # job[w]
                             /\ Held(d)' <=> Held(d) \/ d = job[w]
  BY <1>0, <1>1 DEF IInv, OnePlace, Queued, Held
<1>2. ASSUME job[w] = NoCall, queue # << >>, queue' = Tail(queue),
             job' = [job EXCEPT ![w] = Head(queue)]
      PROVE  /\ queue[1] \in Call /\ Head(queue) = queue[1] /\ Queued(queue[1])
             /\ \A d \in Call : /\ Queued(d)' <=> Queued(d) /\ d # queue[1]
                                /\ Held(d)' <=> Held(d) \/ d = queue[1]
  <2> DEFINE n == Len(queue)  h == queue[1]
  <2>1. /\ n \in Nat /\ n >= 1 /\ Len(queue') = n - 1 /\ h \in Call /\ Head(queue) = h
        /\ \A i \in 1 .. n - 1 : queue'[i] = queue[i + 1]
    BY <1>0, <1>2, TailFacts
  <2>2. Queued(h)
    BY <2>1 DEF Queued
  <2>3. \A i \in 1 .. n - 1 : i + 1 \in 1 .. n /\ i + 1 # 1
    BY <2>1
  <2>4. \A i \in 1 .. n : i = 1 \/ (i - 1 \in 1 .. n - 1 /\ queue'[i - 1] = queue[i])
    BY <2>1
  <2> HIDE DEF n, h
  <2>5. ASSUME NEW d \in Call, NEW i \in 1 .. n - 1, queue'[i] = d PROVE Queued(d) /\ d # h
    BY <2>1, <2>3, <2>5 DEF Queued, IInv, OnePlace, n, h
  <2>6. ASSUME NEW d \in Call, NEW i \in 1 .. n, queue[i] = d, d # h
        PROVE  \E k \in 1 .. n - 1 : queue'[k] = d
    BY <2>4, <2>6 DEF h
  <2>7. \A d \in Call : Queued(d)' <=> Queued(d) /\ d # h
    BY <2>1, <2>5, <2>6 DEF Queued, n
  <2>8. \A d \in Call : Held(d)' <=> Held(d) \/ d = h
    BY <1>0, <1>2, <2>1, PoolConstants DEF Held
  <2> QED
    BY <2>1, <2>2, <2>7, <2>8 DEF h
<1>3. CASE job[w] # NoCall
  <2>1. /\ job[w] \in Call /\ job' = job /\ queue' = queue
        /\ job' = [job EXCEPT ![w] = job[w]]
    BY <1>0, <1>3
  <2> QED
    BY <1>1, <1>3, <2>1
<1>4. CASE job[w] = NoCall
  <2>1. /\ queue # << >> /\ queue' = Tail(queue) /\ job' = [job EXCEPT ![w] = Head(queue)]
    BY <1>4
  <2>2. queue[1] # NoCall /\ job'[w] = queue[1] /\ job' = [job EXCEPT ![w] = queue[1]]
    BY <1>0, <1>2, <1>4, <2>1, PoolConstants
  <2> QED
    BY <1>2, <1>4, <2>1, <2>2
<1> QED
  BY <1>3, <1>4

LEMMA ReceiveIInv ==
  ASSUME IInv, NEW w \in Worker, Receive(w)
  PROVE  IInv'
<1>1. PICK c \in Call :
        /\ c # NoCall /\ job'[w] = c /\ job' = [job EXCEPT ![w] = c]
        /\ job[w] = c \/ (job[w] = NoCall /\ Queued(c))
        /\ \A d \in Call : /\ Queued(d)' <=> Queued(d) /\ d # c
                           /\ Held(d)' <=> Held(d) \/ d = c
  BY ReceiveTakes
<1>2. /\ wpc[w] = "receiving" /\ wpc' = [wpc EXCEPT ![w] = "rendering"]
      /\ UNCHANGED <<capacity, open, now, cpc, deadline, answer, outcome>>
      /\ runs' = [runs EXCEPT ![c] = @ + 1]
  BY <1>1 DEF Receive, WorkerGoto, calls
<1>3. Queued(c) \/ Held(c)
  BY <1>1 DEF Held
<1>4. /\ queue' \in Seq(Call) /\ Len(queue') <= capacity
      /\ \A i, j \in 1 .. Len(queue') : queue'[i] = queue'[j] => i = j
  <2>1. CASE queue' = queue
    BY <2>1 DEF IInv, Types, OnePlace
  <2>2. CASE queue # << >> /\ queue' = Tail(queue)
    <3> DEFINE n == Len(queue)
    <3>1. /\ n \in Nat /\ n <= capacity /\ capacity \in Nat
          /\ queue' \in Seq(Call) /\ Len(queue') = n - 1
          /\ \A i \in 1 .. n - 1 : queue'[i] = queue[i + 1]
      BY <2>2, TailFacts, PoolConstants DEF IInv, Types
    <3>2. \A i \in 1 .. n - 1 : i + 1 \in 1 .. n
      BY <3>1
    <3> QED
      BY <3>1, <3>2 DEF IInv, OnePlace
  <2> QED
    BY <2>1, <2>2 DEF Receive
<1>5. Types'
  BY <1>1, <1>2, <1>4 DEF IInv, Types, WorkerSteps
<1>6. Jobs'
  BY <1>1, <1>2 DEF IInv, Jobs, Types
<1>7. OnePlace'
  <2>1. \A v, x \in Worker : job'[v] # NoCall /\ job'[v] = job'[x] => v = x
    BY <1>1 DEF IInv, OnePlace, Held, Types
  <2>2. \A d \in Call : ~ (Queued(d)' /\ Held(d)')
    BY <1>1 DEF IInv, OnePlace
  <2>3. \A d \in Call : answer'[d] # "none" => ~Queued(d)' /\ ~Held(d)'
    BY <1>1, <1>2, <1>3 DEF IInv, OnePlace
  <2> QED
    BY <1>4, <2>1, <2>2, <2>3 DEF OnePlace, Queued, Held
<1>8. ASSUME NEW d \in Call
      PROVE  /\ cpc'[d] \in {"idle", "sending"} \/ outcome'[d] = "Timeout" =>
                   ~Queued(d)' /\ ~Held(d)' /\ answer'[d] = "none" /\ runs'[d] = 0
             /\ cpc'[d] = "waiting" => Queued(d)' \/ Held(d)' \/ answer'[d] # "none"
             /\ outcome'[d] # "none" => cpc'[d] = "returned"
  <2>1. d # c => runs'[d] = runs[d]
    BY <1>2 DEF IInv, Types
  <2> QED
    BY <1>1, <1>2, <1>3, <2>1 DEF IInv, Accounted, Unsent, Types
<1>9. Accounted'
  BY <1>8 DEF Accounted, Unsent, Queued, Held
<1> QED
  BY <1>5, <1>6, <1>7, <1>9 DEF IInv

\* A render ends, or unwinds its thread: the request is answered for.
LEMMA SettleIInv ==
  ASSUME IInv, NEW w \in Worker, Render(w)
  PROVE  IInv'
<1>1. PICK r \in {"html", "error", "dropped"}, s \in {"ready", "panicked"} :
        /\ wpc[w] = "rendering" /\ wpc' = [wpc EXCEPT ![w] = s]
        /\ answer' = [answer EXCEPT ![job[w]] = r] /\ job' = [job EXCEPT ![w] = NoCall]
        /\ UNCHANGED <<capacity, queue, open, now, runs, cpc, deadline, outcome>>
  BY DEF Render, Finish, Panic, WorkerGoto
<1> DEFINE c == job[w]
<1>2. c \in Call /\ c # NoCall
  BY <1>1, PoolConstants DEF IInv, Types, Jobs
<1>3. Types'
  BY <1>1, <1>2, PoolConstants DEF IInv, Types, WorkerSteps
<1>4. Jobs'
  BY <1>1 DEF IInv, Jobs, Types
<1>5. \A d \in Call : Held(d)' <=> Held(d) /\ d # c
  BY <1>1, <1>2, PoolConstants DEF Held, IInv, Types, OnePlace
<1>6. Held(c)
  BY DEF Held
<1>7. OnePlace'
  BY <1>1, <1>2, <1>6, PoolConstants DEF IInv, Types, OnePlace, Queued, Held
<1>8. Accounted'
  BY <1>1, <1>2, <1>6, PoolConstants DEF IInv, Types, Accounted, Unsent, Queued, Held, OnePlace
<1> QED
  BY <1>3, <1>4, <1>7, <1>8 DEF IInv

LEMMA Inductive == IInv /\ [Next]_vars => IInv'
<1> SUFFICES ASSUME IInv, [Next]_vars PROVE IInv'
  OBVIOUS
<1>1. ASSUME NEW c \in Call, Begin(c) \/ Attempt(c) \/ Return(c) \/ Cancel(c) PROVE IInv'
  BY <1>1, CallIInv, SendIInv DEF Attempt
<1>2. ASSUME NEW w \in Worker, Starts(w) \/ Lock(w) \/ Recv(w) \/ Render(w) PROVE IInv'
  <2>1. CASE Starts(w) \/ Lock(w) \/ Disconnected(w)
    BY <2>1, WorkerIInv
  <2>2. CASE Receive(w)
    BY <2>2, ReceiveIInv
  <2>3. CASE Render(w)
    BY <2>3, SettleIInv
  <2> QED
    BY <1>2, <2>1, <2>2, <2>3 DEF Recv
<1>3. CASE Tick \/ DropPool \/ UNCHANGED vars
  BY <1>3, WorkerIInv
<1> QED
  BY <1>1, <1>2, <1>3 DEF Next

LEMMA AlwaysIInv == Spec => []IInv
<1> QED
  BY InitIInv, Inductive, PTL DEF Spec

-----------------------------------------------------------------------------
LEMMA PlacesFacts ==
  ASSUME IInv, NEW c \in Call
  PROVE  /\ Places(c).queued = IF Queued(c) THEN 1 ELSE 0
         /\ Places(c).held = IF Held(c) THEN 1 ELSE 0
         /\ Places(c).settled = IF answer[c] = "none" THEN 0 ELSE 1
<1> DEFINE Q == {i \in DOMAIN queue : queue[i] = c}  H == {w \in Worker : job[w] = c}
<1>1. DOMAIN queue = 1 .. Len(queue)
  BY DEF IInv, Types
<1>2. Cardinality(Q) = IF Queued(c) THEN 1 ELSE 0
  <2>1. ASSUME Queued(c) PROVE \E i : Q = {i}
    <3>1. PICK i \in 1 .. Len(queue) : queue[i] = c
      BY <2>1 DEF Queued
    <3>2. Q = {i}
      BY <1>1, <3>1 DEF IInv, OnePlace
    <3> QED
      BY <3>2
  <2>2. ASSUME ~Queued(c) PROVE Q = {}
    BY <1>1, <2>2 DEF Queued
  <2> HIDE DEF Q
  <2> QED
    BY <2>1, <2>2, FS_Singleton, FS_EmptySet
<1>3. Cardinality(H) = IF Held(c) THEN 1 ELSE 0
  <2>1. ASSUME Held(c) PROVE \E w : H = {w}
    <3>1. PICK w \in Worker : job[w] = c
      BY <2>1 DEF Held
    <3>2. H = {w}
      BY <3>1, PoolConstants DEF IInv, OnePlace
    <3> QED
      BY <3>2
  <2>2. ASSUME ~Held(c) PROVE H = {}
    BY <2>2 DEF Held
  <2> HIDE DEF H
  <2> QED
    BY <2>1, <2>2, FS_Singleton, FS_EmptySet
<1> QED
  BY <1>2, <1>3 DEF Places

\* A request that was sent is in exactly one place, any other in none: none is
\* lost, duplicated or handed to two workers, whatever calls are cancelled and
\* whatever workers fail or panic (pool.rs:151-188, 247-276).
THEOREM SentStays == Spec => []SentIsSomewhere
<1>1. ASSUME IInv PROVE SentIsSomewhere
  <2>1. ASSUME NEW c \in Call
        PROVE  /\ Places(c).queued + Places(c).held + Places(c).settled <= 1
               /\ cpc[c] = "waiting" => Places(c).queued + Places(c).held + Places(c).settled = 1
    BY <1>1, PlacesFacts DEF IInv, OnePlace, Accounted
  <2> QED
    BY <2>1 DEF SentIsSomewhere
<1> QED
  BY <1>1, AlwaysIInv, PTL

\* A call that reported Timeout has left nothing behind, was never rendered and
\* never will be (pool.rs:164-181).
THEOREM TimeoutsAreFinal == Spec => []TimeoutNeverRuns
<1>1. ASSUME IInv PROVE TimeoutNeverRuns
  <2>1. ASSUME NEW c \in Call, outcome[c] = "Timeout"
        PROVE  runs[c] = 0 /\ Places(c).queued = 0 /\ Places(c).held = 0
    BY <1>1, <2>1, PlacesFacts DEF IInv, Accounted, Unsent
  <2> QED
    BY <2>1 DEF TimeoutNeverRuns
<1> QED
  BY <1>1, AlwaysIInv, PTL

-----------------------------------------------------------------------------
\* The workers worker_count counts: those that have not left orderly, the
\* panicked ones included.
Present == {w \in Worker : wpc[w] # "exited"}

Counted == worker_count = Cardinality(Present)

LEMMA PresentFacts ==
  IsFiniteSet(Present) /\ Cardinality(Present) \in 0 .. Cardinality(Worker)
<1>1. Present \subseteq Worker
  BY DEF Present
<1>2. /\ IsFiniteSet(Present) /\ IsFiniteSet(Worker)
      /\ Cardinality(Present) <= Cardinality(Worker)
  BY <1>1, PoolConstants, FS_Subset
<1>3. Cardinality(Present) \in Nat /\ Cardinality(Worker) \in Nat
  BY <1>2, FS_CardinalityType
<1> QED
  BY <1>2, <1>3

LEMMA CountedStep == Types /\ Counted /\ [Next]_vars => Counted'
<1> SUFFICES ASSUME Types, Counted, [Next]_vars PROVE Counted'
  OBVIOUS
<1> USE DEF calls, workers, WorkerGoto
<1>0. wpc \in [Worker -> WorkerSteps]
  BY DEF Types
<1>1. ASSUME NEW w \in Worker, StartFails(w) \/ Disconnected(w) PROVE Counted'
  <2>1. Present' = Present \ {w} /\ w \in Present
    BY <1>0, <1>1 DEF Present, StartFails, Disconnected
  <2>2. worker_count' = worker_count - 1
    BY <1>1 DEF StartFails, Disconnected
  <2>3. Cardinality(Present \ {w}) = Cardinality(Present) - 1
    BY <2>1, PresentFacts, FS_RemoveElement
  <2> QED
    BY <2>1, <2>2, <2>3 DEF Counted
<1>2. ASSUME worker_count' = worker_count, Present' = Present PROVE Counted'
  BY <1>2 DEF Counted
<1>3. ASSUME NEW w \in Worker, Start(w) \/ StartPanics(w) \/ Lock(w) \/ Receive(w) \/ Render(w)
      PROVE  worker_count' = worker_count /\ Present' = Present
  <2>1. PICK s \in WorkerSteps \ {"exited"} : wpc' = [wpc EXCEPT ![w] = s]
    BY <1>3 DEF Start, StartPanics, Lock, Receive, Render, Finish, Panic, WorkerSteps
  <2>2. wpc[w] # "exited" /\ worker_count' = worker_count
    BY <1>3 DEF Start, StartPanics, Lock, Receive, Render, Finish, Panic
  <2> QED
    BY <1>0, <2>1, <2>2 DEF Present
<1>4. ASSUME \/ \E c \in Call : Begin(c) \/ Attempt(c) \/ Return(c) \/ Cancel(c)
             \/ Tick \/ DropPool \/ UNCHANGED vars
      PROVE  worker_count' = worker_count /\ Present' = Present
  BY <1>4 DEF Present, Begin, Attempt, Send, TimedOut, Return, Cancel, Tick, DropPool, vars
<1> QED
  BY <1>1, <1>2, <1>3, <1>4 DEF Next, Starts, Recv

LEMMA AlwaysCounted == Spec => []Counted
<1>1. Init => Counted
  <2> SUFFICES ASSUME Init PROVE Counted
    OBVIOUS
  <2>1. Present = Worker
    BY DEF Init, Present
  <2> QED
    BY <2>1 DEF Init, Counted
<1>2. IInv => Types
  BY DEF IInv
<1> QED
  BY <1>1, <1>2, AlwaysIInv, CountedStep, PTL DEF Spec

\* Every variable keeps its type, the channel never holds more than capacity
\* requests, and worker_count, an unsigned counter, never wraps below zero:
\* each decrement has its thread (pool.rs:64-149, 238-240, 286-287).
THEOREM TypeCorrect == Spec => []TypeOK
<1>1. IInv /\ Counted => TypeOK
  BY PresentFacts DEF IInv, Types, Counted, TypeOK
<1> QED
  BY <1>1, AlwaysIInv, AlwaysCounted, PTL

-----------------------------------------------------------------------------
\* The pool implements RenderService: where a request is found is the stage the
\* service has it in.
Running(c) == \E w \in Worker : job[w] = c /\ wpc[w] = "rendering"

StageOf(c) ==
    IF answer[c] # "none" THEN "settled"
    ELSE IF Running(c) THEN "running"
    ELSE IF Held(c) \/ Queued(c) THEN "accepted"
    ELSE IF cpc[c] = "idle" THEN "new"
    ELSE IF cpc[c] = "sending" THEN "asking"
    ELSE "given up"

StageIsStageOf == Stage = [c \in Call |-> StageOf(c)]

LEMMA StageIs == Types => StageIsStageOf
<1> SUFFICES ASSUME Types PROVE StageIsStageOf
  OBVIOUS
<1>1. DOMAIN queue = 1 .. Len(queue)
  BY DEF Types
<1>2. ASSUME NEW c \in Call PROVE Stage[c] = StageOf(c)
  BY <1>1 DEF Stage, StageOf, Running, Held, Queued
<1>3. Stage = [c \in Call |-> Stage[c]]
  BY DEF Stage
<1> QED
  BY <1>2, <1>3 DEF StageIsStageOf

LEMMA StageIsNext == Types' => StageIsStageOf'
<1> QED
  BY StageIs, PTL

\* One request moves on, the others stay.
LEMMA StageMoves ==
  ASSUME Types, Types', NEW c \in Call, NEW s, NEW t, StageOf(c) = s, StageOf(c)' = t,
         \A d \in Call : d # c => StageOf(d)' = StageOf(d)
  PROVE  Promise!Step(c, s, t)
<1>1. Stage = [d \in Call |-> StageOf(d)] /\ Stage' = [d \in Call |-> StageOf(d)']
  BY StageIs, StageIsNext DEF StageIsStageOf
<1> DEFINE f(d) == StageOf(d)  g(d) == StageOf(d)'
<1>2. /\ Stage = [d \in Call |-> f(d)] /\ Stage' = [d \in Call |-> g(d)]
      /\ f(c) = s /\ g(c) = t /\ \A d \in Call : d # c => g(d) = f(d)
  BY <1>1
<1> HIDE DEF f, g
<1>3. Stage[c] = s /\ Stage' = [Stage EXCEPT ![c] = t]
  BY <1>2
<1> QED
  BY <1>3 DEF Promise!Step

LEMMA StageStays ==
  ASSUME Types, Types', \A d \in Call : StageOf(d)' = StageOf(d)
  PROVE  Stage' = Stage
<1>1. Stage = [d \in Call |-> StageOf(d)] /\ Stage' = [d \in Call |-> StageOf(d)']
  BY StageIs, StageIsNext DEF StageIsStageOf
<1> QED
  BY <1>1

Promised == [Promise!Next]_<<Stage, answer, outcome>>

LEMMA CallKeepsPromise ==
  ASSUME IInv, IInv', NEW c \in Call, Begin(c) \/ TimedOut(c) \/ Return(c) \/ Cancel(c)
  PROVE  Promised
<1> USE DEF CallGoto, workers, calls
<1>0. /\ Types /\ Types' /\ cpc \in [Call -> CallSteps]
      /\ outcome \in [Call -> {"none", "html", "Render", "WorkerCrashed", "Timeout"}]
  BY DEF IInv, Types
<1>1. UNCHANGED <<queue, answer, wpc, job>> /\ \A d \in Call : d # c => cpc'[d] = cpc[d]
  BY <1>0 DEF Begin, TimedOut, Return, Cancel
<1>2. \A d \in Call : (Held(d)' <=> Held(d)) /\ (Queued(d)' <=> Queued(d)) /\ (Running(d)' <=> Running(d))
  BY <1>1 DEF Held, Queued, Running
<1>3. \A d \in Call : d # c => StageOf(d)' = StageOf(d)
  BY <1>1, <1>2 DEF StageOf
<1>4. Running(c) => Held(c)
  BY DEF Running, Held
<1>5. CASE Begin(c)
  <2>1. StageOf(c) = "new" /\ StageOf(c)' = "asking" /\ UNCHANGED <<answer, outcome>>
    BY <1>0, <1>1, <1>2, <1>4, <1>5 DEF Begin, StageOf, IInv, Accounted, Unsent
  <2> QED
    BY <1>0, <1>3, <2>1, StageMoves DEF Promised, Promise!Next, Promise!Ask
<1>6. CASE cpc[c] = "sending" /\ cpc' = [cpc EXCEPT ![c] = "returned"]
             /\ outcome' = [outcome EXCEPT ![c] = "Timeout"]
  <2>1. StageOf(c) = "asking" /\ StageOf(c)' = "given up" /\ UNCHANGED answer
    BY <1>0, <1>1, <1>2, <1>4, <1>6 DEF StageOf, IInv, Accounted, Unsent
  <2> QED
    BY <1>0, <1>3, <1>6, <2>1, StageMoves DEF Promised, Promise!Next, Promise!GiveUp
<1>7. CASE Return(c)
  <2>1. answer[c] # "none" /\ outcome[c] = "none" /\ UNCHANGED answer
    BY <1>1, <1>7 DEF Return, IInv, Accounted
  <2>2. StageOf(c) = "settled" /\ StageOf(c)' = "settled"
    BY <1>1, <2>1 DEF StageOf
  <2>3. Stage' = Stage
    BY <1>0, <1>3, <2>2, StageStays
  <2>4. Stage[c] = "settled"
    BY <1>0, <2>2, StageIs DEF StageIsStageOf
  <2>5. outcome' = [outcome EXCEPT ![c] = Promise!Report[answer[c]]]
    BY <1>7 DEF Return, Reported, Promise!Report
  <2> QED
    BY <2>1, <2>3, <2>4, <2>5 DEF Promised, Promise!Next, Promise!Tell
<1>8. CASE cpc[c] = "sending" /\ cpc' = [cpc EXCEPT ![c] = "cancelled"] /\ outcome' = outcome
  <2>1. StageOf(c) = "asking" /\ StageOf(c)' = "given up" /\ UNCHANGED answer
    BY <1>0, <1>1, <1>2, <1>4, <1>8 DEF StageOf, IInv, Accounted, Unsent
  <2> QED
    BY <1>0, <1>3, <1>8, <2>1, StageMoves DEF Promised, Promise!Next, Promise!GiveUp
<1>9. CASE cpc[c] = "waiting" /\ cpc' = [cpc EXCEPT ![c] = "cancelled"] /\ outcome' = outcome
  <2>1. StageOf(c)' = StageOf(c)
    BY <1>0, <1>1, <1>2, <1>4, <1>9 DEF StageOf, IInv, Accounted
  <2>2. Stage' = Stage
    BY <1>0, <1>3, <2>1, StageStays
  <2> QED
    BY <1>1, <1>9, <2>2 DEF Promised
<1> QED
  BY <1>5, <1>6, <1>7, <1>8, <1>9 DEF TimedOut, Cancel

LEMMA SendKeepsPromise ==
  ASSUME IInv, IInv', NEW c \in Call, Send(c)
  PROVE  Promised
<1> USE DEF Send, CallGoto, workers
<1>0. /\ Types /\ Types' /\ Unsent(c) /\ cpc[c] = "sending" /\ cpc'[c] = "waiting" /\ c # NoCall
      /\ cpc' = [cpc EXCEPT ![c] = "waiting"] /\ UNCHANGED <<answer, outcome, wpc>>
      /\ job \in [Worker -> Call \cup {NoCall}]
  BY PoolConstants DEF IInv, Types, Accounted
<1>1. \A d \in Call : d # c => cpc'[d] = cpc[d]
  BY <1>0
<1>2. ~Running(c)
  BY <1>0 DEF Unsent, Running, Held
<1>3. \A d \in Call : /\ Running(d)' <=> Running(d)
                      /\ d # c => (Held(d)' <=> Held(d)) /\ (Queued(d)' <=> Queued(d))
  <2>1. ASSUME queue' = Append(queue, c), job' = job
        PROVE  \A d \in Call : d # c => (Queued(d)' <=> Queued(d))
    <3> DEFINE n == Len(queue)
    <3>1. /\ n \in Nat /\ Len(queue') = n + 1 /\ queue'[n + 1] = c
          /\ \A i \in 1 .. n : queue'[i] = queue[i]
      BY <1>0, <2>1, AppendFacts DEF Types
    <3>2. /\ \A i \in 1 .. n + 1 : i = n + 1 \/ i \in 1 .. n
          /\ \A i \in 1 .. n : i \in 1 .. n + 1
      BY <3>1
    <3> QED
      BY <3>1, <3>2 DEF Queued
  <2>2. CASE queue' = Append(queue, c) /\ job' = job
    BY <1>0, <2>1, <2>2 DEF Running, Held
  <2>3. ASSUME NEW w \in Waiting, job' = [job EXCEPT ![w] = c], queue' = queue
        PROVE  \A d \in Call : /\ Running(d)' <=> Running(d)
                               /\ d # c => (Held(d)' <=> Held(d)) /\ (Queued(d)' <=> Queued(d))
    BY <1>0, <2>3, PoolConstants DEF Waiting, Running, Held, Queued
  <2> QED
    BY <2>2, <2>3
<1>4. \A d \in Call : d # c => StageOf(d)' = StageOf(d)
  BY <1>0, <1>1, <1>3 DEF StageOf
<1>5. StageOf(c) = "asking"
  BY <1>0, <1>2 DEF StageOf, Unsent
<1>6. answer'[c] = "none" /\ (Queued(c)' \/ Held(c)') /\ ~Running(c)'
  BY <1>0, <1>2, <1>3 DEF Unsent, IInv, Accounted, Queued, Held
<1>7. StageOf(c)' = "accepted"
  BY <1>6 DEF StageOf
<1> QED
  BY <1>0, <1>4, <1>5, <1>7, StageMoves DEF Promised, Promise!Next, Promise!Accept

LEMMA RunKeepsPromise ==
  ASSUME IInv, IInv', NEW w \in Worker, Receive(w)
  PROVE  Promised
<1>1. PICK c \in Call :
        /\ c # NoCall /\ job'[w] = c /\ job' = [job EXCEPT ![w] = c]
        /\ job[w] = c \/ (job[w] = NoCall /\ Queued(c))
        /\ \A d \in Call : /\ Queued(d)' <=> Queued(d) /\ d # c
                           /\ Held(d)' <=> Held(d) \/ d = c
  BY ReceiveTakes
<1>2. /\ wpc[w] = "receiving" /\ wpc' = [wpc EXCEPT ![w] = "rendering"]
      /\ UNCHANGED <<cpc, answer, outcome>> /\ Types /\ Types'
      /\ wpc \in [Worker -> WorkerSteps] /\ job \in [Worker -> Call \cup {NoCall}]
  BY DEF Receive, WorkerGoto, calls, IInv, Types
<1>3. Running(c)' /\ ~Running(c) /\ answer[c] = "none" /\ (Queued(c) \/ Held(c))
  BY <1>1, <1>2 DEF Running, Held, IInv, OnePlace
<1>4. \A d \in Call : d # c => (Running(d)' <=> Running(d))
  BY <1>1, <1>2 DEF Running
<1>5. \A d \in Call : d # c => StageOf(d)' = StageOf(d)
  BY <1>1, <1>2, <1>4 DEF StageOf
<1>6. StageOf(c) = "accepted" /\ StageOf(c)' = "running"
  BY <1>2, <1>3 DEF StageOf
<1> QED
  BY <1>2, <1>5, <1>6, StageMoves DEF Promised, Promise!Next, Promise!Run

LEMMA SettleKeepsPromise ==
  ASSUME IInv, IInv', NEW w \in Worker, Render(w)
  PROVE  Promised
<1>1. PICK r \in Promise!Results, s \in {"ready", "panicked"} :
        /\ wpc[w] = "rendering" /\ wpc' = [wpc EXCEPT ![w] = s]
        /\ answer' = [answer EXCEPT ![job[w]] = r] /\ job' = [job EXCEPT ![w] = NoCall]
        /\ UNCHANGED <<queue, cpc, outcome>>
  BY DEF Render, Finish, Panic, WorkerGoto, Promise!Results
<1>2. PICK c \in Call : c = job[w] /\ c # NoCall /\ r # "none"
  BY <1>1, PoolConstants DEF IInv, Types, Jobs, Promise!Results
<1>3. /\ Types /\ Types' /\ wpc \in [Worker -> WorkerSteps]
      /\ job \in [Worker -> Call \cup {NoCall}]
      /\ answer \in [Call -> {"none", "html", "error", "dropped"}]
  BY DEF IInv, Types
<1>4. Running(c) /\ Held(c) /\ answer[c] = "none"
  BY <1>1, <1>2 DEF Running, Held, IInv, OnePlace
<1>5. \A d \in Call : d # c => /\ (Queued(d)' <=> Queued(d)) /\ (Held(d)' <=> Held(d))
                               /\ (Running(d)' <=> Running(d)) /\ answer'[d] = answer[d]
  BY <1>1, <1>2, <1>3, PoolConstants DEF Queued, Held, Running
<1>6. \A d \in Call : d # c => StageOf(d)' = StageOf(d)
  BY <1>1, <1>5 DEF StageOf
<1>7. StageOf(c) = "running" /\ StageOf(c)' = "settled"
  BY <1>1, <1>2, <1>3, <1>4 DEF StageOf
<1>8. Promise!Settle(c, r)
  BY <1>1, <1>2, <1>3, <1>6, <1>7, StageMoves DEF Promise!Settle
<1> QED
  BY <1>2, <1>8 DEF Promised, Promise!Next

\* Steps the service does not see.
LEMMA OthersKeepPromise ==
  ASSUME IInv, IInv',
         \/ \E w \in Worker : Starts(w) \/ Lock(w) \/ Disconnected(w)
         \/ Tick \/ DropPool \/ UNCHANGED vars
  PROVE  Promised
<1> USE DEF workers, calls, WorkerGoto
<1>1. /\ UNCHANGED <<queue, job, cpc, answer, outcome>>
      /\ \A v \in Worker : wpc'[v] = wpc[v] \/ job[v] = NoCall
  <2>1. ASSUME NEW w \in Worker, Starts(w) \/ Lock(w) \/ Disconnected(w)
        PROVE  /\ UNCHANGED <<queue, job, cpc, answer, outcome>>
               /\ \A v \in Worker : wpc'[v] = wpc[v] \/ job[v] = NoCall
    BY <2>1 DEF Starts, Start, StartFails, StartPanics, Lock, Disconnected, IInv, Jobs, Types
  <2>2. ASSUME Tick \/ DropPool \/ UNCHANGED vars
        PROVE  UNCHANGED <<queue, job, cpc, answer, outcome, wpc>>
    BY <2>2 DEF Tick, DropPool, vars
  <2> QED
    BY <2>1, <2>2
<1>2. \A d \in Call : StageOf(d)' = StageOf(d)
  <2>1. \A d \in Call : /\ (Queued(d)' <=> Queued(d)) /\ (Held(d)' <=> Held(d))
                        /\ (Running(d)' <=> Running(d))
    BY <1>1, PoolConstants DEF Queued, Held, Running
  <2> QED
    BY <1>1, <2>1 DEF StageOf
<1>3. Types /\ Types'
  BY DEF IInv
<1>4. Stage' = Stage
  BY <1>2, <1>3, StageStays
<1> QED
  BY <1>1, <1>4 DEF Promised

LEMMA NextKeepsPromise == IInv /\ IInv' /\ [Next]_vars => Promised
<1> SUFFICES ASSUME IInv, IInv', [Next]_vars PROVE Promised
  OBVIOUS
<1>1. ASSUME NEW c \in Call, Begin(c) \/ Attempt(c) \/ Return(c) \/ Cancel(c) PROVE Promised
  BY <1>1, CallKeepsPromise, SendKeepsPromise DEF Attempt
<1>2. ASSUME NEW w \in Worker, Starts(w) \/ Lock(w) \/ Recv(w) \/ Render(w) PROVE Promised
  BY <1>2, OthersKeepPromise, RunKeepsPromise, SettleKeepsPromise DEF Recv
<1>3. CASE Tick \/ DropPool \/ UNCHANGED vars
  BY <1>3, OthersKeepPromise
<1> QED
  BY <1>1, <1>2, <1>3 DEF Next

\* The pool serves its callers as RenderService promises, for any number of
\* calls and workers, any queue and any timeout: a request is rendered at most
\* once and settled at most once, one that is given up is never rendered, and a
\* caller is told what its own request settled to (pool.rs:151-188, 247-276).
THEOREM ServesAsPromised == Spec => ImplementsRenderService
<1>1. Init => Promise!Init
  <2> SUFFICES ASSUME Init PROVE Promise!Init
    OBVIOUS
  <2>1. IInv /\ Stage = [c \in Call |-> StageOf(c)]
    BY InitIInv, StageIs DEF IInv, StageIsStageOf
  <2>2. \A c \in Call : StageOf(c) = "new"
    BY PoolConstants DEF Init, StageOf, Running, Held, Queued
  <2> QED
    BY <2>1, <2>2 DEF Init, Promise!Init
<1> QED
  BY <1>1, AlwaysIInv, NextKeepsPromise, PTL DEF Spec, ImplementsRenderService, Promise!Spec, Promised
=============================================================================
