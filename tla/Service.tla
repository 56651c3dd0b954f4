------------------------------ MODULE Service -------------------------------
(***************************************************************************)
(* A web server on Rusty SSR, as in examples/basic.rs with the middleware  *)
(* around it: the process starts (Startup), one of its engines is put      *)
(* behind a handler, and requests pass the layers of the router, the       *)
(* cache, and a worker, which renders with the bundle it has loaded.       *)
(*                                                                         *)
(* One request is followed at a time: how calls meet in the cache and in   *)
(* the pool is for SsrEngine, SsrCache and V8Pool.  Here the cache keeps   *)
(* one page for each URL and may lose any, and the pool may give a request *)
(* up (other requests fill its channel), as PageCache and RenderService    *)
(* promise.  A render may panic, this request's or another one's, and      *)
(* takes its worker with it.                                               *)
(***************************************************************************)
EXTENDS Startup, Renderer, Brotli

CONSTANTS
    Url,       \* the URLs asked for: sequences of tokens
    Files,     \* bound: URLs whose .br file may exist
    Stacks     \* bound: the router's layers, from the outermost

ASSUME ServiceConstants ==
    /\ Url \subseteq Seq(STRING)
    /\ \A s \in Stacks : s \in Seq({"compress", "static"}) /\ IsInjective(s)
    /\ None \notin Call

VARIABLES
    host,      \* the engine that serves
    stack,     \* the layers around the handler
    files,     \* URLs whose .br file exists
    cache,     \* the page cached for each URL
    at,        \* where the request is
    depth,     \* layers it has passed on its way in
    request,
    response

request_vars == <<at, depth, request, response>>
vars == <<start, host, stack, files, cache, request_vars>>

Places   == {"idle", "inward", "reading", "waiting", "outward"}
Requests == [url : Url, accept : Accepts, json : BOOLEAN]
Bodies   == [kind : {"page", "error page", "file", "Timeout", "WorkerCrashed"} \cup ErrKinds,
             url  : Url \cup {<< >>}]
Served   == {"page", "error page"}

Init ==
    /\ StartInit
    /\ host = None /\ stack = << >> /\ files = {}
    /\ cache = [u \in Url |-> None]
    /\ at = "idle" /\ depth = 0 /\ request = None /\ response = None

-----------------------------------------------------------------------------
\* The process starts.  Bound: it stops making bundles and engines when it
\* begins to serve.
Starting ==
    /\ host = None
    /\ \/ \E a \in Call : Begin(a) \/ Step(a)
       \/ \E p \in Path, s \in Strings : Deploy(p, s)
    /\ UNCHANGED <<host, stack, files, cache, request_vars>>

WorkerStarts(a, w) ==
    /\ StartWorker(a, w)
    /\ UNCHANGED <<host, stack, files, cache, request_vars>>

\* Another request's render panics.  Bound: in the engine that serves.
OtherCrashes(w) ==
    /\ host # None /\ CrashWorker(host, w)
    /\ UNCHANGED <<host, stack, files, cache, request_vars>>

\* The router is built around an engine.
Serve(a) ==
    /\ host = None /\ a \in Engines /\ host' = a
    /\ \A b \in Call : pc[b] \in {"ok", "failed"}
    /\ stack' \in Stacks /\ files' = Files
    /\ UNCHANGED <<start, cache, request_vars>>

-----------------------------------------------------------------------------
Goto(place) == at' = place /\ UNCHANGED <<start, host, stack, request>>

\* A request arrives; the reply to the last one is gone.
Receive(r) ==
    /\ at = "idle" /\ host # None
    /\ request' = r /\ response' = None /\ at' = "inward" /\ depth' = 0
    /\ UNCHANGED <<start, host, stack, files, cache>>

Layer == stack[depth + 1]
Found == request.url \in files

\* On its way in a request passes brotli_compress unchanged, and brotli_static
\* when it is not eligible or there is no file ...
PassLayer ==
    /\ at = "inward" /\ depth < Len(stack)
    /\ Layer = "static" => ~(Eligible(request) /\ Found)
    /\ depth' = depth + 1 /\ Goto("inward")
    /\ UNCHANGED <<files, cache, response>>

\* ... which there is, so it goes on to read it ...
FileExists ==
    /\ at = "inward" /\ depth < Len(stack)
    /\ Layer = "static" /\ Eligible(request) /\ Found
    /\ Goto("reading") /\ UNCHANGED <<depth, files, cache, response>>

\* Variant of ReadBr: the file is taken to be there still.
ReadBr_Unchecked ==
    /\ at = "reading" /\ Found
    /\ response' = FileResponse(request.url) /\ Goto("outward")
    /\ UNCHANGED <<depth, files, cache>>

\* ... and if it has gone meanwhile, goes on to the handler after all.
ReadBr ==
    /\ at = "reading"
    /\ IF Found
       THEN response' = FileResponse(request.url) /\ Goto("outward") /\ UNCHANGED depth
       ELSE depth' = depth + 1 /\ Goto("inward") /\ UNCHANGED response
    /\ UNCHANGED <<files, cache>>

\* Html of the page, or of the error's text, with status 200 either way.
Html(body) == [type |-> "text/html", body |-> body, codings |-> 0, encoding |-> FALSE,
               vary |-> FALSE]

\* The handler calls render_with_data, which looks the URL up ...
Handling == at = "inward" /\ depth = Len(stack)

Hit ==
    /\ Handling /\ cache[request.url] # None
    /\ response' = Html(cache[request.url]) /\ Goto("outward")
    /\ UNCHANGED <<depth, files, cache>>

\* ... and sends it to the pool if it is not there.
Miss ==
    /\ Handling /\ cache[request.url] = None
    /\ Goto("waiting") /\ UNCHANGED <<depth, files, cache, response>>

\* Each URL as JavaScript reads it in the script.
LiteralOf == [u \in Url |-> Literal(EscapedUrl(u))]

\* Variant of Rendered: errors are cached as well.
Rendered_Errors(w) ==
    /\ at = "waiting" /\ w.state = "running"
    /\ \E body \in RenderHtml(w.text.script, config[host].render_function,
                              LiteralOf[request.url], request.json) :
        /\ response' = Html(body)
        /\ cache' = [cache EXCEPT ![request.url] = body]
    /\ Goto("outward") /\ UNCHANGED <<depth, files>>

\* A worker renders with the text it has loaded; a success is cached, also the
\* page the script made of an exception.
Rendered(w) ==
    /\ at = "waiting" /\ w.state = "running"
    /\ \E body \in RenderHtml(w.text.script, config[host].render_function,
                              LiteralOf[request.url], request.json) :
        /\ response' = Html(body)
        /\ cache' = IF body.kind \in Served
                    THEN [cache EXCEPT ![request.url] = body] ELSE cache
    /\ Goto("outward") /\ UNCHANGED <<depth, files>>

\* ... or panics: the request's sender is dropped with the worker's stack, and
\* render_with_data reports a crashed worker.
Crashed(w) ==
    /\ at = "waiting" /\ CrashWorker(host, w)
    /\ response' = Html(Err("WorkerCrashed")) /\ at' = "outward"
    /\ UNCHANGED <<host, stack, files, cache, depth, request>>

\* The deadline passes before the channel takes the request.
GivenUp ==
    /\ at = "waiting" /\ response' = Html(Err("Timeout"))
    /\ Goto("outward") /\ UNCHANGED <<depth, files, cache>>

\* On its way out the response passes the layers in reverse.
Leave ==
    /\ at = "outward" /\ depth > 0
    /\ response' = IF stack[depth] = "compress" THEN Compressed(request, response) ELSE response
    /\ depth' = depth - 1 /\ Goto("outward")
    /\ UNCHANGED <<files, cache>>

Delivered ==
    /\ at = "outward" /\ depth = 0
    /\ Goto("idle") /\ UNCHANGED <<depth, files, cache, response>>

\* External: a .br file is written or removed.
FileChanges(u) ==
    /\ host # None
    /\ files' = IF u \in files THEN files \ {u} ELSE files \cup {u}
    /\ UNCHANGED <<start, host, stack, cache, request_vars>>

\* Pages are evicted, expire if the engine has a TTL of a second or more, and
\* are invalidated.
Forget(u) ==
    /\ cache[u] # None /\ cache' = [cache EXCEPT ![u] = None]
    /\ UNCHANGED <<start, host, stack, files, request_vars>>

RequestStep == \/ PassLayer \/ FileExists \/ ReadBr \/ Hit \/ Miss
               \/ Leave \/ Delivered

HostRenders ==
    /\ host # None
    /\ \E w \in DOMAIN workers[host] : Rendered(workers[host][w]) \/ Crashed(w)

Next ==
    \/ Starting
    \/ \E a \in Call : Serve(a) \/ \E w \in DOMAIN workers[a] : WorkerStarts(a, w)
    \/ \E r \in Requests : Receive(r)
    \/ RequestStep \/ HostRenders \/ GivenUp
    \/ host # None /\ \E w \in DOMAIN workers[host] : OtherCrashes(w)
    \/ \E u \in Files : FileChanges(u)
    \/ \E u \in Url : Forget(u)

Spec == Init /\ [][Next]_vars

\* Threads that can run do: tokio polls the request, the operating system runs
\* the workers, and a render ends, in a result or a panic.  Nothing makes the
\* pool give up a request it has accepted.
FairSpec ==
    /\ Spec
    /\ WF_vars(RequestStep) /\ WF_vars(HostRenders)
    /\ \A a \in Call : WF_vars(\E w \in DOMAIN workers[a] : WorkerStarts(a, w))

-----------------------------------------------------------------------------
TypeOK ==
    /\ StartTypeOK
    /\ host \in Call \cup {None} /\ stack \in Stacks \cup {<< >>} /\ files \subseteq Files
    /\ \A u \in Url : cache[u] # None => cache[u].kind \in Served
    /\ at \in Places /\ depth \in 0 .. Len(stack)
    /\ request # None => request \in Requests
    /\ response # None => response.body \in Bodies /\ response.codings \in 0 .. Len(stack) + 1

\* Whatever characters a URL has, a page shown for it was rendered for exactly
\* this URL, and the script only fails to parse for a URL with a line
\* terminator, which renderer.rs:28 leaves unescaped, or a name that passes
\* config.rs:188-198 without being one.
RepliesFitUrl ==
    response # None =>
        /\ response.body.kind \in Served \cup {"file"} => response.body.url = request.url
        /\ response.body.kind = "Syntax"
            => \/ \E i \in DOMAIN request.url : request.url[i] = Break
               \/ config[host].render_function = "malformed"

\* A reply says Content-Encoding: br, and Vary, exactly when its body is
\* compressed, compressed once, and only for a client that mentions br
\* (brotli.rs:30-39, 67-79, 105-147).  The exception: brotli_compress around
\* brotli_static compresses the .html.br file a second time.
BodyAsDeclared ==
    (response # None /\ at = "idle") =>
        /\ response.encoding <=> response.codings > 0
        /\ response.vary <=> response.encoding
        /\ response.encoding => AcceptsBrotli(request)
        /\ response.codings > 1
            => /\ stack[1] = "compress" /\ response.body.kind = "file"
               /\ response.type = "text/html"

\* Every request is replied to, also when the .br file vanishes between the
\* check and the read (brotli.rs:52-60), or when the worker that renders it
\* panics (pool.rs:186), unless its pool has no worker left: that of a
\* configuration nobody validated, of a bundle that does not load, of which
\* SsrEngine::new does not learn (pool.rs:236-240), or one all of whose workers
\* have panicked while rendering.  Such a request may wait for ever at
\* pool.rs:183, since the pool keeps the receiver and the send succeeds.
Workless ==
    \/ via[host] = "new" /\ config[host].pool_size = 0
    \/ ~Loads(SSR_BUNDLE)
    \/ /\ workers[host] # << >>
       /\ \A w \in DOMAIN workers[host] : workers[host][w].state = "crashed"
RequestsEnd == (at # "idle") ~> (at = "idle" \/ Workless)
=============================================================================
