----------------------------- MODULE MCService ------------------------------
(* Small instance of Service: two calls while the process starts, pools of *)
(* none, one and two workers, two URLs, layers in either order.            *)
EXTENDS Service

CONSTANTS a1, a2, other

SmallCalls == {a1, a2}
SmallPaths == {DefaultPath, other}
SmallDisks == {[p \in SmallPaths |-> IF p = other THEN "flaky" ELSE s] :
                  s \in {"renders", "broken", None}}
SmallBuilders ==
    {Builder, Set(Set(Builder, "bundle_path", other), "pool_size", 2),
     Set(Set(Builder, "pool_size", 0), "cache_size", 1),
     Set(CacheTtlSecs(Builder, 0), "render_function", "malformed")}
SmallLiterals == {[Default EXCEPT !.pool_size = 0]}
SmallStrings  == {"browser", "number"}
SmallUrls     == {<<Backslash, Quote, "html">>, <<Break>>}
SmallFiles    == {<<Backslash, Quote, "html">>}
SmallStacks   == {<<"compress", "static">>, <<"static", "compress">>}

\* States that differ only in what no longer matters once the server runs are
\* taken together: the files, the calls that are over, and which of a pool's
\* workers is in which state.
Pool(a) == [s \in Range(workers[a]) |->
               Cardinality({w \in DOMAIN workers[a] : workers[a][w] = s})]
Hosted  == [pool |-> Pool(host), bundle |-> SSR_BUNDLE, workless |-> Workless,
            name |-> config[host].render_function,
            others |-> {<<Pool(a), a \in Engines>> : a \in Call \ {host}}]
Essence == <<IF host = None THEN start ELSE Hosted, host = None,
             stack, files, cache, request_vars>>
=============================================================================
