------------------------------- MODULE Brotli -------------------------------
(***************************************************************************)
(* The middleware of src/middleware/brotli.rs.  Of a request the URL and   *)
(* the Accept-Encoding header matter: "none" does not mention br, "br"     *)
(* does, and "refused" is br;q=0, which mentions it to rule it out.  Of a  *)
(* response: its Content-Type, how often its body has been compressed, and *)
(* whether its headers say Content-Encoding: br and Vary.                  *)
(***************************************************************************)
EXTENDS Integers, Sequences

Accepts == {"none", "br", "refused"}

AcceptsBrotli(r) == r.accept # "none"

MimeOf == [js |-> "application/javascript", css |-> "text/css", html |-> "text/html",
           json |-> "application/json", svg |-> "image/svg+xml",
           woff2 |-> "font/woff2", woff |-> "font/woff"]

\* By the ending of the path, its last token.
GuessContentType(u) ==
    LET ending == u[Len(u)] IN
    IF ending \in DOMAIN MimeOf THEN MimeOf[ending] ELSE "application/octet-stream"

Climbs(u) == \E i \in DOMAIN u : u[i] = ".."

\* brotli_static looks for a file only for such requests.
Eligible(r) == AcceptsBrotli(r) /\ ~Climbs(r.url)

\* The .br file as it is, with the type of the path without .br.
FileResponse(u) ==
    [type |-> GuessContentType(u), body |-> [kind |-> "file", url |-> u],
     codings |-> 1, encoding |-> TRUE, vary |-> TRUE]

\* Variant of Compressed: any client will do.
Compressed_Always(r, resp) ==
    IF resp.type = "text/html"
    THEN [resp EXCEPT !.codings = @ + 1, !.encoding = TRUE, !.vary = TRUE]
    ELSE resp

\* brotli_compress on the way out.  It does not ask whether the body is
\* compressed already.
Compressed(r, resp) ==
    IF AcceptsBrotli(r) /\ resp.type = "text/html"
    THEN [resp EXCEPT !.codings = @ + 1, !.encoding = TRUE, !.vary = TRUE]
    ELSE resp
=============================================================================
