------------------------------ MODULE Renderer ------------------------------
(***************************************************************************)
(* render_html (src/v8_pool/renderer.rs): the URL is escaped into a string *)
(* literal of a script that calls the render function and catches what it  *)
(* throws.  A URL is a sequence of tokens, three of which matter to        *)
(* JavaScript; Break is a line terminator.                                 *)
(***************************************************************************)
EXTENDS SequencesExt

Quote     == "quote"
Backslash == "backslash"
Break     == "break"

Replace(s, c, r) == FlattenSeq([i \in DOMAIN s |-> IF s[i] = c THEN r ELSE <<s[i]>>])

\* Variant of EscapedUrl: the replacements the other way round.
EscapedUrl_Swapped(u) ==
    Replace(Replace(u, Quote, <<Backslash, Quote>>), Backslash, <<Backslash, Backslash>>)

EscapedUrl(u) ==
    Replace(Replace(u, Backslash, <<Backslash, Backslash>>), Quote, <<Backslash, Quote>>)

\* External: how JavaScript reads a literal after its opening quote, one token
\* at a time; a line terminator ends it in error.
ReadToken(lit, c) ==
    CASE lit.state = "escape" -> [state |-> "open", value |-> Append(lit.value, c)]
      [] lit.state = "open" /\ c = Backslash -> [lit EXCEPT !.state = "escape"]
      [] lit.state = "open" /\ c = Quote     -> [lit EXCEPT !.state = "closed"]
      [] lit.state = "open" /\ c \notin {Backslash, Quote, Break}
            -> [lit EXCEPT !.value = Append(@, c)]
      [] OTHER -> [lit EXCEPT !.state = "bad"]

Opened == [state |-> "open", value |-> << >>]

Literal(s) ==
    LET quoted == Append(s, Quote)
        read[i \in 0 .. Len(quoted)] ==
            IF i = 0 THEN Opened ELSE ReadToken(read[i - 1], quoted[i])
    IN  read[Len(quoted)]

ErrKinds == {"Data", "Syntax", "Promise", "Result"}
Err(e)   == [kind |-> e, url |-> << >>]
Page(u)      == [kind |-> "page", url |-> u]
ErrorPage(u) == [kind |-> "error page", url |-> u]

\* What the script's promise resolves to, by the bundle's script.  The catch
\* clause answers a page of its own, which is a success to the caller.
Resolved(script, u) ==
    CASE script \in {"renders", "browser"} -> {Page(u)}
      [] script = "flaky"    -> {Page(u), ErrorPage(u)}
      [] script = "nameless" -> {ErrorPage(u)}
      [] script = "pending"  -> {Err("Promise")}
      [] script = "number"   -> {Err("Result")}

\* The results render_html may have for a URL that JavaScript reads back as the
\* literal lit.  The data are checked before anything else.
RenderHtml(script, name, lit, json) ==
    IF ~json THEN {Err("Data")}
    ELSE IF name = "malformed" \/ lit.state # "closed" THEN {Err("Syntax")}
    ELSE Resolved(script, lit.value)
=============================================================================
