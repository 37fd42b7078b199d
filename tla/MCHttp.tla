------------------------------- MODULE MCHttp -------------------------------
(***************************************************************************)
(* Requests to try: what browsers and tools send to a server like this.    *)
(***************************************************************************)
EXTENDS HttpConnection

CRLF == <<"CR", "LF">>
Plain(method, path, version, fields, body) ==
    [method |-> method, url |-> path, version |-> version, fields |-> fields, body |-> body,
     eol |-> CRLF, lead |-> <<>>]
Root == <<"/">>
Other == <<"/", "a">>
Two == <<"b1", "b2">>
Ten == [n \in 1..10 |-> "b"]

Requests ==
    {Plain("GET", Root, "1.1", f, <<>>) :
        f \in {<<"host">>, <<"host", "upgrade">>, <<"upgrade", "folded">>, <<"host", "close">>,
               <<>>, <<"blank", "host", "expect">>, <<"upgrade">>, <<"close", "blank">>,
               <<"h2", "host">>}}
    \cup {Plain("GET", Other, "1.1", f, <<>>) : f \in {<<"folded">>, <<"host", "upgrade">>}}
    \cup {Plain("GET", Root, "1.0", f, <<>>) : f \in {<<>>, <<"keep">>, <<"upgrade", "keep">>}}
    \cup {Plain("POST", Root, "1.1", f, Two) :
            f \in {<<"host", "length">>, <<"chunked", "host">>, <<"host", "length", "close">>,
                   <<"host", "length", "chunked">>, <<"length", "host", "length">>}}
    \cup {Plain(m, <<"/", "?", "a">>, "1.1", <<"host">>, <<>>) : m \in {"GET", "POST"}}
    \cup {Plain("POST", Other, "1.1", f, <<>>) : f \in {<<"host", "length">>, <<"chunked", "host">>}}
    \cup {[Plain("POST", Other, "1.1", <<"length", "folded">>, Two) EXCEPT !.eol = <<"LF">>],
          [Plain("GET", Root, "1.1", <<"host", "upgrade">>, <<>>) EXCEPT !.eol = <<"LF">>],
          [Plain("GET", Other, "1.1", <<"host">>, <<>>) EXCEPT !.lead = CRLF],
          Plain("GET", Other, "1.1", <<"host", "expect">>, <<>>),
          Plain("POST", Other, "1.1", <<"host", "length">>, Ten)}
=============================================================================
