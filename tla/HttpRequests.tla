---------------------------- MODULE HttpRequests ----------------------------
(***************************************************************************)
(* What browsers send Crow's server over one connection: requests, as the  *)
(* symbols a read can end between, and the answer each is due.  A symbol   *)
(* is a byte, or bytes between which the parser only compares; the names   *)
(* and values the parser looks for come in two pieces.                     *)
(***************************************************************************)
EXTENDS Integers, Sequences, SequencesExt, FiniteSets, Functions

CONSTANT Octet   \* what bodies are made of

Numerals == <<"0", "1", "2", "3", "4", "5", "6", "7", "8", "9">>
Digits(n) == Numerals[n + 1]
Digit == [d \in Range(Numerals) |-> CHOOSE n \in 0..9 : Digits(n) = d]

\* The fields a request may have: the symbols of each one's name and value.
FieldKinds == {"host", "folded", "blank", "upgrade", "h2", "close", "keep", "expect", "length",
               "chunked"}

NameText(f) ==
    CASE f \in {"host", "folded"}  -> <<"Host">>
      [] f \in {"upgrade", "h2"}   -> <<"Up", "grade">>
      [] f \in {"close", "keep"}   -> <<"Conn", "ection">>
      [] f = "expect"              -> <<"Expect">>
      [] f = "length"              -> <<"Content-", "Length">>
      [] f = "chunked"             -> <<"Transfer-", "Encoding">>
      [] f = "blank"               -> <<"Other">>

\* What a value says; "folded" goes on in a second line.
ValueSaid(r, f) ==
    CASE f = "host"    -> <<"here">>
      [] f = "folded"  -> <<"here", " ", "there">>
      [] f = "upgrade" -> <<"websocket">>
      [] f = "h2"      -> <<"h", "2">>
      [] f = "close"   -> <<"clo", "se">>
      [] f = "keep"    -> <<"keep-", "alive">>
      [] f = "expect"  -> <<"100-continue">>
      [] f = "length"  -> <<Digits(Len(r.body) \div 10), Digits(Len(r.body) % 10)>>
      [] f = "chunked" -> <<"chun", "ked">>
      [] f = "blank"   -> <<>>

ValueText(r, f) ==
    IF f = "folded" THEN <<"here">> \o r.eol \o <<" ", "there">> ELSE ValueSaid(r, f)

FieldText(r, f) ==
    NameText(f) \o <<":">> \o (IF f = "blank" THEN <<>> ELSE <<" ">>) \o ValueText(r, f)

Has(r, f) == Contains(r.fields, f)

Chunk(b) == <<Digits(Len(b)), "CR", "LF">> \o b \o <<"CR", "LF">>

BodyText(r) ==
    IF Has(r, "chunked")
    THEN (IF r.body = <<>> THEN <<>> ELSE Chunk(r.body)) \o <<"0", "CR", "LF", "CR", "LF">>
    ELSE r.body

\* From each of the texts on, all of them joined.
Joined(texts) ==
    LET from[n \in 1..(Len(texts) + 1)] ==
          IF n > Len(texts) THEN <<>> ELSE texts[n] \o from[n + 1]
    IN from

Lines(r) == [n \in 1..Len(r.fields) |-> FieldText(r, r.fields[n]) \o r.eol]

\* A request, from its method, or an empty line some put before it, to the last byte of its
\* body.
RequestText(r) ==
    r.lead \o <<r.method, " ">> \o r.url \o <<" ", r.version>> \o r.eol
      \o Joined(Lines(r))[1] \o r.eol \o BodyText(r)

\* What a request is: a body has a length or an encoding, and there is none with an upgrade.
IsRequest(r) ==
    /\ r.method \in {"GET", "POST"} /\ r.version \in {"1.0", "1.1"}
    /\ r.eol \in {<<"CR", "LF">>, <<"LF">>} /\ r.lead \in Seq({"CR", "LF"})
    /\ r.url \in Seq({"/", "a", "?"}) /\ Len(r.url) > 0 /\ r.url[1] = "/"
    /\ \A m, n \in 1..Len(r.url) : r.url[m] = "?" /\ r.url[n] = "?" => m = n
    /\ r.fields \in Seq(FieldKinds) /\ r.body \in Seq(Octet)
    /\ ~(Has(r, "host") /\ Has(r, "folded")) /\ ~(Has(r, "upgrade") /\ Has(r, "h2"))
    /\ IF Has(r, "chunked") THEN Len(r.body) <= 9
       ELSE Len(r.body) <= 99 /\ (r.body # <<>> => Has(r, "length"))
    /\ Has(r, "upgrade") \/ Has(r, "h2") => r.body = <<>> /\ ~Has(r, "chunked")

-----------------------------------------------------------------------------
(* What is due.                                                            *)

\* The path ends where the query starts.
Path(r) ==
    CHOOSE p \in Range([n \in 1..Len(r.url) |-> SubSeq(r.url, 1, n)]) :
      ~Contains(p, "?") /\ (p = r.url \/ r.url[Len(p) + 1] = "?")

Hosted(r) == Has(r, "host") \/ Has(r, "folded")

\* A length and an encoding together say two things about the body.
Framed(r) ==
    /\ ~(Has(r, "length") /\ Has(r, "chunked"))
    /\ \A m, n \in 1..Len(r.fields) : r.fields[m] = "length" /\ r.fields[n] = "length" => m = n

\* The server's one route is a WebSocket's: a plain request for it finds nothing, a
\* POST is not its method, and an upgrade elsewhere is met by closing the connection.
Due(r) ==
    CASE ~Framed(r) -> "closed"
      [] Framed(r) /\ r.version = "1.1" /\ ~Hosted(r) -> "400"
      [] Framed(r) /\ r.version = "1.1" /\ Hosted(r) /\ Has(r, "upgrade") ->
           IF Path(r) = <<"/">> /\ r.method = "GET" THEN "101" ELSE "closed"
      [] OTHER -> IF Path(r) = <<"/">> /\ r.method = "POST" THEN "405" ELSE "404"

\* After which requests the connection ends.
Ends(r) ==
    \/ ~Framed(r) \/ Has(r, "upgrade")
    \/ r.version = "1.1" /\ Has(r, "close")
    \/ r.version = "1.0" /\ ~Has(r, "keep")
=============================================================================
