--------------------------- MODULE HttpConnection ---------------------------
(***************************************************************************)
(* Crow's Connection before it is a WebSocket: http_parser_execute, whose  *)
(* callbacks (HTTPParser) build the request, and the answer the connection *)
(* writes.  The bytes come in reads that end anywhere.  One step is one    *)
(* symbol, or the end of a read; what the parser has marked in the buffer  *)
(* it hands over when the part is complete or the buffer ends.             *)
(*                                                                         *)
(* Left out: the limit on the headers' size, HEAD and OPTIONS, targets     *)
(* that are not paths, and deadlines, which CrowServer has.                *)
(***************************************************************************)
EXTENDS HttpRequests

CONSTANTS Request,      \* requests a browser may send
          MaxRequests   \* bound: requests sent over the connection

ASSUME RequestAssumption == (\A r \in Request : IsRequest(r)) /\ MaxRequests \in Nat

VARIABLES
    requests,   \* the requests sent, and
    stream,     \* their symbols; neither changes
    at,         \* symbols the parser has taken
    fed,        \* some of them in this read
    parser,     \* http_parser
    mark,       \* the part of the buffer marked, if any, and the symbols in it
    url_start_mark, \* where the first URL of this read began, 0 if none has
    req,        \* HTTPParser: the request so far
    found,      \* routing_handle_result_: there is a rule
    code,       \* res.code
    socket,     \* "open", "closed" or "upgraded"; "returned" when execute returned early
    close_connection_,
    answers,    \* what was written, the interim 100 left out
    handled     \* auxiliary: the requests handle() was called for

httpVars == <<requests, stream, at, fed, parser, mark, url_start_mark, req, found, code,
              socket, close_connection_, answers, handled>>

sent == <<requests, stream>>

ch == stream[at + 1]

\* The next symbol is taken in an action's first conjunct.
Takes(states, symbols) ==
    /\ socket = "open" /\ at < Len(stream)
    /\ parser.state \in states /\ ch \in symbols
    /\ at' = at + 1 /\ fed' = TRUE /\ UNCHANGED sent

NoMark == [of |-> "none", text |-> <<>>]

Fresh == [method |-> "GET", raw_url |-> <<>>, url |-> <<>>, version |-> "", body |-> <<>>,
          headers |-> [n \in {} |-> <<>>], field |-> <<>>, value |-> <<>>, building |-> 0,
          upgrade |-> FALSE, closing |-> FALSE]

Unset == 0 - 1   \* content_length of a message that has none; a qs_point past any URL
-----------------------------------------------------------------------------
(* The callbacks.                                                          *)

Put(headers, field, value) ==
    [f \in DOMAIN headers \cup {field} |-> IF f = field THEN value ELSE headers[f]]

\* on_header_field.  A field that follows one with no value drops that.
WithField(r, text) ==
    IF r.building = 1 THEN [r EXCEPT !.field = @ \o text]
    ELSE [r EXCEPT !.headers = IF r.value # <<>> THEN Put(@, r.field, r.value) ELSE @,
                   !.value = <<>>, !.field = text, !.building = 1]

\* Slip: a value's second part takes the place of the first.
ValueAssigned(r, text) == [r EXCEPT !.value = text, !.building = 0]

\* on_header_value.
WithValue(r, text) ==
    IF r.building = 0 THEN [r EXCEPT !.value = @ \o text]
    ELSE [r EXCEPT !.value = text, !.building = 0]

WithBody(r, text) == [r EXCEPT !.body = @ \o text]

\* on_url: the URL so far, up to where the query starts.
WithUrl(r, text) ==
    LET raw == r.raw_url \o text IN
      [r EXCEPT !.raw_url = raw,
                !.url = IF parser.qs_point \in 1..Len(raw) THEN SubSeq(raw, 1, parser.qs_point)
                        ELSE raw]

\* The request with what is marked handed over.
Delivered ==
    CASE mark.of = "url" -> WithUrl(req, mark.text)
      [] mark.of = "field" -> WithField(req, mark.text)
      [] mark.of = "value" -> WithValue(req, mark.text)
      [] mark.of = "body" -> WithBody(req, mark.text)
      [] OTHER -> req

\* The callback for what is marked.  The one for a URL looks its route up, handle_url.
Deliver ==
    /\ req' = Delivered
    /\ IF mark.of # "url" THEN UNCHANGED <<found, code>>
       ELSE LET known == Delivered.url = <<"/">> IN
              /\ found' = (known /\ req.method = "GET")
              /\ code' = IF known /\ req.method = "GET" THEN code
                         ELSE IF known THEN "405" ELSE "404"

Delivers == Deliver /\ mark' = NoMark

\* CROW_MARK and what follows it.
Marks(part) ==
    mark' = [of |-> part, text |-> IF mark.of = part THEN Append(mark.text, ch) ELSE <<ch>>]

connection == <<req, found, code, socket, close_connection_, answers, handled>>
-----------------------------------------------------------------------------
(* The request line.                                                       *)

Goes(state) == parser' = [parser EXCEPT !.state = state]
Still == UNCHANGED <<mark, url_start_mark, connection>>

\* The method and the space after it.
StartRequest ==
    \/ /\ Takes({"start_req"}, {"CR", "LF"}) /\ UNCHANGED parser /\ Still
    \/ /\ Takes({"start_req"}, {"GET", "POST"})
       /\ parser' = [parser EXCEPT !.state = "req_method", !.flags = {}, !.content_length = Unset,
                                   !.header_state = "general"]
       /\ req' = [req EXCEPT !.method = ch]
       /\ UNCHANGED <<mark, url_start_mark, found, code, socket, close_connection_, answers,
                      handled>>
    \/ /\ Takes({"req_method"}, {" "}) /\ Goes("spaces_before_url") /\ Still

\* The URL; parse_url_char notes where its query starts, counting from url_start_mark,
\* which is not set again for a second URL of the read.
Url ==
    \/ /\ Takes({"spaces_before_url"}, {"/"})
       /\ Goes("path") /\ Marks("url")
       /\ url_start_mark' = IF url_start_mark = 0 THEN at + 1 ELSE url_start_mark
       /\ UNCHANGED connection
    \/ /\ Takes({"path", "query"}, {"/", "a"})
       /\ Marks("url")
       /\ UNCHANGED <<parser, url_start_mark, connection>>
    \/ /\ Takes({"path"}, {"?"})
       /\ parser' = [parser EXCEPT !.state = "query",
                                   !.qs_point = IF url_start_mark = 0 THEN Unset
                                                ELSE at + 1 - url_start_mark]
       /\ Marks("url")
       /\ UNCHANGED <<url_start_mark, connection>>

UrlEnds ==
    /\ Takes({"path", "query"}, {" "})
    /\ Goes("http_start") /\ Delivers
    /\ UNCHANGED <<url_start_mark, socket, close_connection_, answers, handled>>

\* "HTTP/" and two digits.
Version ==
    /\ Takes({"http_start"}, {"1.0", "1.1"})
    /\ parser' = [parser EXCEPT !.state = "http_end", !.version = ch]
    /\ Still

LineEnds ==
    \/ Takes({"http_end"}, {"CR"}) /\ Goes("line_almost_done") /\ Still
    \/ Takes({"http_end", "line_almost_done"}, {"LF"}) /\ Goes("header_field_start") /\ Still
-----------------------------------------------------------------------------
(* Headers.                                                                *)

\* The names that mean something to the parser, which matches them piece by piece.
Name ==
    [n \in {"Up", "Conn", "Content-", "Transfer-", "Host", "Other", "Expect"} |->
        CASE n = "Up"        -> "matching_upgrade"
          [] n = "Conn"      -> "matching_connection"
          [] n = "Content-"  -> "matching_content_length"
          [] n = "Transfer-" -> "matching_transfer_encoding"
          [] OTHER           -> "general"]
Rest ==
    [matching_upgrade           |-> "upgrade",
     matching_connection        |-> "connection",
     matching_content_length    |-> "content_length",
     matching_transfer_encoding |-> "transfer_encoding"]
\* As for their values.
Value ==
    [v \in {"chun", "clo", "keep-"} |->
        CASE v = "chun" -> "matching_chunked" [] v = "clo" -> "matching_close"
          [] v = "keep-" -> "matching_keep"]
ValueRest ==
    [matching_chunked |-> "chunked", matching_close |-> "close", matching_keep |-> "keep_alive"]

\* Flags that a complete header sets, s_header_value_lws.
Flagged(p) ==
    [p EXCEPT !.flags = IF p.header_state \in {"chunked", "close", "keep_alive"}
                        THEN @ \cup {p.header_state} ELSE @]

\* Where a line of the headers may start.  The line before is complete: its flag is set,
\* and a value that was empty handed over.
LineStart == {"header_field_start", "header_value_lws", "discard_lws"}

CompletedLine == IF parser.state = "header_value_lws" THEN Flagged(parser) ELSE parser
CompletedField == IF parser.state = "discard_lws" THEN WithValue(req, <<>>) ELSE req

FieldStart ==
    /\ Takes(LineStart, DOMAIN Name)
    /\ parser' = [CompletedLine EXCEPT !.state = "header_field", !.header_state = Name[ch]]
    /\ req' = CompletedField
    /\ Marks("field")
    /\ UNCHANGED <<url_start_mark, found, code, socket, close_connection_, answers, handled>>

\* Slip: the name being matched is forgotten where a read ends.
FieldForgets ==
    /\ Takes({"header_field"}, {"grade", "ection", "Length", "Encoding"})
    /\ LET hs == IF mark.text = <<>> THEN "general" ELSE Rest[parser.header_state]
       IN parser' = [parser EXCEPT !.header_state = hs,
                       !.flags = @ \cup ({hs} \cap {"transfer_encoding"})]
    /\ Marks("field")
    /\ UNCHANGED <<url_start_mark, connection>>

Field ==
    /\ Takes({"header_field"}, {"grade", "ection", "Length", "Encoding"})
    /\ LET hs == Rest[parser.header_state]
       IN parser' = [parser EXCEPT !.header_state = hs,
                       !.flags = @ \cup ({hs} \cap {"transfer_encoding"})]
    /\ Marks("field")
    /\ UNCHANGED <<url_start_mark, connection>>

FieldEnds ==
    /\ Takes({"header_field"}, {":"})
    /\ Goes("header_value_discard_ws") /\ Delivers
    /\ UNCHANGED <<url_start_mark, socket, close_connection_, answers, handled>>

\* White space before a value, and a value that is empty.
DiscardSpace ==
    \/ Takes({"header_value_discard_ws"}, {" "}) /\ UNCHANGED parser /\ Still
    \/ Takes({"header_value_discard_ws"}, {"CR"}) /\ Goes("discard_ws_almost_done") /\ Still
    \/ /\ Takes({"header_value_discard_ws", "discard_ws_almost_done"}, {"LF"})
       /\ Goes("discard_lws") /\ Still

ValueSymbol == {"here", "there", " ", "websocket", "h", "clo", "se", "keep-", "alive", "chun", "ked",
                "100-continue"} \cup DOMAIN Digit

\* The first symbol of a value, or of its next line.  For h2 the parser looks a byte
\* ahead in the buffer: an upgrade to it is none, unless the read ends there.
ValueStart ==
    /\ Takes({"header_value_discard_ws"}, ValueSymbol \ {" "})
    /\ LET p == [parser EXCEPT !.state = "header_value"] IN
         \/ /\ p.header_state = "upgrade"
            /\ \E ahead \in IF ch = "h" THEN BOOLEAN ELSE {FALSE} :
                 parser' = [p EXCEPT !.header_state = "general", !.peeked = ahead,
                                     !.flags = IF ahead THEN @ ELSE @ \cup {"upgrade"}]
         \/ /\ p.header_state = "content_length"
            /\ parser' = [p EXCEPT !.header_state = "content_length_num",
                                   !.content_length = Digit[ch], !.flags = @ \cup {"content_length"}]
            /\ "content_length" \notin p.flags
         \/ /\ p.header_state \in {"connection", "transfer_encoding"}
            /\ parser' = [p EXCEPT !.header_state = Value[ch]]
         \/ p.header_state = "general" /\ parser' = p
    /\ Marks("value")
    /\ UNCHANGED <<url_start_mark, connection>>

NextDigit(p) == [p EXCEPT !.content_length = @ * 10 + Digit[ch]]

ValueGoesOn ==
    /\ Takes({"header_value"}, ValueSymbol)
    /\ LET p == [parser EXCEPT !.peeked = FALSE] IN
         parser' = CASE p.header_state = "content_length_num" -> NextDigit(p)
                     [] p.header_state \in DOMAIN ValueRest ->
                          [p EXCEPT !.header_state = ValueRest[p.header_state]]
                     [] OTHER -> p
    /\ Marks("value")
    /\ UNCHANGED <<url_start_mark, connection>>

ValueEnds ==
    /\ Takes({"header_value"}, {"CR", "LF"})
    /\ Goes(IF ch = "CR" THEN "header_almost_done" ELSE "header_value_lws") /\ Delivers
    /\ UNCHANGED <<url_start_mark, socket, close_connection_, answers, handled>>

HeaderAlmostDone ==
    \/ Takes({"header_almost_done"}, {"LF"}) /\ Goes("header_value_lws") /\ Still
    \/ /\ Takes(LineStart, {"CR"})
       /\ parser' = [CompletedLine EXCEPT !.state = "headers_almost_done"]
       /\ req' = CompletedField
       /\ UNCHANGED <<mark, url_start_mark, found, code, socket, close_connection_, answers,
                      handled>>

\* A folded line is more of the value.
Folded ==
    /\ Takes({"header_value_lws"}, {" "})
    /\ Goes("header_value") /\ Marks("value")
    /\ UNCHANGED <<url_start_mark, connection>>
-----------------------------------------------------------------------------
(* The answer: handle().                                                   *)

Asks(r) == <<"Up", "grade">> \in DOMAIN r.headers /\ Head(r.headers[<<"Up", "grade">>]) # "h"

\* HTTP/1.1 and the header it requires, and an upgrade to what Crow supports.
Invalid(r) == r.version = "1.1" /\ <<"Host">> \notin DOMAIN r.headers
Upgrades(r) == r.version = "1.1" /\ ~Invalid(r) /\ r.upgrade /\ Asks(r)

\* parser_.clear(), inside execute.
Cleared(p) == [p EXCEPT !.state = "start_req", !.qs_point = 0]

\* The message r is complete and p the parser's state.  An upgrade takes the socket, or is
\* refused without a word; anything else is answered at once and the parser cleared.
Handle(p, r, status) ==
    /\ handled' = Append(handled, r)
    /\ mark' = NoMark /\ UNCHANGED <<url_start_mark, found>>
    /\ IF Upgrades(r)
       THEN /\ close_connection_' = TRUE
            /\ socket' = IF found THEN "upgraded" ELSE "returned"
            /\ answers' = IF found THEN Append(answers, "101") ELSE answers
            /\ parser' = p /\ req' = r /\ code' = status
       ELSE /\ close_connection_' = r.closing
            /\ socket' = IF r.upgrade THEN "returned" ELSE socket
            /\ answers' = Append(answers, CASE Invalid(r) -> "400"
                                            [] ~Invalid(r) /\ found -> "404"
                                            [] ~Invalid(r) /\ ~found -> status)
            /\ parser' = Cleared(p) /\ req' = Fresh /\ code' = "200"

\* on_headers_complete: the last header, and what they say of the connection.
WithConnection(r, p) ==
    [r EXCEPT !.headers = IF r.field # <<>> THEN Put(@, r.field, r.value) ELSE @,
              !.field = <<>>, !.value = <<>>,
              !.version = p.version, !.upgrade = "upgrade" \in p.flags,
              !.closing = IF p.version = "1.0" THEN "keep_alive" \notin p.flags
                          ELSE "close" \in p.flags]

\* handle_header: the interim answer clears the response.
Continued(r) ==
    IF r.version = "1.1" /\ <<"Expect">> \in DOMAIN r.headers THEN "200" ELSE code

Refuses ==
    /\ socket' = "closed"
    /\ mark' = NoMark /\ UNCHANGED <<parser, url_start_mark, req, found, code, close_connection_,
                                     answers, handled>>

\* A length together with an encoding, or an encoding that does not say where the body ends.
Misframed(p) ==
    "transfer_encoding" \in p.flags /\ ("content_length" \in p.flags \/ "chunked" \notin p.flags)

HeadersDone ==
    /\ \/ Takes({"headers_almost_done"}, {"LF"}) /\ "trailing" \notin parser.flags
       \/ Takes(LineStart, {"LF"})
    /\ LET p == CompletedLine
           r == WithConnection(CompletedField, p)
       IN IF Misframed(p) THEN Refuses
          ELSE IF ~r.upgrade /\ ("chunked" \in p.flags \/ p.content_length > 0)
          THEN /\ parser' = [p EXCEPT !.state = IF "chunked" \in p.flags THEN "chunk_size_start"
                                                ELSE "body_identity"]
               /\ req' = r /\ code' = Continued(r)
               /\ UNCHANGED <<mark, url_start_mark, found, socket, close_connection_, answers, handled>>
          ELSE Handle(p, r, Continued(r))

\* A second length.
LengthTwice ==
    /\ Takes({"header_value_discard_ws"}, DOMAIN Digit)
    /\ parser.header_state = "content_length" /\ "content_length" \in parser.flags
    /\ Refuses
-----------------------------------------------------------------------------
(* The body.                                                               *)

BodyByte ==
    /\ Takes({"body_identity"}, Range(stream))
    /\ IF parser.content_length > 1
       THEN /\ parser' = [parser EXCEPT !.content_length = @ - 1]
            /\ Marks("body") /\ UNCHANGED <<url_start_mark, connection>>
       ELSE Handle(parser, WithBody(req, Append(mark.text, ch)), code)

ChunkSize ==
    \/ /\ Takes({"chunk_size_start"}, DOMAIN Digit)
       /\ parser' = [parser EXCEPT !.state = "chunk_size", !.content_length = Digit[ch]]
       /\ Still
    \/ Takes({"chunk_size"}, {"CR"}) /\ Goes("chunk_size_almost_done") /\ Still
    \/ /\ Takes({"chunk_size_almost_done"}, {"LF"})
       /\ parser' = IF parser.content_length = 0
                    THEN [parser EXCEPT !.state = "header_field_start", !.flags = @ \cup {"trailing"}]
                    ELSE [parser EXCEPT !.state = "chunk_data"]
       /\ Still

ChunkData ==
    \/ /\ Takes({"chunk_data"}, Range(stream))
       /\ parser' = [parser EXCEPT !.content_length = @ - 1,
                        !.state = IF parser.content_length = 1 THEN "chunk_data_almost_done" ELSE @]
       /\ Marks("body") /\ UNCHANGED <<url_start_mark, connection>>
    \/ /\ Takes({"chunk_data_almost_done"}, {"CR"})
       /\ Goes("chunk_data_done") /\ Delivers
       /\ UNCHANGED <<url_start_mark, socket, close_connection_, answers, handled>>
    \/ Takes({"chunk_data_done"}, {"LF"}) /\ Goes("chunk_size_start") /\ Still

\* The empty line after the last chunk.
TrailerEnds ==
    /\ Takes({"headers_almost_done"}, {"LF"}) /\ "trailing" \in parser.flags
    /\ Handle(parser, req, code)
-----------------------------------------------------------------------------
(* The end of a read: execute hands over what is marked, and do_read goes  *)
(* on, or the connection is let go.                                        *)

\* The parts that a new buffer continues.
Remarked ==
    CASE parser.state \in {"path", "query"} -> [of |-> "url", text |-> <<>>]
      [] parser.state = "header_field" -> [of |-> "field", text |-> <<>>]
      [] parser.state = "header_value" -> [of |-> "value", text |-> <<>>]
      [] OTHER -> NoMark

\* When execute returned before the end of the buffer the connection is closed.
EndOfRead ==
    /\ socket \in {"open", "returned"} /\ fed /\ ~parser.peeked
    /\ fed' = FALSE /\ url_start_mark' = 0
    /\ Deliver /\ mark' = Remarked
    /\ socket' \in IF close_connection_ THEN {"closed"}
                   ELSE IF socket = "returned" /\ at < Len(stream) THEN {"open", "closed"}
                   ELSE {"open"}
    /\ UNCHANGED <<sent, at, parser, close_connection_, answers, handled>>
-----------------------------------------------------------------------------
(* The specification.                                                      *)

Texts(rs) == [n \in 1..Len(rs) |-> RequestText(rs[n])]

Init ==
    /\ requests \in UNION {[1..n -> Request] : n \in 1..MaxRequests}
    /\ stream = Joined(Texts(requests))[1]
    /\ at = 0 /\ fed = FALSE
    /\ parser = [state |-> "start_req", header_state |-> "general", flags |-> {},
                 content_length |-> Unset, version |-> "", qs_point |-> 0, peeked |-> FALSE]
    /\ mark = NoMark /\ url_start_mark = 0
    /\ req = Fresh /\ found = FALSE /\ code = "200"
    /\ socket = "open" /\ close_connection_ = FALSE
    /\ answers = <<>> /\ handled = <<>>

Execute ==
    \/ StartRequest \/ Url \/ UrlEnds \/ Version \/ LineEnds
    \/ FieldStart \/ Field \/ FieldEnds \/ DiscardSpace \/ ValueStart \/ ValueGoesOn
    \/ ValueEnds \/ HeaderAlmostDone \/ Folded \/ HeadersDone \/ LengthTwice
    \/ BodyByte \/ ChunkSize \/ ChunkData \/ TrailerEnds

Next == Execute \/ EndOfRead

Spec == Init /\ [][Next]_httpVars

\* The worker runs the completion of a read, and what was sent arrives.
FairSpec == Spec /\ WF_httpVars(Next)
-----------------------------------------------------------------------------
(* Properties.                                                             *)

\* Types of the connection's state.
HttpTypeOK ==
    /\ at \in 0..Len(stream) /\ fed \in BOOLEAN /\ url_start_mark \in 0..at
    /\ parser.content_length \in Unset..Len(stream)
    /\ mark.of \in {"none", "url", "field", "value", "body"}
    /\ req.building \in {0, 1} /\ DOMAIN req = DOMAIN Fresh
    /\ socket \in {"open", "closed", "upgraded", "returned"}
    /\ Range(answers) \subseteq {"101", "200", "400", "404", "405"}

\* Requests that may be answered as if they were for something else: a read that ends within
\* the URL makes the query part of the path, so that the wrong method is not seen; and the
\* interim answer forgets that no rule was found.
Misjudged(r) ==
    \/ Contains(r.url, "?") /\ Path(r) = <<"/">> /\ r.method = "POST"
    \/ r.version = "1.1" /\ Has(r, "expect") /\ ~(r.url = <<"/">> /\ r.method = "GET")

\* However the bytes are torn into reads, requests are answered in order, each with what
\* it is due.
AnswersInOrder ==
    /\ Len(answers) <= Len(requests)
    /\ \A i \in 1..Len(answers) : answers[i] = Due(requests[i]) \/ Misjudged(requests[i])

\* Wherever a read ended, within a name, a value, a length or a chunk, what is handled is
\* what was sent: the URL, the host with all its lines, the body.
RequestsArriveWhole ==
    /\ Len(handled) <= Len(requests)
    /\ \A i \in 1..Len(handled) :
         LET r == requests[i]  h == handled[i].headers
         IN /\ handled[i].raw_url = r.url
            /\ handled[i].body = r.body
            /\ (<<"Host">> \in DOMAIN h) = Hosted(r)
            /\ Has(r, "host") => h[<<"Host">>] = <<"here">>
            /\ Has(r, "folded") => h[<<"Host">>] = <<"here", " ", "there">>

\* The url that routes are looked up by is the path without the query.  A read that ends
\* between the two refutes it, and so does a second URL of a read.
PathAlone ==
    \A i \in 1..Min({Len(handled), Len(requests)}) : handled[i].url = Path(requests[i])

\* The parser expects a request where one begins: no byte of a body is taken for a
\* request's, nor of a request for a body's, and each before was answered.
InStep ==
    socket = "open" /\ parser.state = "start_req" /\ ~close_connection_ =>
      \E n \in 0..Len(requests) :
        /\ Len(answers) = n
        /\ at - FoldLeft(LAMBDA s, r : s + Len(RequestText(r)), 0, SubSeq(requests, 1, n))
             \in 0..(IF n < Len(requests) THEN Len(requests[n + 1].lead) ELSE 0)

\* The connection is let go only after a request that ends it, and a request that says two
\* things about its body is not answered.
ClosedForReason ==
    /\ socket = "closed" => \E i \in 1..Len(requests) : i <= Len(answers) + 1 /\ Ends(requests[i])
    /\ \A i \in 1..Len(handled) : Framed(requests[i])

\* What was sent is answered, or the connection ends.
AllAnswered == <>(Len(answers) = Len(requests) \/ socket \in {"closed", "upgraded"})
=============================================================================
