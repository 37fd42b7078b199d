------------------------------ MODULE HttpProofs ------------------------------
(***************************************************************************)
(* That the answers follow the requests and that the requests arrive       *)
(* whole, however the bytes are torn into reads: at every symbol of a      *)
(* request the parser's state, its flags, what is marked and what it has   *)
(* handed over are what the symbols before it say.                         *)
(***************************************************************************)
EXTENDS HttpConnection, WellFoundedInduction, TLAPS

\* What a stream is made of.
Ten == {"0", "1", "2", "3", "4", "5", "6", "7", "8", "9"}
\* Its symbols.
Symbol ==
    {"GET", "POST", " ", "/", "a", "?", "1.0", "1.1", "CR", "LF", ":", "Host", "Up", "grade", "Conn",
     "ection", "Expect", "Content-", "Length", "Transfer-", "Encoding", "Other", "here", "there",
     "websocket", "h", "clo", "se", "keep-", "alive", "100-continue", "chun", "ked"}
      \cup Ten \cup Octet

\* What is left behind the first k symbols, these, and what the parser has still to take.
Drop(t, k) == SubSeq(t, k + 1, Len(t))
Upto(t, k) == SubSeq(t, 1, k)
Coming == Drop(stream, at)

\* What is still to come of request r, and behind it l, from each of its parts on.
FromLine(r, j, l) == Joined(Lines(r))[j] \o (r.eol \o (BodyText(r) \o l))
FromVersion(r, l) == <<r.version>> \o (r.eol \o FromLine(r, 1, l))
FromUrl(r, k, l) == Drop(r.url, k) \o (<<" ">> \o FromVersion(r, l))
FromMethod(r, l) == <<r.method>> \o (<<" ">> \o FromUrl(r, 0, l))
FromName(r, j, k, l) ==
    LET f == r.fields[j]
    IN Drop(NameText(f), k)
         \o (<<":">> \o ((IF f = "blank" THEN <<>> ELSE <<" ">>)
                           \o (ValueText(r, f) \o (r.eol \o FromLine(r, j + 1, l)))))
FromSpace(r, j, k, l) ==
    (IF k = 0 THEN <<" ">> ELSE <<>>)
       \o (ValueText(r, r.fields[j]) \o (r.eol \o FromLine(r, j + 1, l)))
\* Behind the end of the line that k symbols of the value end on.
FromNext(r, j, k, l) ==
    IF r.fields[j] = "folded" /\ k = 1
    THEN <<" ">> \o (<<"there">> \o (r.eol \o FromLine(r, j + 1, l)))
    ELSE FromLine(r, j + 1, l)
FromValue(r, j, k, l) ==
    IF r.fields[j] = "folded" /\ k = 1 THEN r.eol \o FromNext(r, j, k, l)
    ELSE Drop(ValueSaid(r, r.fields[j]), k) \o (r.eol \o FromLine(r, j + 1, l))
Later(n) == Joined(Texts(requests))[n + 1]

\* Fields before j.
Marked(r, j, f) == \E m \in 1..j : r.fields[m] = f

\* What the headers h tell of the first j fields: each that has a value, and nothing else.
Told(h, r, j) ==
    /\ \A m \in 1..j : r.fields[m] # "blank" => NameText(r.fields[m]) \in DOMAIN h
    /\ \A n \in DOMAIN h : \E m \in 1..j :
         NameText(r.fields[m]) = n /\ h[n] = ValueSaid(r, r.fields[m])

\* The parser's flags, behind the names, the starts and the ends of so many values.
FlagsInv(p, r, name, num, val) ==
    /\ "trailing" \notin p.flags
    /\ "transfer_encoding" \in p.flags <=> Marked(r, name, "chunked")
    /\ "content_length" \in p.flags <=> Marked(r, num, "length")
    /\ \A m, n \in 1..num : r.fields[m] = "length" /\ r.fields[n] = "length" => m = n
    /\ Marked(r, num, "upgrade") => "upgrade" \in p.flags
    /\ "upgrade" \in p.flags => Marked(r, num, "upgrade") \/ Marked(r, num, "h2")
    /\ "chunked" \in p.flags <=> Marked(r, val, "chunked")

\* The length of the body, when it is known.
LengthInv(p, r, num) ==
    p.content_length = IF Marked(r, num, "length") THEN Len(r.body) ELSE Unset

\* What the route answers, when it is not an upgrade.
Answer(r) == IF Path(r) = <<"/">> /\ r.method = "POST" THEN "405" ELSE "404"
\* What is known of r's route, and status what it is answered when there is none.
Judged(r, status) ==
    /\ found => r.method = "GET" /\ Path(r) = <<"/">>
    /\ ~found => status = Answer(r) \/ Misjudged(r)
    /\ r.method = "GET" /\ r.url = <<"/">> => found

-----------------------------------------------------------------------------
\* A request is expected: n of them are behind, and what is left of an empty line.
Idle(n) ==
    /\ parser.state = "start_req" /\ parser.qs_point = 0 /\ mark = NoMark /\ req = Fresh
    /\ IF n = Len(requests) THEN Coming = <<>>
       ELSE \E k \in 0..Len(requests[n + 1].lead) :
              Coming = Drop(requests[n + 1].lead, k) \o FromMethod(requests[n + 1], Later(n + 1))

\* No header yet.
Bare(r) ==
    /\ parser.flags = {} /\ parser.content_length = Unset /\ req.method = r.method
    /\ DOMAIN req.headers = {} /\ req.field = <<>> /\ req.value = <<>> /\ req.building = 0
    /\ req.body = <<>>

\* Behind the method.
AtMethod(r, l) ==
    /\ parser.state = "req_method" /\ Bare(r) /\ req.raw_url = <<>>
    /\ parser.qs_point = 0 /\ mark = NoMark
    /\ Coming = <<" ">> \o FromUrl(r, 0, l)

\* Behind the space after it.
BeforeUrl(r, l) ==
    /\ parser.state = "spaces_before_url" /\ Bare(r) /\ req.raw_url = <<>>
    /\ parser.qs_point = 0 /\ mark = NoMark
    /\ Coming = FromUrl(r, 0, l)

\* Behind k symbols of the URL.
InUrl(r, l) ==
    /\ parser.state \in {"path", "query"} /\ Bare(r) /\ mark.of = "url"
    /\ \E k \in 1..Len(r.url) :
         /\ Coming = FromUrl(r, k, l) /\ Delivered.raw_url = Upto(r.url, k)
         /\ url_start_mark = 0 \/ url_start_mark <= at + 1 - k
         /\ parser.state = "path" => /\ parser.qs_point = 0
                                     /\ \A m \in 1..k : r.url[m] # "?"
         /\ parser.state = "query" => \E m \in 1..k :
              r.url[m] = "?" /\ (parser.qs_point = Unset \/ parser.qs_point >= m - 1)

\* The URL is known.
Routed(r) == Judged(r, code) /\ Delivered.raw_url = r.url /\ Delivered.method = r.method

\* Behind the URL, the version and the CR of its line.
InVersion(r, l) ==
    /\ mark = NoMark /\ Bare(r) /\ Routed(r)
    /\ \/ parser.state = "http_start" /\ Coming = FromVersion(r, l)
       \/ /\ parser.state = "http_end" /\ parser.version = r.version
          /\ Coming = r.eol \o FromLine(r, 1, l)
       \/ /\ parser.state = "line_almost_done" /\ parser.version = r.version
          /\ Coming = <<"LF">> \o FromLine(r, 1, l)

\* What holds throughout the headers.
InHeaders(r) == Routed(r) /\ parser.version = r.version /\ Delivered.body = <<>>

\* Behind the request line.
BeforeFields(r, l) ==
    /\ parser.state = "header_field_start" /\ mark = NoMark /\ Bare(r) /\ InHeaders(r)
    /\ Coming = FromLine(r, 1, l)

\* The state that a name leads to.
Known(f) ==
    CASE f \in {"upgrade", "h2"} -> "upgrade"
      [] f \in {"close", "keep"} -> "connection"
      [] f = "length" -> "content_length"
      [] f = "chunked" -> "transfer_encoding"
      [] OTHER -> "general"

\* The request holds k symbols of field j's name and v of its value.
Holds(q, r, j, k, v) ==
    /\ Told(q.headers, r, j - 1)
    /\ q.field = Upto(NameText(r.fields[j]), k)
    /\ q.value = Upto(ValueSaid(r, r.fields[j]), v)

\* Behind k symbols of field j's name.
InName(r, l) ==
    \E j \in 1..Len(r.fields) : LET f == r.fields[j] IN \E k \in 1..Len(NameText(f)) :
      /\ parser.state = "header_field" /\ mark.of = "field" /\ InHeaders(r)
      /\ Holds(Delivered, r, j, k, 0) /\ Delivered.building = 1
      /\ req.building = 0 => mark.text # <<>>
      /\ FlagsInv(parser, r, IF k = Len(NameText(f)) THEN j ELSE j - 1, j - 1, j - 1) /\ LengthInv(parser, r, j - 1)
      /\ parser.header_state = IF k = Len(NameText(f)) THEN Known(f) ELSE Name[NameText(f)[1]]
      /\ Coming = FromName(r, j, k, l)

\* Behind the name, before a value.
AtSpace(r, l) ==
    \E j \in 1..Len(r.fields) : LET f == r.fields[j] IN
      /\ mark = NoMark /\ InHeaders(r)
      /\ Holds(req, r, j, Len(NameText(f)), 0) /\ req.building = 1
      /\ FlagsInv(parser, r, j, j - 1, j - 1) /\ LengthInv(parser, r, j - 1)
      /\ parser.header_state = Known(f)
      /\ \/ /\ parser.state = "header_value_discard_ws"
            /\ Coming = FromSpace(r, j, IF f = "blank" THEN 1 ELSE 0, l) \/ Coming = FromSpace(r, j, 1, l)
         \/ /\ parser.state = "discard_ws_almost_done" /\ f = "blank"
            /\ Coming = <<"LF">> \o FromLine(r, j + 1, l)
         \/ /\ parser.state = "discard_lws" /\ f = "blank"
            /\ Coming = FromLine(r, j + 1, l)

\* The state that k symbols of a value lead to.
Read(f, k) ==
    CASE f = "length" -> "content_length_num"
      [] f = "close" -> IF k = 1 THEN "matching_close" ELSE "close"
      [] f = "keep" -> IF k = 1 THEN "matching_keep" ELSE "keep_alive"
      [] f = "chunked" -> IF k = 1 THEN "matching_chunked" ELSE "chunked"
      [] OTHER -> "general"

\* Behind k symbols of field j's value, and behind the end of that line.
InValue(r, l) ==
    \E j \in 1..Len(r.fields) : LET f == r.fields[j] IN \E k \in 1..Len(ValueSaid(r, f)) :
      /\ InHeaders(r)
      /\ Holds(Delivered, r, j, Len(NameText(f)), k) /\ Delivered.building = 0
      /\ FlagsInv(parser, r, j, j, j - 1)
      /\ IF f = "length" /\ k = 1 THEN parser.content_length = Len(r.body) \div 10
         ELSE LengthInv(parser, r, j)
      /\ parser.header_state = Read(f, k)
      /\ \/ /\ parser.state = "header_value" /\ mark.of = "value" /\ Coming = FromValue(r, j, k, l)
            /\ req.building = 1 => mark.text # <<>>
         \/ /\ mark = NoMark /\ (k = Len(ValueSaid(r, f)) \/ (f = "folded" /\ k = 1))
            /\ \/ parser.state = "header_almost_done" /\ Coming = <<"LF">> \o FromNext(r, j, k, l)
               \/ parser.state = "header_value_lws" /\ Coming = FromNext(r, j, k, l)

\* All headers but the last are told.
AtHeadersEnd(r, l) ==
    /\ parser.state = "headers_almost_done" /\ mark = NoMark /\ InHeaders(r)
    /\ LET n == Len(r.fields) IN
         /\ FlagsInv(parser, r, n, n, n) /\ LengthInv(parser, r, n)
         /\ Told(WithConnection(req, parser).headers, r, n)
    /\ Coming = <<"LF">> \o (BodyText(r) \o l)

\* Headers are complete, the body is not.
Taken(r) ==
    /\ Routed(r) /\ Framed(r) /\ Delivered.version = r.version
    /\ Told(Delivered.headers, r, Len(r.fields))
    /\ ~Delivered.upgrade /\ ~Has(r, "upgrade")

\* Behind k bytes of a body whose length was said.
InBody(r, l) ==
    /\ parser.state = "body_identity" /\ mark.of \in {"none", "body"} /\ Taken(r)
    /\ mark.of = "none" => mark.text = <<>>
    /\ \E k \in 0..(Len(r.body) - 1) :
         /\ parser.content_length = Len(r.body) - k
         /\ Delivered.body = Upto(r.body, k) /\ Coming = Drop(r.body, k) \o l

\* The ends of a chunked body.
EmptyLine(l) == <<"CR">> \o (<<"LF">> \o l)
LastChunk(l) == <<"0">> \o EmptyLine(EmptyLine(l))
\* Around a chunk: its size, that line, and its last line's end.
AtChunk(r, l) ==
    /\ mark = NoMark /\ Taken(r)
    /\ \/ /\ parser.state = "chunk_size_start" /\ req.body = <<>> /\ Has(r, "chunked")
          /\ Coming = BodyText(r) \o l
       \/ /\ parser.state = "chunk_size" /\ req.body = <<>> /\ r.body # <<>>
          /\ parser.content_length = Len(r.body)
          /\ Coming = EmptyLine(r.body \o EmptyLine(LastChunk(l)))
       \/ /\ parser.state = "chunk_size_almost_done" /\ req.body = <<>> /\ r.body # <<>>
          /\ parser.content_length = Len(r.body)
          /\ Coming = <<"LF">> \o (r.body \o EmptyLine(LastChunk(l)))
       \/ /\ parser.state = "chunk_data_done" /\ req.body = r.body
          /\ Coming = <<"LF">> \o LastChunk(l)

\* Within a chunk.
InChunk(r, l) ==
    /\ mark.of \in {"none", "body"} /\ Taken(r)
    /\ mark.of = "none" => mark.text = <<>>
    /\ \/ /\ parser.state = "chunk_data"
          /\ \E k \in 0..(Len(r.body) - 1) :
               /\ parser.content_length = Len(r.body) - k
               /\ Delivered.body = Upto(r.body, k)
               /\ Coming = Drop(r.body, k) \o EmptyLine(LastChunk(l))
       \/ /\ parser.state = "chunk_data_almost_done" /\ Delivered.body = r.body
          /\ Coming = EmptyLine(LastChunk(l))

\* At the last chunk and the empty line.
AtLast(r, l) ==
    /\ mark = NoMark /\ Taken(r) /\ req.body = r.body
    /\ \/ parser.state = "chunk_size_start" /\ Coming = LastChunk(l)
       \/ /\ parser.state = "chunk_size" /\ parser.content_length = 0
          /\ Coming = EmptyLine(EmptyLine(l))
       \/ /\ parser.state = "chunk_size_almost_done" /\ parser.content_length = 0
          /\ Coming = <<"LF">> \o EmptyLine(l)
       \/ /\ parser.state = "header_field_start" /\ "trailing" \in parser.flags
          /\ Coming = EmptyLine(l)
       \/ /\ parser.state = "headers_almost_done" /\ "trailing" \in parser.flags
          /\ Coming = <<"LF">> \o l

\* The request is being taken: the parser is in one of its parts.
InRequest(r, l) ==
    \/ AtMethod(r, l) \/ BeforeUrl(r, l) \/ InUrl(r, l) \/ InVersion(r, l) \/ BeforeFields(r, l)
    \/ InName(r, l) \/ AtSpace(r, l) \/ InValue(r, l) \/ AtHeadersEnd(r, l)
    \/ InBody(r, l) \/ AtChunk(r, l) \/ InChunk(r, l) \/ AtLast(r, l)

\* Request n + 1 is being taken.
InNext(n) ==
    n < Len(requests) /\ \E r \in {requests[n + 1]}, l \in {Later(n + 1)} : InRequest(r, l)

\* The answers so far are right, and the parser is where the stream is.
ParseInv ==
    LET n == Len(handled) IN
    /\ AnswersInOrder /\ RequestsArriveWhole /\ Len(answers) <= n
    /\ socket = "open" => /\ Len(answers) = n
                          /\ Idle(n) \/ InNext(n)
    /\ socket = "returned" => close_connection_ \/ (Len(answers) = n /\ Idle(n))

-----------------------------------------------------------------------------
\* Joining puts a sequence in front of a sequence.
LEMMA Associative ==
    ASSUME NEW S, NEW x \in Seq(S), NEW y \in Seq(S), NEW z \in Seq(S)
    PROVE  (x \o y) \o z = x \o (y \o z) /\ x \o (y \o z) \in Seq(S)
OBVIOUS

\* What is left of t begins with the next element of t.
LEMMA DropNext ==
    ASSUME NEW S, NEW t \in Seq(S), NEW x \in Seq(S), NEW k \in Nat, k < Len(t)
    PROVE  Drop(t, k) \o x = <<t[k + 1]>> \o (Drop(t, k + 1) \o x)
<1>1. SubSeq(t, k + 2, Len(t)) \in Seq(S)
  OBVIOUS
<1>2. PICK u \in Seq(S) : u = SubSeq(t, k + 2, Len(t))
  BY <1>1
<1>3. Drop(t, k + 1) = u
  BY <1>2 DEF Drop
<1>4. Drop(t, k) = <<t[k + 1]>> \o u
  BY <1>2 DEF Drop
<1>0. <<t[k + 1]>> \in Seq(S)
  OBVIOUS
<1>5. PICK a \in Seq(S) : a = <<t[k + 1]>>
  BY <1>0
<1>6. (a \o u) \o x = a \o (u \o x)
  BY Associative
<1> QED
  BY <1>3, <1>4, <1>5, <1>6, Zenon

\* Dropping nothing, and all.
LEMMA DropNone == ASSUME NEW S, NEW t \in Seq(S) PROVE Drop(t, 0) = t
BY DEF Drop

\* Dropping everything.
LEMMA DropAll ==
    ASSUME NEW S, NEW t \in Seq(S), NEW x \in Seq(S) PROVE Drop(t, Len(t)) \o x = x
BY DEF Drop

\* What is left is a sequence.
LEMMA DropSeq ==
    ASSUME NEW S, NEW t \in Seq(S), NEW k \in Nat PROVE Drop(t, k) \in Seq(S)
BY DEF Drop

\* One symbol more.
LEMMA UptoNext ==
    ASSUME NEW S, NEW t \in Seq(S), NEW k \in Nat, k < Len(t)
    PROVE  Upto(t, k + 1) = Upto(t, k) \o <<t[k + 1]>>
BY DEF Upto

\* All symbols, and none.
LEMMA UptoAll == ASSUME NEW S, NEW t \in Seq(S) PROVE Upto(t, Len(t)) = t /\ Upto(t, 0) = <<>>
BY DEF Upto

\* The next symbol is the first one to come.
LEMMA ComesNext ==
    ASSUME stream \in Seq(Symbol), at \in Nat, NEW a, NEW x \in Seq(Symbol), Coming = <<a>> \o x
    PROVE  at < Len(stream) /\ ch = a /\ (stream' = stream /\ at' = at + 1 => Coming' = x)
<1>1. <<a>> \o x = SubSeq(stream, at + 1, Len(stream))
  BY DEF Coming, Drop
<1>2. at < Len(stream) /\ stream[at + 1] = a /\ SubSeq(stream, at + 2, Len(stream)) = x
  BY <1>1
<1>3. ASSUME stream' = stream, at' = at + 1 PROVE Coming' = x
  <2>1. at' + 1 = at + 2
    BY <1>3
  <2> QED
    BY <1>2, <1>3, <2>1 DEF Coming, Drop
<1> QED
  BY <1>2, <1>3 DEF ch

\* Nothing comes when all is taken.
LEMMA NoneToCome ==
    ASSUME stream \in Seq(Symbol), at \in Nat, Coming = <<>>
    PROVE  ~(at < Len(stream))
<1> SUFFICES ASSUME at < Len(stream) PROVE Len(SubSeq(stream, at + 1, Len(stream))) # 0
  BY DEF Coming, Drop
<1> QED
  OBVIOUS

\* A nonempty set of natural numbers has a least element.
LEMMA LeastOf ==
    ASSUME NEW K \in SUBSET Nat, K # {}
    PROVE  \E x \in K : \A y \in K : x <= y
<1>1. PICK x \in K : \A y \in K : ~(<<y, x>> \in OpToRel(<, Nat))
  BY NatLessThanWellFounded, WFMin
<1>2. ASSUME NEW y \in K PROVE x <= y
  <2>1. <<y, x>> \in Nat \X Nat /\ ~(<<y, x>> \in OpToRel(<, Nat))
    BY <1>1
  <2>2. ~(y < x)
    BY <2>1 DEF OpToRel
  <2>3. x \in Nat /\ y \in Nat
    OBVIOUS
  <2> QED
    BY <2>2, <2>3
<1> QED
  BY <1>2

\* g is what Joined should be, from text l + 1 - m of l texts on.
JoinsFrom(g, texts, m) ==
    \A n \in (Len(texts) + 1 - m)..(Len(texts) + 1) :
      g[n] = IF n > Len(texts) THEN <<>> ELSE texts[n] \o g[n + 1]

\* There is such a function for every number of texts, one text after the other.
LEMMA JoinedExists ==
    ASSUME NEW texts, Len(texts) \in Nat
    PROVE  \A m \in 0..Len(texts) : \E g : JoinsFrom(g, texts, m)
<1> DEFINE K == {m \in 0..Len(texts) : ~\E g : JoinsFrom(g, texts, m)}
<1>0. PICK l \in Nat : l = Len(texts)
  OBVIOUS
<1> SUFFICES ASSUME K # {} PROVE FALSE
  OBVIOUS
<1>1. PICK m \in K : \A y \in K : m <= y
  <2>1. K \in SUBSET Nat
    BY <1>0
  <2> QED
    BY <2>1, LeastOf
<1>2. m \in 0..l /\ m \in Nat
  BY <1>0, <1>1
<1>3. PICK h : m # 0 => JoinsFrom(h, texts, m - 1)
  <2>1. m # 0 => m - 1 \in 0..l /\ m - 1 \notin K
    BY <1>1, <1>2
  <2> QED
    BY <1>0, <2>1
<1>4. PICK z \in 1..(l + 1) : z = l + 1 - m
  BY <1>0, <1>2
<1>5. PICK b : b = IF z > l THEN <<>> ELSE texts[z] \o h[z + 1]
  OBVIOUS
<1> DEFINE g == [n \in 1..(l + 1) |-> IF n = z THEN b ELSE h[n]]
<1>6. g[z] = b /\ \A n \in (z + 1)..(l + 1) : g[n] = h[n]
  BY <1>0, <1>4
<1> HIDE DEF g
<1>7. ASSUME NEW n \in z..(l + 1)
      PROVE  g[n] = IF n > l THEN <<>> ELSE texts[n] \o g[n + 1]
  <2>1. CASE n = z
    <3>1. n <= l => g[n + 1] = h[n + 1]
      BY <1>0, <1>4, <1>6, <2>1
    <3> QED
      BY <1>0, <1>4, <1>5, <1>6, <2>1, <3>1
  <2>2. CASE n # z
    <3>1. m # 0 /\ n \in (l + 1 - (m - 1))..(l + 1) /\ n \in (z + 1)..(l + 1)
      BY <1>0, <1>2, <1>4, <1>7, <2>2
    <3>2. h[n] = IF n > l THEN <<>> ELSE texts[n] \o h[n + 1]
      BY <1>0, <1>3, <3>1 DEF JoinsFrom
    <3>3. n <= l => g[n + 1] = h[n + 1]
      BY <1>0, <1>4, <1>6, <1>7
    <3> QED
      BY <1>0, <1>6, <3>1, <3>2, <3>3
  <2> QED
    BY <2>1, <2>2
<1>8. JoinsFrom(g, texts, m)
  BY <1>0, <1>4, <1>7 DEF JoinsFrom
<1> QED
  BY <1>1, <1>8

\* f is what the definition of Joined says.
Joins(f, texts) ==
    f = [n \in 1..(Len(texts) + 1) |-> IF n > Len(texts) THEN <<>> ELSE texts[n] \o f[n + 1]]

\* So Joined is what its definition says.
LEMMA JoinedUnfolds ==
    ASSUME NEW texts, Len(texts) \in Nat
    PROVE  \A n \in 1..(Len(texts) + 1) :
             Joined(texts)[n]
               = IF n > Len(texts) THEN <<>> ELSE texts[n] \o Joined(texts)[n + 1]
<1>1. PICK g : JoinsFrom(g, texts, Len(texts))
  BY JoinedExists
<1> DEFINE h == [n \in 1..(Len(texts) + 1) |-> g[n]]
<1>2. \A n \in 1..(Len(texts) + 1) : h[n] = g[n]
  OBVIOUS
<1>3. h = [n \in 1..(Len(texts) + 1) |-> h[n]]
  OBVIOUS
<1> HIDE DEF h
<1>4. ASSUME NEW n \in 1..(Len(texts) + 1)
      PROVE  h[n] = IF n > Len(texts) THEN <<>> ELSE texts[n] \o h[n + 1]
  <2>1. n <= Len(texts) => h[n + 1] = g[n + 1]
    BY <1>2
  <2>2. n \in (Len(texts) + 1 - Len(texts))..(Len(texts) + 1)
    OBVIOUS
  <2> QED
    BY <1>1, <1>2, <2>1, <2>2 DEF JoinsFrom
<1>5. Joins(h, texts)
  BY <1>3, <1>4, Zenon DEF Joins
<1>6. Joined(texts) = CHOOSE f : Joins(f, texts)
  BY Zenon DEF Joined, Joins
<1>7. Joins(Joined(texts), texts)
  BY <1>5, <1>6, Zenon
<1> QED
  BY <1>7, Zenon DEF Joins

\* What is joined is a sequence.
LEMMA JoinedSeq ==
    ASSUME NEW S, NEW texts \in Seq(Seq(S))
    PROVE  \A n \in 1..(Len(texts) + 1) : Joined(texts)[n] \in Seq(S)
<1> DEFINE K == {m \in 0..Len(texts) : Joined(texts)[Len(texts) + 1 - m] \notin Seq(S)}
<1>0. PICK l \in Nat : l = Len(texts)
  OBVIOUS
<1>1. ASSUME K # {} PROVE FALSE
  <2>1. PICK m \in K : \A y \in K : m <= y
    <3>1. K \in SUBSET Nat
      BY <1>0
    <3> QED
      BY <1>1, <3>1, LeastOf
  <2>2. m \in 0..l /\ m \in Nat /\ Joined(texts)[l + 1 - m] \notin Seq(S)
    BY <1>0, <2>1
  <2>3. PICK n \in 1..(l + 1) : n = l + 1 - m
    BY <1>0, <2>2
  <2>4. Joined(texts)[n] = IF n > l THEN <<>> ELSE texts[n] \o Joined(texts)[n + 1]
    BY <1>0, <2>3, JoinedUnfolds
  <2>5. m # 0
    <3>1. <<>> \in Seq(S)
      OBVIOUS
    <3> QED
      BY <1>0, <2>2, <2>3, <2>4, <3>1
  <2>6. m - 1 \in 0..l /\ l + 1 - (m - 1) = n + 1
    BY <2>2, <2>3, <2>5
  <2>7. Joined(texts)[n + 1] \in Seq(S)
    <3>1. m - 1 \notin K
      <4> HIDE DEF K
      <4> QED
        BY <2>1, <2>2
    <3> QED
      BY <1>0, <2>6, <3>1
  <2>8. texts[n] \in Seq(S) /\ n <= l
    BY <1>0, <2>2, <2>3, <2>5
  <2> QED
    BY <1>0, <2>2, <2>3, <2>4, <2>7, <2>8
<1>2. ASSUME NEW n \in 1..(Len(texts) + 1) PROVE Joined(texts)[n] \in Seq(S)
  <2>0. l + 1 - n \in 0..l
    BY <1>0
  <2>1. PICK m \in 0..l : m = l + 1 - n
    BY <2>0
  <2>2. l + 1 - m = n
    BY <1>0, <2>1
  <2>3. m \notin K
    <3> HIDE DEF K
    <3> QED
      BY <1>1
  <2> QED
    BY <1>0, <2>2, <2>3
<1> QED
  BY <1>2

\* Each numeral is in its place.
LEMMA DigitsAre ==
    /\ Digits(0) = "0" /\ Digits(1) = "1" /\ Digits(2) = "2" /\ Digits(3) = "3" /\ Digits(4) = "4"
    /\ Digits(5) = "5" /\ Digits(6) = "6" /\ Digits(7) = "7" /\ Digits(8) = "8" /\ Digits(9) = "9"
BY DEF Digits, Numerals

\* The symbols that are digits.
LEMMA DigitDomain == DOMAIN Digit = Ten
<1>1. Range(Numerals) = Ten
  BY DEF Range, Numerals, Ten
<1> QED
  BY <1>1 DEF Digit

\* A numeral is read as what it is written for.
LEMMA DigitsRead ==
    ASSUME NEW n \in 0..9
    PROVE  Digits(n) \in Ten /\ Digit[Digits(n)] = n /\ Digits(n) \in Symbol
<1>1. n \in {0, 1, 2, 3, 4, 5, 6, 7, 8, 9}
  OBVIOUS
<1>2. Digits(n) \in Ten /\ Digits(n) \in Symbol
  BY <1>1, DigitsAre DEF Ten, Symbol
<1>3. \A m \in 0..9 : Digits(m) = Digits(n) => m = n
  <2>1. ASSUME NEW m \in 0..9, Digits(m) = Digits(n) PROVE m = n
    <3>1. m \in {0, 1, 2, 3, 4, 5, 6, 7, 8, 9}
      OBVIOUS
    <3> QED
      BY <1>1, <2>1, <3>1, DigitsAre
  <2> QED
    BY <2>1
<1>4. Digit[Digits(n)] = CHOOSE m \in 0..9 : Digits(m) = Digits(n)
  BY <1>2, DigitDomain DEF Digit
<1> QED
  BY <1>2, <1>3, <1>4

\* The texts of a field.
LEMMA NameTyped ==
    ASSUME NEW f \in FieldKinds
    PROVE  NameText(f) \in Seq(Symbol) /\ Len(NameText(f)) \in 1..2
<1>1. /\ "Host" \in Symbol /\ "Up" \in Symbol /\ "grade" \in Symbol /\ "Conn" \in Symbol
      /\ "ection" \in Symbol /\ "Expect" \in Symbol /\ "Content-" \in Symbol /\ "Length" \in Symbol
      /\ "Transfer-" \in Symbol /\ "Encoding" \in Symbol /\ "Other" \in Symbol
  BY DEF Symbol
<1>2. CASE f \in {"host", "folded"}
  BY <1>1, <1>2 DEF NameText
<1>3. CASE f \in {"upgrade", "h2"}
  BY <1>1, <1>3 DEF NameText
<1>4. CASE f \in {"close", "keep"}
  BY <1>1, <1>4 DEF NameText
<1>5. CASE f = "expect"
  BY <1>1, <1>5 DEF NameText
<1>6. CASE f = "length"
  BY <1>1, <1>6 DEF NameText
<1>7. CASE f = "chunked"
  BY <1>1, <1>7 DEF NameText
<1>8. CASE f = "blank"
  BY <1>1, <1>8 DEF NameText
<1> QED
  BY <1>2, <1>3, <1>4, <1>5, <1>6, <1>7, <1>8 DEF FieldKinds

\* A length has two digits.
LEMMA TwoDigits ==
    ASSUME NEW n \in Nat, n <= 99
    PROVE  n = 10 * (n \div 10) + (n % 10) /\ n \div 10 \in 0..9 /\ n % 10 \in 0..9
<1>1. n = 10 * (n \div 10) + (n % 10)
  BY SMT
<1>2. n \div 10 \in 0..9
  BY SMT
<1>3. n % 10 \in 0..9
  BY SMT
<1> QED
  BY <1>1, <1>2, <1>3

\* The parts of a request.
LEMMA RequestParts ==
    ASSUME NEW r, IsRequest(r)
    PROVE  /\ r.method \in {"GET", "POST"} /\ r.version \in {"1.0", "1.1"}
           /\ r.eol \in {<<"CR", "LF">>, <<"LF">>} /\ r.lead \in Seq({"CR", "LF"})
           /\ r.url \in Seq({"/", "a", "?"}) /\ Len(r.url) > 0 /\ r.url[1] = "/"
           /\ r.fields \in Seq(FieldKinds) /\ r.body \in Seq(Octet)
           /\ Len(r.body) <= 99 /\ (Has(r, "chunked") => Len(r.body) <= 9)
           /\ (~Has(r, "chunked") /\ r.body # <<>> => Has(r, "length"))
BY DEF IsRequest

\* So has that of a body.
LEMMA BodyLength ==
    ASSUME NEW r, IsRequest(r)
    PROVE  /\ Len(r.body) \in Nat /\ Len(r.body) \div 10 \in 0..9 /\ Len(r.body) % 10 \in 0..9
           /\ Len(r.body) = 10 * (Len(r.body) \div 10) + (Len(r.body) % 10)
<1>0. r.body \in Seq(Octet) /\ Len(r.body) <= 99
  BY RequestParts
<1>1. PICK n \in Nat : n = Len(r.body)
  BY <1>0
<1>2. n = 10 * (n \div 10) + (n % 10) /\ n \div 10 \in 0..9 /\ n % 10 \in 0..9
  BY <1>0, <1>1, TwoDigits
<1> QED
  BY <1>1, <1>2, Zenon

\* A sequence over fewer elements is one over more.
LEMMA SeqWider ==
    ASSUME NEW S, NEW T, S \subseteq T, NEW s \in Seq(S) PROVE s \in Seq(T)
OBVIOUS

\* Symbols, and short texts of them.
LEMMA Symbols ==
    /\ "GET" \in Symbol /\ "POST" \in Symbol /\ " " \in Symbol /\ "/" \in Symbol /\ "a" \in Symbol
    /\ "?" \in Symbol /\ "1.0" \in Symbol /\ "1.1" \in Symbol /\ "CR" \in Symbol
    /\ "LF" \in Symbol /\ ":" \in Symbol /\ "0" \in Symbol /\ "here" \in Symbol
    /\ "there" \in Symbol /\ "websocket" \in Symbol /\ "h" \in Symbol /\ "2" \in Symbol
    /\ "clo" \in Symbol /\ "se" \in Symbol /\ "keep-" \in Symbol /\ "alive" \in Symbol
    /\ "100-continue" \in Symbol /\ "chun" \in Symbol /\ "ked" \in Symbol
BY DEF Symbol, Ten

\* Texts of a few symbols.
LEMMA ShortTexts ==
    ASSUME NEW S, NEW a \in S, NEW b \in S, NEW c \in S
    PROVE  <<>> \in Seq(S) /\ <<a>> \in Seq(S) /\ <<a, b>> \in Seq(S) /\ <<a, b, c>> \in Seq(S)
OBVIOUS

\* The texts that requests are made of.
LEMMA SymbolTexts ==
    /\ <<>> \in Seq(Symbol) /\ <<" ">> \in Seq(Symbol) /\ <<":">> \in Seq(Symbol)
    /\ <<"CR">> \in Seq(Symbol) /\ <<"LF">> \in Seq(Symbol) /\ <<"0">> \in Seq(Symbol)
    /\ <<"here">> \in Seq(Symbol) /\ <<"there">> \in Seq(Symbol)
    /\ <<" ", "there">> \in Seq(Symbol) /\ <<"CR", "LF">> \in Seq(Symbol)
BY Symbols, ShortTexts

\* What each value says.
LEMMA ValueIs ==
    ASSUME NEW r, NEW f \in FieldKinds
    PROVE  /\ f = "host" => ValueSaid(r, f) = <<"here">>
           /\ f = "folded" => ValueSaid(r, f) = <<"here", " ", "there">>
           /\ f = "upgrade" => ValueSaid(r, f) = <<"websocket">>
           /\ f = "h2" => ValueSaid(r, f) = <<"h", "2">>
           /\ f = "close" => ValueSaid(r, f) = <<"clo", "se">>
           /\ f = "keep" => ValueSaid(r, f) = <<"keep-", "alive">>
           /\ f = "expect" => ValueSaid(r, f) = <<"100-continue">>
           /\ f = "length" =>
                ValueSaid(r, f) = <<Digits(Len(r.body) \div 10), Digits(Len(r.body) % 10)>>
           /\ f = "chunked" => ValueSaid(r, f) = <<"chun", "ked">>
           /\ f = "blank" => ValueSaid(r, f) = <<>>
BY Zenon DEF ValueSaid

\* Values are texts, and only the blank one is empty.
LEMMA ValueTyped ==
    ASSUME NEW r, IsRequest(r), NEW f \in FieldKinds
    PROVE  /\ ValueSaid(r, f) \in Seq(Symbol) /\ Len(ValueSaid(r, f)) \in 0..3
           /\ IF f = "blank" THEN ValueSaid(r, f) = <<>> ELSE Len(ValueSaid(r, f)) > 0
<1>1. PICK a \in Symbol : a = Digits(Len(r.body) \div 10)
  BY BodyLength, DigitsRead
<1>2. PICK b \in Symbol : b = Digits(Len(r.body) % 10)
  BY BodyLength, DigitsRead
<1>3. f = "length" => ValueSaid(r, f) = <<a, b>>
  BY <1>1, <1>2, ValueIs
<1>4. \A x, y, z \in Symbol :
        /\ <<x>> \in Seq(Symbol) /\ Len(<<x>>) = 1
        /\ <<x, y>> \in Seq(Symbol) /\ Len(<<x, y>>) = 2
        /\ <<x, y, z>> \in Seq(Symbol) /\ Len(<<x, y, z>>) = 3
  OBVIOUS
<1>5. CASE f \in {"host", "upgrade", "expect"}
  <2>1. PICK x \in Symbol : ValueSaid(r, f) = <<x>>
    BY <1>5, ValueIs, Symbols
  <2> QED
    BY <1>4, <1>5, <2>1
<1>6. CASE f \in {"h2", "close", "keep", "length", "chunked"}
  <2>1. \E x, y \in Symbol : ValueSaid(r, f) = <<x, y>>
    BY <1>3, <1>6, ValueIs, Symbols
  <2>2. PICK x \in Symbol, y \in Symbol : ValueSaid(r, f) = <<x, y>>
    BY <2>1
  <2> QED
    BY <1>4, <1>6, <2>2
<1>7. CASE f = "folded"
  <2>1. PICK x \in Symbol : x = "here"
    BY Symbols
  <2>2. PICK y \in Symbol : y = " "
    BY Symbols
  <2>3. PICK z \in Symbol : z = "there"
    BY Symbols
  <2>4. ValueSaid(r, f) = <<x, y, z>>
    BY <1>7, <2>1, <2>2, <2>3, ValueIs
  <2>5. <<x, y, z>> \in Seq(Symbol) /\ Len(<<x, y, z>>) = 3
    OBVIOUS
  <2>6. 3 \in 0..3 /\ 3 > 0 /\ f # "blank"
    BY <1>7
  <2> QED
    BY <2>4, <2>5, <2>6, Zenon
<1>8. CASE f = "blank"
  <2>1. ValueSaid(r, f) = <<>>
    BY <1>8, ValueIs
  <2>2. <<>> \in Seq(Symbol) /\ Len(<<>>) = 0
    BY SymbolTexts
  <2>3. 0 \in 0..3
    OBVIOUS
  <2> QED
    BY <1>8, <2>1, <2>2, <2>3, Zenon
<1> QED
  BY <1>5, <1>6, <1>7, <1>8 DEF FieldKinds

\* A line's end is a text.
LEMMA EolTyped == ASSUME NEW r, IsRequest(r) PROVE r.eol \in Seq(Symbol)
<1>1. "CR" \in Symbol /\ "LF" \in Symbol
  BY DEF Symbol
<1>2. CASE r.eol = <<"CR", "LF">>
  BY <1>1, <1>2
<1>3. CASE r.eol = <<"LF">>
  BY <1>1, <1>3
<1> QED
  BY <1>2, <1>3, RequestParts

\* What ends a line.
LEMMA EolComes ==
    ASSUME NEW r, IsRequest(r), NEW x \in Seq(Symbol)
    PROVE  /\ r.eol \o x \in Seq(Symbol)
           /\ r.eol \o x = <<"CR">> \o (<<"LF">> \o x) \/ r.eol \o x = <<"LF">> \o x
<1>1. <<"CR">> \in Seq(Symbol) /\ <<"LF">> \in Seq(Symbol)
  BY SymbolTexts
<1>2. CASE r.eol = <<"CR", "LF">>
  <2>1. r.eol = <<"CR">> \o <<"LF">>
    BY <1>2
  <2> QED
    BY <1>1, <2>1, EolTyped, Associative
<1>3. CASE r.eol = <<"LF">>
  BY <1>1, <1>3
<1> QED
  BY <1>2, <1>3, RequestParts

\* What is sent of a value.
LEMMA ValueTextIs ==
    ASSUME NEW r, IsRequest(r), NEW f \in FieldKinds
    PROVE  /\ ValueText(r, f) \in Seq(Symbol)
           /\ f # "folded" => ValueText(r, f) = ValueSaid(r, f)
           /\ f = "folded" => ValueText(r, f) = <<"here">> \o (r.eol \o <<" ", "there">>)
<1>1. CASE f # "folded"
  BY <1>1, ValueTyped DEF ValueText
<1>2. CASE f = "folded"
  <2>1. PICK a \in Seq(Symbol), b \in Seq(Symbol), c \in Seq(Symbol) :
          a = <<"here">> /\ b = r.eol /\ c = <<" ", "there">>
    BY SymbolTexts, EolTyped
  <2>2. (a \o b) \o c = a \o (b \o c) /\ a \o (b \o c) \in Seq(Symbol)
    BY Associative
  <2>3. ValueText(r, f) = (<<"here">> \o r.eol) \o <<" ", "there">>
    BY <1>2 DEF ValueText
  <2> QED
    BY <1>2, <2>1, <2>2, <2>3, Zenon
<1> QED
  BY <1>1, <1>2

\* A line is a text.
LEMMA FieldTyped ==
    ASSUME NEW r, IsRequest(r), NEW f \in FieldKinds PROVE FieldText(r, f) \in Seq(Symbol)
<1>1. <<":">> \in Seq(Symbol) /\ <<" ">> \in Seq(Symbol) /\ <<>> \in Seq(Symbol)
  BY SymbolTexts
<1>2. PICK a \in Seq(Symbol) : a = NameText(f)
  BY NameTyped
<1>3. PICK b \in Seq(Symbol) : b = IF f = "blank" THEN <<>> ELSE <<" ">>
  BY <1>1
<1>4. PICK c \in Seq(Symbol) : c = ValueText(r, f)
  BY ValueTextIs
<1>5. PICK d \in Seq(Symbol) : d = <<":">>
  BY <1>1
<1>6. FieldText(r, f) = a \o d \o b \o c
  BY <1>2, <1>3, <1>4, <1>5 DEF FieldText
<1>7. a \o d \o b \o c \in Seq(Symbol)
  OBVIOUS
<1> QED
  BY <1>6, <1>7

\* So are all of them.
LEMMA LinesTyped ==
    ASSUME NEW r, IsRequest(r)
    PROVE  /\ Lines(r) \in Seq(Seq(Symbol)) /\ Len(Lines(r)) = Len(r.fields)
           /\ \A j \in 1..Len(r.fields) : r.fields[j] \in FieldKinds
                /\ Lines(r)[j] = FieldText(r, r.fields[j]) \o r.eol
<1>1. r.fields \in Seq(FieldKinds)
  BY RequestParts
<1>2. ASSUME NEW j \in 1..Len(r.fields)
      PROVE  r.fields[j] \in FieldKinds /\ FieldText(r, r.fields[j]) \o r.eol \in Seq(Symbol)
  <2>1. r.fields[j] \in FieldKinds
    BY <1>1
  <2>2. FieldText(r, r.fields[j]) \in Seq(Symbol) /\ r.eol \in Seq(Symbol)
    BY <2>1, FieldTyped, EolTyped
  <2> QED
    BY <2>1, <2>2
<1>3. Len(r.fields) \in Nat
  BY <1>1
<1>4. Lines(r) \in Seq(Seq(Symbol)) /\ Len(Lines(r)) = Len(r.fields)
  BY <1>2, <1>3 DEF Lines
<1>5. \A j \in 1..Len(r.fields) : Lines(r)[j] = FieldText(r, r.fields[j]) \o r.eol
  BY DEF Lines
<1> QED
  BY <1>2, <1>4, <1>5

\* So is a body.
LEMMA BodySymbols ==
    ASSUME NEW r, IsRequest(r)
    PROVE  r.body \in Seq(Octet) /\ r.body \in Seq(Symbol)
<1>1. r.body \in Seq(Octet)
  BY RequestParts
<1>2. Octet \subseteq Symbol
  BY DEF Symbol
<1> QED
  BY <1>1, <1>2, SeqWider

\* One text behind another is a text.
LEMMA Behind ==
    ASSUME NEW S, NEW x \in Seq(S), NEW y \in Seq(S) PROVE x \o y \in Seq(S)
OBVIOUS

\* Joining three texts.
Regroups(x, y, z) == (x \o y) \o z = x \o (y \o z)

\* It does not matter which two are joined first.
LEMMA Regrouping ==
    ASSUME NEW S, NEW x \in Seq(S), NEW y \in Seq(S), NEW z \in Seq(S) PROVE Regroups(x, y, z)
BY DEF Regroups

\* However a text's parts are joined it is the same text.
AllRegroup(a, b, c, d, e, f, g) ==
    /\ ((((a \o b) \o c) \o d) \o e) \o f = a \o (b \o (c \o (d \o (e \o f))))
    /\ (((((a \o b) \o c) \o d) \o e) \o f) \o g = a \o (b \o (c \o (d \o (e \o (f \o g)))))
    /\ (a \o (b \o (c \o (d \o e)))) \o f = a \o (b \o (c \o (d \o (e \o f))))

\* Nor of up to seven texts.
LEMMA Regrouped ==
    ASSUME NEW S, NEW a \in Seq(S), NEW b \in Seq(S), NEW c \in Seq(S), NEW d \in Seq(S),
           NEW e \in Seq(S), NEW f \in Seq(S), NEW g \in Seq(S)
    PROVE  AllRegroup(a, b, c, d, e, f, g)
<1>1. PICK p \in Seq(S) : p = a \o b
  BY Behind
<1>2. PICK q \in Seq(S) : q = p \o c
  BY Behind
<1>3. PICK t \in Seq(S) : t = q \o d
  BY Behind
<1>4. PICK u \in Seq(S) : u = t \o e
  BY Behind
<1>5. \A x \in Seq(S) : u \o x = a \o (b \o (c \o (d \o (e \o x))))
  <2> TAKE x \in Seq(S)
  <2>1. PICK v \in Seq(S) : v = e \o x
    BY Behind
  <2>2. PICK w \in Seq(S) : w = d \o v
    BY Behind
  <2>3. PICK y \in Seq(S) : y = c \o w
    BY Behind
  <2>4. Regroups(t, e, x)
    BY Regrouping, Zenon
  <2>5. Regroups(q, d, v)
    BY Regrouping, Zenon
  <2>6. Regroups(p, c, w)
    BY Regrouping, Zenon
  <2>7. Regroups(a, b, y)
    BY Regrouping, Zenon
  <2> QED
    BY <1>1, <1>2, <1>3, <1>4, <2>1, <2>2, <2>3, <2>4, <2>5, <2>6, <2>7, Zenon DEF Regroups
<1>6. PICK h \in Seq(S) : h = f \o g
  BY Behind
<1>7. Regroups(u, f, g)
  BY Regrouping, Zenon
<1>8. (((((a \o b) \o c) \o d) \o e) \o f) \o g = a \o (b \o (c \o (d \o (e \o (f \o g)))))
  BY <1>1, <1>2, <1>3, <1>4, <1>5, <1>6, <1>7, Zenon DEF Regroups
<1>9. ((((a \o b) \o c) \o d) \o e) \o f = a \o (b \o (c \o (d \o (e \o f))))
  BY <1>1, <1>2, <1>3, <1>4, <1>5, Zenon
<1>10. (a \o (b \o (c \o (d \o e)))) \o f = a \o (b \o (c \o (d \o (e \o f))))
  <2>1. PICK i \in Seq(S) : i = d \o e
    BY Behind
  <2>2. PICK j \in Seq(S) : j = c \o i
    BY Behind
  <2>3. PICK k \in Seq(S) : k = b \o j
    BY Behind
  <2>4. Regroups(a, k, f)
    BY Regrouping, Zenon
  <2>5. Regroups(b, j, f)
    BY Regrouping, Zenon
  <2>6. Regroups(c, i, f)
    BY Regrouping, Zenon
  <2>7. Regroups(d, e, f)
    BY Regrouping, Zenon
  <2> QED
    BY <2>1, <2>2, <2>3, <2>4, <2>5, <2>6, <2>7, Zenon DEF Regroups
<1> QED
  BY <1>8, <1>9, <1>10, Zenon DEF AllRegroup

\* The body as it is sent.
LEMMA BodyIs ==
    ASSUME NEW r, IsRequest(r), NEW l \in Seq(Symbol)
    PROVE  /\ BodyText(r) \in Seq(Symbol) /\ LastChunk(l) \in Seq(Symbol)
           /\ BodyText(r) \o l \in Seq(Symbol)
           /\ ~Has(r, "chunked") => BodyText(r) \o l = r.body \o l
           /\ Has(r, "chunked") =>
                IF r.body = <<>> THEN BodyText(r) \o l = LastChunk(l)
                ELSE BodyText(r) \o l =
                       <<Digits(Len(r.body))>> \o EmptyLine(r.body \o EmptyLine(LastChunk(l)))
<1>1. PICK b \in Seq(Symbol) : b = r.body
  BY BodySymbols
<1>2. PICK cr \in Seq(Symbol) : cr = <<"CR">>
  BY SymbolTexts
<1>3. PICK lf \in Seq(Symbol) : lf = <<"LF">>
  BY SymbolTexts
<1>4. PICK z \in Seq(Symbol) : z = <<"0">>
  BY SymbolTexts
<1>5. <<"CR", "LF">> = cr \o lf
  BY <1>2, <1>3
<1>6. <<"0", "CR", "LF", "CR", "LF">> = z \o (cr \o (lf \o (cr \o lf)))
  BY <1>2, <1>3, <1>4
<1>7. LastChunk(l) = z \o (cr \o (lf \o (cr \o (lf \o l))))
  BY <1>2, <1>3, <1>4, Zenon DEF LastChunk, EmptyLine
<1>8. (z \o (cr \o (lf \o (cr \o lf)))) \o l = z \o (cr \o (lf \o (cr \o (lf \o l))))
  <2>1. AllRegroup(z, cr, lf, cr, lf, l, l)
    BY Regrouped, Zenon
  <2> QED
    BY <2>1, Zenon DEF AllRegroup
<1>9. PICK e \in Seq(Symbol) : e = z \o (cr \o (lf \o (cr \o lf)))
  BY Behind
<1>10. LastChunk(l) \in Seq(Symbol) /\ LastChunk(l) = e \o l
  <2>1. e \o l \in Seq(Symbol)
    BY Behind
  <2> QED
    BY <1>7, <1>8, <1>9, <2>1, Zenon
<1>11. CASE ~Has(r, "chunked")
  <2>1. BodyText(r) = b
    BY <1>1, <1>11 DEF BodyText
  <2> QED
    BY <1>1, <1>10, <1>11, <2>1, Behind, Zenon
<1>12. CASE Has(r, "chunked") /\ r.body = <<>>
  <2>1. BodyText(r) = <<>> \o e
    BY <1>6, <1>9, <1>12, Zenon DEF BodyText
  <2>2. BodyText(r) = e
    BY <2>1
  <2> QED
    BY <1>10, <1>12, <2>2, Behind, Zenon
<1>13. CASE Has(r, "chunked") /\ r.body # <<>>
  <2>1. Len(r.body) \in 0..9
    <3>1. PICK m \in Nat : m = Len(r.body)
      BY BodyLength
    <3>2. m <= 9
      BY <1>13, <3>1, RequestParts
    <3>3. m \in 0..9
      BY <3>2
    <3> QED
      BY <3>1, <3>3, Zenon
  <2>2. <<Digits(Len(r.body))>> \in Seq(Symbol)
    BY <2>1, DigitsRead, ShortTexts
  <2>3. PICK d \in Seq(Symbol) : d = <<Digits(Len(r.body))>>
    BY <2>2
  <2>4. <<Digits(Len(r.body)), "CR", "LF">> = d \o (cr \o lf)
    BY <1>2, <1>3, <2>3
  <2>5. BodyText(r) = (((d \o (cr \o lf)) \o b) \o (cr \o lf)) \o e
    BY <1>1, <1>5, <1>6, <1>9, <1>13, <2>4, Zenon DEF BodyText, Chunk
  <2>6. BodyText(r) \in Seq(Symbol)
    BY <2>5, Behind
  <2>7. PICK n \in Seq(Symbol) : n = cr \o lf
    BY Behind
  <2>8. BodyText(r) \o l = d \o (n \o (b \o (n \o (e \o l))))
    <3>1. AllRegroup(d, n, b, n, e, l, l)
      BY Regrouped, Zenon
    <3> QED
      BY <2>5, <2>7, <3>1, Zenon DEF AllRegroup
  <2>9. \A x \in Seq(Symbol) : n \o x = cr \o (lf \o x)
    <3> TAKE x \in Seq(Symbol)
    <3>1. Regroups(cr, lf, x)
      BY Regrouping, Zenon
    <3> QED
      BY <2>7, <3>1, Zenon DEF Regroups
  <2>10. BodyText(r) \o l = d \o (cr \o (lf \o (b \o (cr \o (lf \o (e \o l))))))
    <3>1. b \o (n \o (e \o l)) \in Seq(Symbol) /\ e \o l \in Seq(Symbol)
      BY Behind
    <3> QED
      BY <2>8, <2>9, <3>1, Zenon
  <2>11. BodyText(r) \o l \in Seq(Symbol)
    BY <2>6, Behind
  <2> QED
    BY <1>1, <1>2, <1>3, <1>10, <1>13, <2>3, <2>6, <2>10, <2>11, Zenon DEF EmptyLine
<1> QED
  BY <1>11, <1>12, <1>13, Zenon

\* What is to come from each line on.
LEMMA LineTail ==
    ASSUME NEW r, IsRequest(r), NEW l \in Seq(Symbol)
    PROVE  \A j \in 1..(Len(r.fields) + 1) : FromLine(r, j, l) \in Seq(Symbol)
<1>1. r.eol \o (BodyText(r) \o l) \in Seq(Symbol)
  BY BodyIs, EolTyped, Behind
<1>2. \A j \in 1..(Len(r.fields) + 1) : Joined(Lines(r))[j] \in Seq(Symbol)
  BY LinesTyped, JoinedSeq
<1> QED
  BY <1>1, <1>2, Behind DEF FromLine

\* Behind the last line is the empty one.
LEMMA AfterLines ==
    ASSUME NEW r, IsRequest(r), NEW l \in Seq(Symbol)
    PROVE  FromLine(r, Len(r.fields) + 1, l) = r.eol \o (BodyText(r) \o l)
<1>0. r.fields \in Seq(FieldKinds)
  BY RequestParts
<1>1. PICK n \in Nat : n = Len(Lines(r)) /\ n = Len(r.fields)
  <2>1. Len(r.fields) \in Nat
    BY <1>0
  <2> QED
    BY <2>1, LinesTyped, Zenon
<1>2. Joined(Lines(r))[n + 1] = <<>>
  <2>1. n + 1 \in 1..(Len(Lines(r)) + 1) /\ n + 1 > Len(Lines(r))
    BY <1>1
  <2> QED
    BY <1>1, <2>1, JoinedUnfolds
<1>3. r.eol \o (BodyText(r) \o l) \in Seq(Symbol)
  BY BodyIs, EolTyped, Behind
<1>4. <<>> \o (r.eol \o (BodyText(r) \o l)) = r.eol \o (BodyText(r) \o l)
  BY <1>3
<1> QED
  BY <1>1, <1>2, <1>4, Zenon DEF FromLine

\* A line begins with its field's name.
LEMMA LineBegins ==
    ASSUME NEW r, IsRequest(r), NEW l \in Seq(Symbol), NEW j \in 1..Len(r.fields)
    PROVE  FromLine(r, j, l) = FromName(r, j, 0, l)
<1>1. PICK f \in FieldKinds : f = r.fields[j]
  BY LinesTyped
<1>2. PICK a \in Seq(Symbol) : a = NameText(f)
  BY NameTyped
<1>3. PICK c \in Seq(Symbol) : c = <<":">>
  BY SymbolTexts
<1>4. PICK s \in Seq(Symbol) : s = IF f = "blank" THEN <<>> ELSE <<" ">>
  BY SymbolTexts
<1>5. PICK v \in Seq(Symbol) : v = ValueText(r, f)
  BY ValueTextIs
<1>6. PICK e \in Seq(Symbol) : e = r.eol
  BY EolTyped
<1>7. r.fields \in Seq(FieldKinds)
  BY RequestParts
<1>8. PICK x \in Seq(Symbol) : x = Joined(Lines(r))[j + 1]
  <2>1. j + 1 \in 1..(Len(r.fields) + 1)
    BY <1>7
  <2> QED
    BY <2>1, LinesTyped, JoinedSeq
<1>9. PICK y \in Seq(Symbol) : y = r.eol \o (BodyText(r) \o l)
  BY BodyIs, EolTyped, Behind
<1>10. Joined(Lines(r))[j] = ((((a \o c) \o s) \o v) \o e) \o x
  <2>1. Joined(Lines(r))[j] = Lines(r)[j] \o Joined(Lines(r))[j + 1]
    <3>1. Len(Lines(r)) \in Nat /\ Len(Lines(r)) = Len(r.fields)
      <4>1. Len(r.fields) \in Nat
        BY <1>7
      <4> QED
        BY <4>1, LinesTyped, Zenon
    <3>2. j \in 1..(Len(Lines(r)) + 1) /\ ~(j > Len(Lines(r)))
      BY <1>7, <3>1
    <3> QED
      BY <3>1, <3>2, JoinedUnfolds
  <2>2. Lines(r)[j] = FieldText(r, f) \o e
    BY <1>1, <1>6, LinesTyped
  <2> QED
    BY <1>2, <1>3, <1>4, <1>5, <1>8, <2>1, <2>2, Zenon DEF FieldText
<1>11. FromLine(r, j, l) = (((((a \o c) \o s) \o v) \o e) \o x) \o y
  BY <1>9, <1>10, Zenon DEF FromLine
<1>12. FromLine(r, j, l) = a \o (c \o (s \o (v \o (e \o (x \o y)))))
  <2>1. AllRegroup(a, c, s, v, e, x, y)
    BY Regrouped, Zenon
  <2> QED
    BY <1>11, <2>1, Zenon DEF AllRegroup
<1>13. FromLine(r, j + 1, l) = x \o y
  BY <1>8, <1>9, Zenon DEF FromLine
<1>14. Drop(NameText(f), 0) = a
  BY <1>2, DropNone
<1> QED
  BY <1>1, <1>3, <1>4, <1>5, <1>6, <1>12, <1>13, <1>14, Zenon DEF FromName

\* Text t is symbol a and then text x.
Begins(t, a, x) == t = <<a>> \o x /\ x \in Seq(Symbol)

\* The next symbol, when one begins what is to come.
LEMMA NextCome ==
    ASSUME stream \in Seq(Symbol), at \in Nat, NEW a, NEW x, Begins(Coming, a, x)
    PROVE  at < Len(stream) /\ ch = a /\ (stream' = stream /\ at' = at + 1 => Coming' = x)
BY ComesNext DEF Begins

\* What is left of a text begins with its next symbol.
LEMMA BeginsMore ==
    ASSUME NEW S, S \subseteq Symbol, NEW t \in Seq(S), NEW x \in Seq(Symbol), NEW k \in Nat,
           k < Len(t)
    PROVE  Begins(Drop(t, k) \o x, t[k + 1], Drop(t, k + 1) \o x)
<1>1. t \in Seq(Symbol)
  BY SeqWider
<1>2. Drop(t, k) \o x = <<t[k + 1]>> \o (Drop(t, k + 1) \o x)
  BY <1>1, DropNext
<1>3. Drop(t, k + 1) \in Seq(Symbol)
  BY <1>1, DropSeq
<1>4. Drop(t, k + 1) \o x \in Seq(Symbol)
  BY <1>3, Behind
<1> QED
  BY <1>2, <1>4, Zenon DEF Begins

\* Behind the first line.
LEMMA VersionComes ==
    ASSUME NEW r, IsRequest(r), NEW l \in Seq(Symbol)
    PROVE  /\ FromVersion(r, l) \in Seq(Symbol)
           /\ Begins(FromVersion(r, l), r.version, r.eol \o FromLine(r, 1, l))
<1>0. r.fields \in Seq(FieldKinds)
  BY RequestParts
<1>1. 1 \in 1..(Len(r.fields) + 1)
  BY <1>0
<1>2. PICK x \in Seq(Symbol) : x = r.eol \o FromLine(r, 1, l)
  BY <1>1, LineTail, EolTyped, Behind
<1>3. PICK v \in Seq(Symbol) : v = <<r.version>>
  <2>1. r.version \in Symbol
    BY RequestParts, Symbols
  <2> QED
    BY <2>1, ShortTexts
<1>4. v \o x \in Seq(Symbol)
  BY Behind
<1> QED
  BY <1>2, <1>3, <1>4, Zenon DEF FromVersion, Begins

\* The URL, symbol by symbol.
LEMMA UrlComes ==
    ASSUME NEW r, IsRequest(r), NEW l \in Seq(Symbol)
    PROVE  /\ \A k \in 0..Len(r.url) : FromUrl(r, k, l) \in Seq(Symbol)
           /\ \A k \in 0..(Len(r.url) - 1) :
                Begins(FromUrl(r, k, l), r.url[k + 1], FromUrl(r, k + 1, l))
           /\ Begins(FromUrl(r, Len(r.url), l), " ", FromVersion(r, l))
           /\ Begins(<<" ">> \o FromUrl(r, 0, l), " ", FromUrl(r, 0, l))
<1>1. r.url \in Seq({"/", "a", "?"}) /\ r.url \in Seq(Symbol)
  <2>1. {"/", "a", "?"} \subseteq Symbol
    BY Symbols
  <2>2. r.url \in Seq({"/", "a", "?"})
    BY RequestParts
  <2> QED
    BY <2>1, <2>2, SeqWider
<1>2. PICK v \in Seq(Symbol) : v = FromVersion(r, l)
  BY VersionComes
<1>3. PICK x \in Seq(Symbol) : x = <<" ">> \o v
  BY SymbolTexts, Behind
<1>4. \A k \in Nat : FromUrl(r, k, l) = Drop(r.url, k) \o x
  BY <1>2, <1>3, Zenon DEF FromUrl
<1>5. \A k \in 0..Len(r.url) : FromUrl(r, k, l) \in Seq(Symbol)
  <2> TAKE k \in 0..Len(r.url)
  <2>1. k \in Nat
    BY <1>1
  <2>2. Drop(r.url, k) \in Seq(Symbol)
    BY <1>1, <2>1, DropSeq
  <2>3. Drop(r.url, k) \o x \in Seq(Symbol)
    BY <2>2, Behind
  <2> QED
    BY <1>4, <2>1, <2>3, Zenon
<1>6. ASSUME NEW k \in 0..(Len(r.url) - 1)
      PROVE  Begins(FromUrl(r, k, l), r.url[k + 1], FromUrl(r, k + 1, l))
  <2>1. k \in Nat /\ k + 1 \in Nat /\ k < Len(r.url)
    BY <1>1
  <2>2. Begins(Drop(r.url, k) \o x, r.url[k + 1], Drop(r.url, k + 1) \o x)
    BY <1>1, <2>1, BeginsMore
  <2> QED
    BY <1>4, <2>1, <2>2, Zenon
<1>7. Begins(FromUrl(r, Len(r.url), l), " ", FromVersion(r, l))
  <2>1. Len(r.url) \in Nat
    BY <1>1
  <2>2. Drop(r.url, Len(r.url)) \o x = x
    BY <1>1, DropAll
  <2> QED
    BY <1>2, <1>3, <1>4, <2>1, <2>2, Zenon DEF Begins
<1>8. FromUrl(r, 0, l) \in Seq(Symbol)
  <2>1. 0 \in 0..Len(r.url)
    BY <1>1
  <2> QED
    BY <1>5, <2>1
<1> QED
  BY <1>5, <1>6, <1>7, <1>8, Zenon DEF Begins

\* The method.
LEMMA MethodComes ==
    ASSUME NEW r, IsRequest(r), NEW l \in Seq(Symbol)
    PROVE  /\ Begins(FromMethod(r, l), r.method, <<" ">> \o FromUrl(r, 0, l))
           /\ FromMethod(r, l) \in Seq(Symbol)
<1>1. PICK x \in Seq(Symbol) : x = <<" ">> \o FromUrl(r, 0, l)
  <2>1. 0 \in 0..Len(r.url)
    <3>1. r.url \in Seq({"/", "a", "?"})
      BY RequestParts
    <3> QED
      BY <3>1
  <2>2. FromUrl(r, 0, l) \in Seq(Symbol)
    BY <2>1, UrlComes
  <2> QED
    BY <2>2, SymbolTexts, Behind
<1>2. PICK m \in Seq(Symbol) : m = <<r.method>>
  <2>1. r.method \in Symbol
    BY RequestParts, Symbols
  <2> QED
    BY <2>1, ShortTexts
<1>3. m \o x \in Seq(Symbol)
  BY Behind
<1> QED
  BY <1>1, <1>2, <1>3, Zenon DEF FromMethod, Begins

\* The end of a line.
LEMMA EolBegins ==
    ASSUME NEW r, IsRequest(r), NEW x \in Seq(Symbol)
    PROVE  /\ r.eol \o x \in Seq(Symbol) /\ Begins(<<"LF">> \o x, "LF", x)
           /\ \/ Begins(r.eol \o x, "CR", <<"LF">> \o x)
              \/ Begins(r.eol \o x, "LF", x)
<1>1. <<"LF">> \o x \in Seq(Symbol)
  BY SymbolTexts, Behind
<1> QED
  BY <1>1, EolComes, Zenon DEF Begins

\* A field.
LEMMA NameComes ==
    ASSUME NEW r, IsRequest(r), NEW l \in Seq(Symbol), NEW j \in 1..Len(r.fields), NEW f,
           f = r.fields[j]
    PROVE  /\ \A k \in 0..(Len(NameText(f)) - 1) :
                Begins(FromName(r, j, k, l), NameText(f)[k + 1], FromName(r, j, k + 1, l))
           /\ Begins(FromName(r, j, Len(NameText(f)), l), ":",
                     FromSpace(r, j, IF f = "blank" THEN 1 ELSE 0, l))
           /\ \A k \in {0, 1} : FromSpace(r, j, k, l) \in Seq(Symbol)
           /\ Begins(FromSpace(r, j, 0, l), " ", FromSpace(r, j, 1, l))
<1>0. f \in FieldKinds
  BY LinesTyped
<1>1. PICK t \in Seq(Symbol) : t = NameText(f)
  BY <1>0, NameTyped
<1>2. PICK y \in Seq(Symbol) : y = FromLine(r, j + 1, l)
  <2>1. j + 1 \in 1..(Len(r.fields) + 1)
    <3>1. r.fields \in Seq(FieldKinds)
      BY RequestParts
    <3> QED
      BY <3>1
  <2> QED
    BY <2>1, LineTail
<1>3. PICK v \in Seq(Symbol) : v = ValueText(r, f) \o (r.eol \o y)
  BY <1>0, ValueTextIs, EolTyped, Behind
<1>4. PICK s \in Seq(Symbol) : s = (IF f = "blank" THEN <<>> ELSE <<" ">>) \o v
  <2>1. (IF f = "blank" THEN <<>> ELSE <<" ">>) \in Seq(Symbol)
    BY SymbolTexts
  <2> QED
    BY <2>1, Behind
<1>5. PICK x \in Seq(Symbol) : x = <<":">> \o s
  BY SymbolTexts, Behind
<1>6. \A k \in Nat : FromName(r, j, k, l) = Drop(t, k) \o x
  BY <1>1, <1>2, <1>3, <1>4, <1>5, Zenon DEF FromName
<1>7. ASSUME NEW k \in 0..(Len(NameText(f)) - 1)
      PROVE  Begins(FromName(r, j, k, l), NameText(f)[k + 1], FromName(r, j, k + 1, l))
  <2>1. k \in Nat /\ k + 1 \in Nat /\ k < Len(t)
    BY <1>1
  <2>2. Begins(Drop(t, k) \o x, t[k + 1], Drop(t, k + 1) \o x)
    BY <2>1, BeginsMore
  <2> QED
    BY <1>1, <1>6, <2>1, <2>2, Zenon
<1>8. <<>> \o v = v
  OBVIOUS
<1>9. FromSpace(r, j, 0, l) = <<" ">> \o v /\ FromSpace(r, j, 1, l) = v
  BY <1>2, <1>3, <1>8 DEF FromSpace
<1>10. s = FromSpace(r, j, IF f = "blank" THEN 1 ELSE 0, l)
  BY <1>4, <1>8, <1>9
<1>11. Begins(FromName(r, j, Len(NameText(f)), l), ":",
              FromSpace(r, j, IF f = "blank" THEN 1 ELSE 0, l))
  <2>1. Len(t) \in Nat
    OBVIOUS
  <2>2. Drop(t, Len(t)) \o x = x
    BY DropAll
  <2> QED
    BY <1>1, <1>5, <1>6, <1>10, <2>1, <2>2, Zenon DEF Begins
<1>12. <<" ">> \o v \in Seq(Symbol)
  BY SymbolTexts, Behind
<1>13. \A k \in {0, 1} : FromSpace(r, j, k, l) \in Seq(Symbol)
  BY <1>9, <1>12
<1>14. Begins(FromSpace(r, j, 0, l), " ", FromSpace(r, j, 1, l))
  BY <1>9, <1>12, Zenon DEF Begins
<1> QED
  BY <1>7, <1>11, <1>13, <1>14

\* Short texts are what their symbols are.
LEMMA ShortText ==
    ASSUME NEW S, NEW t \in Seq(S)
    PROVE  (Len(t) = 1 => t = <<t[1]>>) /\ (Len(t) = 2 => t = <<t[1], t[2]>>)
OBVIOUS

\* The symbols of two texts joined.
LEMMA BehindIs ==
    ASSUME NEW S, NEW s \in Seq(S), NEW t \in Seq(S)
    PROVE  /\ Len(s \o t) = Len(s) + Len(t)
           /\ \A n \in 1..Len(s) : (s \o t)[n] = s[n]
           /\ \A n \in 1..Len(t) : (s \o t)[Len(s) + n] = t[n]
OBVIOUS

\* The parts of a value that is folded.
LEMMA FoldedText ==
    /\ <<" ", "there">> = <<" ">> \o <<"there">>
    /\ Drop(<<"here", " ", "there">>, 2) = <<"there">>
    /\ <<"here", " ", "there">>[1] = "here" /\ <<"here", " ", "there">>[3] = "there"
<1>1. <<" ", "there">> = <<" ">> \o <<"there">>
  <2>1. PICK s \in Seq(Symbol) : s = <<" ">>
    BY SymbolTexts
  <2>2. PICK t \in Seq(Symbol) : t = <<"there">>
    BY SymbolTexts
  <2>3. s \o t \in Seq(Symbol) /\ Len(s) = 1 /\ Len(t) = 1 /\ s[1] = " " /\ t[1] = "there"
    BY <2>1, <2>2, Behind
  <2>4. PICK u \in Seq(Symbol) : u = s \o t
    BY <2>3
  <2>5. Len(u) = Len(s) + Len(t) /\ (\A n \in 1..Len(s) : u[n] = s[n])
        /\ (\A n \in 1..Len(t) : u[Len(s) + n] = t[n])
    BY <2>4, BehindIs
  <2>6. Len(u) = 2 /\ u[1] = " " /\ u[2] = "there"
    <3>1. PICK m \in Nat, n \in Nat : m = Len(s) /\ n = Len(t) /\ m = 1 /\ n = 1
      BY <2>3
    <3>2. Len(u) = m + n
      BY <2>5, <3>1, Zenon
    <3>3. 1 \in 1..m /\ 1 \in 1..n /\ m + 1 = 2 /\ m + n = 2
      BY <3>1
    <3>4. u[1] = s[1] /\ u[m + 1] = t[1]
      BY <2>5, <3>1, <3>3, Zenon
    <3> QED
      BY <2>3, <3>2, <3>3, <3>4, Zenon
  <2>7. u = <<u[1], u[2]>>
    BY <2>6, ShortText
  <2> QED
    BY <2>1, <2>2, <2>4, <2>6, <2>7, Zenon
<1>2. SubSeq(<<"here", " ", "there">>, 3, 3) = <<"there">>
  <2>1. "here" \in Symbol /\ " " \in Symbol /\ "there" \in Symbol
    BY Symbols
  <2>2. <<"here", " ", "there">> \in Seq(Symbol)
    BY <2>1, ShortTexts
  <2>3. PICK t \in Seq(Symbol) : t = <<"here", " ", "there">>
    BY <2>2
  <2>4. Len(t) = 3 /\ t[3] = "there"
    BY <2>3
  <2>5. SubSeq(t, 3, 3) = <<t[3]>>
    <3>1. SubSeq(t, 3, 3) \in Seq(Symbol) /\ Len(SubSeq(t, 3, 3)) = 1
          /\ SubSeq(t, 3, 3)[1] = t[3]
      BY <2>4
    <3> QED
      BY <3>1, ShortText
  <2> QED
    BY <2>3, <2>4, <2>5, Zenon
<1>3. Drop(<<"here", " ", "there">>, 2) = <<"there">>
  <2>1. Len(<<"here", " ", "there">>) = 3 /\ 2 + 1 = 3
    OBVIOUS
  <2> QED
    BY <1>2, <2>1, Zenon DEF Drop
<1> QED
  BY <1>1, <1>3

\* Whether a value is folded behind its first k symbols.
Folds(f, k) == f = "folded" /\ k = 1

\* Behind the line of field j.
LEMMA LineBehind ==
    ASSUME NEW r, IsRequest(r), NEW l \in Seq(Symbol), NEW j \in 1..Len(r.fields)
    PROVE  FromLine(r, j + 1, l) \in Seq(Symbol)
<1>1. j + 1 \in 1..(Len(r.fields) + 1)
  <2>1. r.fields \in Seq(FieldKinds)
    BY RequestParts
  <2> QED
    BY <2>1
<1> QED
  BY <1>1, LineTail

\* The folded value, in parts.
LEMMA FoldedParts ==
    ASSUME NEW r, IsRequest(r), NEW l \in Seq(Symbol), NEW j \in 1..Len(r.fields),
           r.fields[j] = "folded"
    PROVE  /\ FromNext(r, j, 1, l) = <<" ">> \o FromValue(r, j, 2, l)
           /\ FromNext(r, j, 1, l) \in Seq(Symbol)
           /\ FromValue(r, j, 2, l) = <<"there">> \o (r.eol \o FromLine(r, j + 1, l))
           /\ FromValue(r, j, 2, l) \in Seq(Symbol)
           /\ FromSpace(r, j, 1, l) = <<"here">> \o (r.eol \o FromNext(r, j, 1, l))
<1>1. PICK y \in Seq(Symbol) : y = r.eol \o FromLine(r, j + 1, l)
  BY LineBehind, EolTyped, Behind
<1>2. PICK h \in Seq(Symbol) : h = <<"here">>
  BY SymbolTexts
<1>3. PICK t \in Seq(Symbol) : t = <<"there">>
  BY SymbolTexts
<1>4. PICK s \in Seq(Symbol) : s = <<" ">>
  BY SymbolTexts
<1>5. PICK e \in Seq(Symbol) : e = r.eol
  BY EolTyped
<1>6. FromNext(r, j, 1, l) = s \o (t \o y)
  BY <1>1, <1>3, <1>4, Zenon DEF FromNext
<1>7. t \o y \in Seq(Symbol) /\ s \o (t \o y) \in Seq(Symbol)
  BY <1>1, Behind
<1>8. FromValue(r, j, 2, l) = t \o y
  <2>1. ValueSaid(r, "folded") = <<"here", " ", "there">>
    BY ValueIs DEF FieldKinds
  <2>2. Drop(<<"here", " ", "there">>, 2) = t
    BY <1>3, FoldedText, Zenon
  <2>3. ~(r.fields[j] = "folded" /\ 2 = 1)
    OBVIOUS
  <2> QED
    BY <1>1, <2>1, <2>2, <2>3, Zenon DEF FromValue
<1>9. FromSpace(r, j, 1, l) = h \o (e \o (s \o (t \o y)))
  <2>1. <<" ", "there">> = s \o t
    BY <1>3, <1>4, FoldedText, Zenon
  <2>2. PICK p \in Seq(Symbol) : p = s \o t
    BY Behind
  <2>3. PICK q \in Seq(Symbol) : q = e \o p
    BY Behind
  <2>4. ValueText(r, "folded") = h \o q
    <3>1. "folded" \in FieldKinds
      BY DEF FieldKinds
    <3> QED
      BY <1>2, <1>5, <2>1, <2>2, <2>3, <3>1, ValueTextIs
  <2>5. Regroups(h, q, y) /\ Regroups(e, p, y) /\ Regroups(s, t, y)
    BY <1>1, Regrouping, Zenon
  <2>6. (h \o q) \o y = h \o (e \o (s \o (t \o y)))
    BY <2>2, <2>3, <2>5, Zenon DEF Regroups
  <2>7. (h \o q) \o y \in Seq(Symbol)
    BY <1>1, Behind
  <2>8. PICK z \in Seq(Symbol) : z = (h \o q) \o y
    BY <2>7
  <2>9. FromSpace(r, j, 1, l) = <<>> \o z
    <3>1. (IF 1 = 0 THEN <<" ">> ELSE <<>>) = <<>>
      OBVIOUS
    <3>2. FromSpace(r, j, 1, l) = (IF 1 = 0 THEN <<" ">> ELSE <<>>) \o ((h \o q) \o y)
      BY <1>1, <2>4, Zenon DEF FromSpace
    <3> QED
      BY <2>8, <3>1, <3>2, Zenon
  <2>10. <<>> \o z = z
    OBVIOUS
  <2> QED
    BY <2>6, <2>8, <2>9, <2>10, Zenon
<1> QED
  BY <1>1, <1>2, <1>3, <1>4, <1>5, <1>6, <1>7, <1>8, <1>9, Zenon

\* A value, symbol by symbol, and its line ends.
LEMMA ValueComes ==
    ASSUME NEW r, IsRequest(r), NEW l \in Seq(Symbol), NEW j \in 1..Len(r.fields), NEW f,
           f = r.fields[j]
    PROVE  /\ f = "blank" => FromSpace(r, j, 1, l) = r.eol \o FromLine(r, j + 1, l)
           /\ f # "blank" =>
                Begins(FromSpace(r, j, 1, l), ValueSaid(r, f)[1], FromValue(r, j, 1, l))
           /\ \A k \in 1..(Len(ValueSaid(r, f)) - 1) : ~Folds(f, k) =>
                Begins(FromValue(r, j, k, l), ValueSaid(r, f)[k + 1], FromValue(r, j, k + 1, l))
           /\ \A k \in 1..Len(ValueSaid(r, f)) : Folds(f, k) \/ k = Len(ValueSaid(r, f)) =>
                /\ FromValue(r, j, k, l) = r.eol \o FromNext(r, j, k, l)
                /\ FromNext(r, j, k, l) \in Seq(Symbol)
           /\ f = "folded" => Begins(FromNext(r, j, 1, l), " ", FromValue(r, j, 2, l))
           /\ \A k \in Nat : ~Folds(f, k) => FromNext(r, j, k, l) = FromLine(r, j + 1, l)
<1>0. f \in FieldKinds
  BY LinesTyped
<1>1. PICK t \in Seq(Symbol) : t = ValueSaid(r, f)
  BY <1>0, ValueTyped
<1>2. PICK n \in Seq(Symbol) : n = FromLine(r, j + 1, l)
  BY LineBehind
<1>3. PICK y \in Seq(Symbol) : y = r.eol \o n
  BY EolTyped, Behind
<1>4. \A k \in Nat : ~Folds(f, k) => FromNext(r, j, k, l) = n
  BY <1>2, Zenon DEF FromNext, Folds
<1>5. \A k \in Nat : ~Folds(f, k) => FromValue(r, j, k, l) = Drop(t, k) \o y
  BY <1>1, <1>2, <1>3, Zenon DEF FromValue, Folds
<1>6. f # "folded" => FromSpace(r, j, 1, l) = t \o y
  <2>1. f # "folded" => ValueText(r, f) = t
    BY <1>0, <1>1, ValueTextIs
  <2>2. PICK z \in Seq(Symbol) : z = t \o y
    BY Behind
  <2>3. f # "folded" => FromSpace(r, j, 1, l) = <<>> \o z
    <3>1. (IF 1 = 0 THEN <<" ">> ELSE <<>>) = <<>>
      OBVIOUS
    <3>2. f # "folded" =>
            FromSpace(r, j, 1, l) = (IF 1 = 0 THEN <<" ">> ELSE <<>>) \o (t \o y)
      BY <1>2, <1>3, <2>1, Zenon DEF FromSpace
    <3> QED
      BY <2>2, <3>1, <3>2, Zenon
  <2>4. <<>> \o z = z
    OBVIOUS
  <2> QED
    BY <2>2, <2>3, <2>4, Zenon
<1>7. f = "blank" => FromSpace(r, j, 1, l) = r.eol \o FromLine(r, j + 1, l)
  <2>1. f = "blank" => t = <<>>
    BY <1>0, <1>1, ValueTyped
  <2>2. <<>> \o y = y
    OBVIOUS
  <2> QED
    BY <1>2, <1>3, <1>6, <2>1, <2>2
<1>8. ASSUME f = "folded"
      PROVE  /\ Begins(FromSpace(r, j, 1, l), ValueSaid(r, f)[1], FromValue(r, j, 1, l))
             /\ Begins(FromNext(r, j, 1, l), " ", FromValue(r, j, 2, l))
             /\ Begins(FromValue(r, j, 2, l), ValueSaid(r, f)[3], FromValue(r, j, 3, l))
             /\ FromValue(r, j, 1, l) = r.eol \o FromNext(r, j, 1, l)
             /\ FromNext(r, j, 1, l) \in Seq(Symbol)
  <2>1. ValueSaid(r, f) = <<"here", " ", "there">>
    BY <1>0, <1>8, ValueIs
  <2>2. ValueSaid(r, f)[1] = "here" /\ ValueSaid(r, f)[3] = "there"
    BY <2>1, FoldedText, Zenon
  <2>3. PICK x \in Seq(Symbol) : x = r.eol \o FromNext(r, j, 1, l)
    BY <1>8, FoldedParts, EolTyped, Behind
  <2>4. FromValue(r, j, 1, l) = x
    BY <1>8, <2>3 DEF FromValue
  <2>5. FromSpace(r, j, 1, l) = <<"here">> \o x
    BY <1>8, <2>3, FoldedParts, Zenon
  <2>6. FromNext(r, j, 1, l) = <<" ">> \o FromValue(r, j, 2, l)
        /\ FromValue(r, j, 2, l) \in Seq(Symbol) /\ FromNext(r, j, 1, l) \in Seq(Symbol)
    BY <1>8, FoldedParts, Zenon
  <2>7. FromValue(r, j, 2, l) = <<"there">> \o y
    <3>1. y = r.eol \o FromLine(r, j + 1, l) /\ r.fields[j] = "folded"
      BY <1>2, <1>3, <1>8
    <3>2. FromValue(r, j, 2, l) = <<"there">> \o (r.eol \o FromLine(r, j + 1, l))
      BY <3>1, FoldedParts
    <3> QED
      BY <3>1, <3>2, Zenon
  <2>8. FromValue(r, j, 3, l) = y
    <3>1. ~Folds(f, 3) /\ 3 \in Nat
      BY DEF Folds
    <3>2. Len(t) = 3
      BY <1>1, <2>1
    <3>3. Drop(t, 3) \o y = y
      BY <3>2, DropAll
    <3> QED
      BY <1>5, <3>1, <3>3, Zenon
  <2> QED
    BY <2>2, <2>3, <2>4, <2>5, <2>6, <2>7, <2>8, Zenon DEF Begins
<1>9. ASSUME f # "folded", f # "blank"
      PROVE  Begins(FromSpace(r, j, 1, l), ValueSaid(r, f)[1], FromValue(r, j, 1, l))
  <2>1. 0 < Len(t) /\ 0 + 1 = 1
    BY <1>0, <1>1, <1>9, ValueTyped
  <2>2. Begins(Drop(t, 0) \o y, t[0 + 1], Drop(t, 0 + 1) \o y)
    BY <2>1, BeginsMore
  <2>3. Drop(t, 0) = t
    BY DropNone
  <2>4. ~Folds(f, 1)
    BY <1>9 DEF Folds
  <2>5. FromValue(r, j, 1, l) = Drop(t, 1) \o y
    BY <1>5, <2>4
  <2> QED
    BY <1>1, <1>6, <1>9, <2>1, <2>2, <2>3, <2>5, Zenon
<1>10. ASSUME NEW k \in 1..(Len(ValueSaid(r, f)) - 1), ~Folds(f, k)
       PROVE  Begins(FromValue(r, j, k, l), ValueSaid(r, f)[k + 1], FromValue(r, j, k + 1, l))
  <2>1. k \in Nat /\ k + 1 \in Nat /\ k < Len(t) /\ k + 1 # 1
    BY <1>1
  <2>2. Begins(Drop(t, k) \o y, t[k + 1], Drop(t, k + 1) \o y)
    BY <2>1, BeginsMore
  <2>3. ~Folds(f, k + 1)
    BY <2>1 DEF Folds
  <2> QED
    BY <1>1, <1>5, <1>10, <2>1, <2>2, <2>3, Zenon
<1>11. ASSUME NEW k \in 1..Len(ValueSaid(r, f)), Folds(f, k) \/ k = Len(ValueSaid(r, f))
       PROVE  /\ FromValue(r, j, k, l) = r.eol \o FromNext(r, j, k, l)
              /\ FromNext(r, j, k, l) \in Seq(Symbol)
  <2>1. CASE Folds(f, k)
    BY <1>8, <2>1 DEF Folds
  <2>2. CASE ~Folds(f, k)
    <3>1. k \in Nat /\ k = Len(t)
      BY <1>1, <1>11, <2>2
    <3>2. Drop(t, k) \o y = y
      BY <3>1, DropAll
    <3> QED
      BY <1>3, <1>4, <1>5, <2>2, <3>1, <3>2, Zenon
  <2> QED
    BY <2>1, <2>2
<1> QED
  BY <1>2, <1>4, <1>7, <1>8, <1>9, <1>10, <1>11, Zenon

\* An empty line.
LEMMA EmptyComes ==
    ASSUME NEW x \in Seq(Symbol)
    PROVE  /\ EmptyLine(x) \in Seq(Symbol) /\ <<"LF">> \o x \in Seq(Symbol)
           /\ Begins(EmptyLine(x), "CR", <<"LF">> \o x) /\ Begins(<<"LF">> \o x, "LF", x)
<1>1. PICK y \in Seq(Symbol) : y = <<"LF">> \o x
  BY SymbolTexts, Behind
<1>2. <<"CR">> \o y \in Seq(Symbol)
  BY SymbolTexts, Behind
<1> QED
  BY <1>1, <1>2, Zenon DEF Begins, EmptyLine

\* The last chunk.
LEMMA LastComes ==
    ASSUME NEW l \in Seq(Symbol)
    PROVE  LastChunk(l) \in Seq(Symbol) /\ Begins(LastChunk(l), "0", EmptyLine(EmptyLine(l)))
<1>1. PICK y \in Seq(Symbol) : y = EmptyLine(EmptyLine(l))
  BY EmptyComes
<1>2. <<"0">> \o y \in Seq(Symbol)
  BY SymbolTexts, Behind
<1> QED
  BY <1>1, <1>2, Zenon DEF Begins, LastChunk

\* A body, symbol by symbol.
LEMMA BodyComes ==
    ASSUME NEW r, IsRequest(r), NEW x \in Seq(Symbol)
    PROVE  /\ \A k \in 0..(Len(r.body) - 1) :
                Begins(Drop(r.body, k) \o x, r.body[k + 1], Drop(r.body, k + 1) \o x)
           /\ Drop(r.body, Len(r.body)) \o x = x /\ Drop(r.body, 0) = r.body
           /\ r.body \o x \in Seq(Symbol)
<1>1. PICK b \in Seq(Symbol) : b = r.body
  BY BodySymbols
<1>2. ASSUME NEW k \in 0..(Len(b) - 1)
      PROVE  Begins(Drop(b, k) \o x, b[k + 1], Drop(b, k + 1) \o x)
  <2>1. k \in Nat /\ k < Len(b)
    OBVIOUS
  <2> QED
    BY <2>1, BeginsMore
<1>3. Drop(b, Len(b)) \o x = x /\ Drop(b, 0) = b /\ b \o x \in Seq(Symbol)
  BY DropAll, DropNone, Behind
<1> QED
  BY <1>1, <1>2, <1>3, Zenon

\* The chunk a body is sent as.
LEMMA ChunkComes ==
    ASSUME NEW r, IsRequest(r), NEW l \in Seq(Symbol), Has(r, "chunked"), r.body # <<>>
    PROVE  Begins(BodyText(r) \o l, Digits(Len(r.body)),
                  EmptyLine(r.body \o EmptyLine(LastChunk(l))))
<1>1. EmptyLine(LastChunk(l)) \in Seq(Symbol)
  BY LastComes, EmptyComes
<1>2. r.body \o EmptyLine(LastChunk(l)) \in Seq(Symbol)
  BY <1>1, BodyComes
<1>3. EmptyLine(r.body \o EmptyLine(LastChunk(l))) \in Seq(Symbol)
  BY <1>2, EmptyComes
<1> QED
  BY <1>3, BodyIs, Zenon DEF Begins

-----------------------------------------------------------------------------
\* A request's text, behind which comes l.
LEMMA RequestComes ==
    ASSUME NEW r, IsRequest(r), NEW l \in Seq(Symbol)
    PROVE  RequestText(r) \o l = r.lead \o FromMethod(r, l) /\ RequestText(r) \in Seq(Symbol)
<1>1. PICK a \in Seq(Symbol) : a = r.lead
  <2>1. {"CR", "LF"} \subseteq Symbol
    BY Symbols
  <2>2. r.lead \in Seq({"CR", "LF"})
    BY RequestParts
  <2> QED
    BY <2>1, <2>2, SeqWider
<1>2. PICK m \in Seq(Symbol) : m = <<r.method>>
  <2>1. r.method \in Symbol
    BY RequestParts, Symbols
  <2> QED
    BY <2>1, ShortTexts
<1>3. PICK s \in Seq(Symbol) : s = <<" ">>
  BY SymbolTexts
<1>4. PICK u \in Seq(Symbol) : u = r.url
  <2>1. {"/", "a", "?"} \subseteq Symbol
    BY Symbols
  <2>2. r.url \in Seq({"/", "a", "?"})
    BY RequestParts
  <2> QED
    BY <2>1, <2>2, SeqWider
<1>5. PICK v \in Seq(Symbol) : v = <<r.version>>
  <2>1. r.version \in Symbol
    BY RequestParts, Symbols
  <2> QED
    BY <2>1, ShortTexts
<1>6. PICK e \in Seq(Symbol) : e = r.eol
  BY EolTyped
<1>7. PICK j \in Seq(Symbol) : j = Joined(Lines(r))[1]
  <2>1. 1 \in 1..(Len(Lines(r)) + 1)
    <3>1. Lines(r) \in Seq(Seq(Symbol))
      BY LinesTyped
    <3> QED
      BY <3>1
  <2> QED
    BY <2>1, LinesTyped, JoinedSeq
<1>8. PICK b \in Seq(Symbol) : b = BodyText(r)
  BY BodyIs
<1>9. PICK p \in Seq(Symbol) : p = m \o s
  BY Behind
<1>10. PICK q \in Seq(Symbol) : q = s \o v
  BY Behind
<1>11. <<r.method, " ">> = p /\ <<" ", r.version>> = q
  <2>1. \A x, y \in Symbol : <<x, y>> = <<x>> \o <<y>>
    <3> TAKE x \in Symbol, y \in Symbol
    <3>1. PICK f \in Seq(Symbol) : f = <<x>>
      BY ShortTexts
    <3>2. PICK g \in Seq(Symbol) : g = <<y>>
      BY ShortTexts
    <3>3. Len(f) = 1 /\ f[1] = x /\ Len(g) = 1 /\ g[1] = y
      BY <3>1, <3>2
    <3>4. PICK h \in Seq(Symbol) : h = f \o g
      BY Behind
    <3>5. Len(h) = Len(f) + Len(g) /\ (\A n \in 1..Len(f) : h[n] = f[n])
          /\ (\A n \in 1..Len(g) : h[Len(f) + n] = g[n])
      BY <3>4, BehindIs
    <3>6. 1 \in 1..1 /\ 1 + 1 = 2
      OBVIOUS
    <3>7. Len(h) = 2 /\ h[1] = x /\ h[2] = y
      BY <3>3, <3>5, <3>6, Zenon
    <3>8. h = <<h[1], h[2]>>
      BY <3>7, ShortText
    <3> QED
      BY <3>1, <3>2, <3>4, <3>7, <3>8, Zenon
  <2>2. r.method \in Symbol /\ r.version \in Symbol /\ " " \in Symbol
    BY RequestParts, Symbols
  <2> QED
    BY <1>2, <1>3, <1>5, <1>9, <1>10, <2>1, <2>2, Zenon
<1>12. PICK t \in Seq(Symbol) : t = (((((a \o p) \o u) \o q) \o e) \o j) \o e
  BY Behind
<1>13. RequestText(r) = t \o b
  BY <1>1, <1>4, <1>6, <1>7, <1>8, <1>11, <1>12, Zenon DEF RequestText
<1>14. PICK x \in Seq(Symbol) : x = b \o l
  BY Behind
<1>15. PICK y \in Seq(Symbol) : y = e \o x
  BY Behind
<1>16. PICK z \in Seq(Symbol) : z = j \o y
  BY Behind
<1>17. (t \o b) \o l = t \o x
  <2>1. Regroups(t, b, l)
    BY Regrouping, Zenon
  <2> QED
    BY <1>14, <2>1, Zenon DEF Regroups
<1>18. PICK k \in Seq(Symbol) : k = ((((a \o p) \o u) \o q) \o e) \o j
  BY Behind
<1>19. t \o x = k \o y
  <2>1. Regroups(k, e, x)
    BY Regrouping, Zenon
  <2> QED
    BY <1>12, <1>15, <1>18, <2>1, Zenon DEF Regroups
<1>20. k \o y = a \o (p \o (u \o (q \o (e \o z))))
  <2>1. AllRegroup(a, p, u, q, e, j, y)
    BY Regrouped, Zenon
  <2> QED
    BY <1>16, <1>18, <2>1, Zenon DEF AllRegroup
<1>21. z = FromLine(r, 1, l)
  BY <1>6, <1>7, <1>8, <1>14, <1>15, <1>16, Zenon DEF FromLine
<1>22. PICK w \in Seq(Symbol) : w = e \o z
  BY Behind
<1>23. q \o w = s \o (v \o w)
  <2>1. Regroups(s, v, w)
    BY Regrouping, Zenon
  <2> QED
    BY <1>10, <2>1, Zenon DEF Regroups
<1>24. v \o w = FromVersion(r, l)
  BY <1>5, <1>6, <1>21, <1>22, Zenon DEF FromVersion
<1>25. PICK c \in Seq(Symbol) : c = u \o (q \o w)
  BY Behind
<1>26. c = FromUrl(r, 0, l)
  <2>1. Drop(u, 0) = u
    BY DropNone
  <2> QED
    BY <1>3, <1>4, <1>23, <1>24, <1>25, <2>1, Zenon DEF FromUrl
<1>27. p \o c = m \o (s \o c)
  <2>1. Regroups(m, s, c)
    BY Regrouping, Zenon
  <2> QED
    BY <1>9, <2>1, Zenon DEF Regroups
<1>28. m \o (s \o c) = FromMethod(r, l)
  BY <1>2, <1>3, <1>26, Zenon DEF FromMethod
<1>29. RequestText(r) \o l = r.lead \o FromMethod(r, l)
  BY <1>1, <1>13, <1>17, <1>19, <1>20, <1>22, <1>25, <1>27, <1>28, Zenon
<1>30. RequestText(r) \in Seq(Symbol)
  BY <1>13, Behind
<1> QED
  BY <1>29, <1>30

\* The requests sent are requests.
SentRequests == requests \in Seq(Request)

\* What is to come begins with the next request.
LEMMA LaterTyped ==
    ASSUME SentRequests
    PROVE  /\ \A n \in 0..Len(requests) : Later(n) \in Seq(Symbol)
           /\ Later(Len(requests)) = <<>>
           /\ \A n \in 0..(Len(requests) - 1) :
                /\ IsRequest(requests[n + 1])
                /\ Later(n) = requests[n + 1].lead \o FromMethod(requests[n + 1], Later(n + 1))
<1>1. PICK k \in Nat : k = Len(requests)
  BY DEF SentRequests
<1>2. \A n \in 1..k : IsRequest(requests[n])
  BY <1>1, RequestAssumption DEF SentRequests
<1>3. \A n \in 1..k : RequestText(requests[n]) \in Seq(Symbol)
  <2> TAKE n \in 1..k
  <2>1. <<>> \in Seq(Symbol)
    BY SymbolTexts
  <2> QED
    BY <1>2, <2>1, RequestComes
<1>4. PICK ts : ts = Texts(requests)
  OBVIOUS
<1>5. Len(ts) = k /\ \A n \in 1..k : ts[n] = RequestText(requests[n])
  BY <1>1, <1>4 DEF Texts
<1>6. ts \in Seq(Seq(Symbol))
  BY <1>1, <1>3, <1>4 DEF Texts
<1>7. \A n \in 1..(k + 1) : Joined(ts)[n] \in Seq(Symbol)
  BY <1>5, <1>6, JoinedSeq
<1>8. \A n \in 1..(k + 1) : Joined(ts)[n] = IF n > k THEN <<>> ELSE ts[n] \o Joined(ts)[n + 1]
  BY <1>1, <1>5, JoinedUnfolds
<1>9. \A n \in Nat : Later(n) = Joined(ts)[n + 1]
  BY <1>4, Zenon DEF Later
<1>10. \A n \in 0..k : Later(n) \in Seq(Symbol)
  <2> TAKE n \in 0..k
  <2>1. n \in Nat /\ n + 1 \in 1..(k + 1)
    BY <1>1
  <2> QED
    BY <1>7, <1>9, <2>1
<1>11. Later(k) = <<>>
  <2>1. k + 1 \in 1..(k + 1) /\ k + 1 > k
    BY <1>1
  <2> QED
    BY <1>8, <1>9, <2>1
<1>12. ASSUME NEW n \in 0..(k - 1)
       PROVE  /\ IsRequest(requests[n + 1])
              /\ Later(n) = requests[n + 1].lead \o FromMethod(requests[n + 1], Later(n + 1))
  <2>1. PICK m \in 1..k : m = n + 1
    BY <1>1
  <2>2. n \in Nat /\ m \in Nat /\ m \in 1..(k + 1) /\ ~(m > k) /\ m \in 0..k
    BY <1>1, <2>1
  <2>3. Later(n) = ts[m] \o Joined(ts)[m + 1]
    BY <1>8, <1>9, <2>1, <2>2
  <2>4. Later(n) = RequestText(requests[m]) \o Later(m)
    BY <1>5, <1>9, <2>2, <2>3, Zenon
  <2>5. IsRequest(requests[m]) /\ Later(m) \in Seq(Symbol)
    BY <1>2, <1>10, <2>2
  <2> QED
    BY <2>1, <2>4, <2>5, RequestComes, Zenon
<1> QED
  BY <1>1, <1>10, <1>11, <1>12, Zenon

\* What the parser, the request and the mark have.
IsParser(p) ==
    /\ p = [state |-> p.state, header_state |-> p.header_state, flags |-> p.flags,
            content_length |-> p.content_length, version |-> p.version, qs_point |-> p.qs_point,
            peeked |-> p.peeked]
    /\ p.content_length \in Int /\ p.qs_point \in Int

IsReq(q) ==
    /\ q = [method |-> q.method, raw_url |-> q.raw_url, url |-> q.url, version |-> q.version,
            body |-> q.body, headers |-> q.headers, field |-> q.field, value |-> q.value,
            building |-> q.building, upgrade |-> q.upgrade, closing |-> q.closing]
    /\ q.raw_url \in Seq(Symbol) /\ q.body \in Seq(Symbol)
    /\ q.field \in Seq(Symbol) /\ q.value \in Seq(Symbol)

IsMark(m) == m = [of |-> m.of, text |-> m.text] /\ m.text \in Seq(Symbol)

\* The connection.
Conn ==
    /\ SentRequests /\ stream \in Seq(Symbol) /\ at \in Nat /\ url_start_mark \in Nat
    /\ url_start_mark <= at
    /\ IsParser(parser) /\ IsReq(req) /\ IsMark(mark)

\* Parser q is p but for its state, what it matches, its flags and its length.
Moves(p, q, st, hs, fl, n) ==
    /\ IsParser(q) /\ q.state = st /\ q.header_state = hs /\ q.flags = fl /\ q.content_length = n
    /\ q.version = p.version /\ q.qs_point = p.qs_point

\* The ways the parser changes.
LEMMA ParserMoves ==
    ASSUME NEW p, IsParser(p), NEW st, NEW hs, NEW fl, NEW n \in Int
    PROVE  /\ Moves(p, [p EXCEPT !.state = st], st, p.header_state, p.flags, p.content_length)
           /\ Moves(p, [p EXCEPT !.flags = fl], p.state, p.header_state, fl, p.content_length)
           /\ Moves(p, [p EXCEPT !.content_length = n], p.state, p.header_state, p.flags, n)
           /\ Moves(p, [p EXCEPT !.header_state = hs], p.state, hs, p.flags, p.content_length)
           /\ Moves(p, [p EXCEPT !.peeked = hs], p.state, p.header_state, p.flags,
                    p.content_length)
           /\ Moves(p, [p EXCEPT !.state = st, !.flags = fl], st, p.header_state, fl,
                    p.content_length)
           /\ Moves(p, [p EXCEPT !.state = st, !.header_state = hs], st, hs, p.flags,
                    p.content_length)
           /\ Moves(p, [p EXCEPT !.header_state = hs, !.flags = fl], p.state, hs, fl,
                    p.content_length)
           /\ Moves(p, [p EXCEPT !.state = st, !.content_length = n], st, p.header_state, p.flags, n)
           /\ Moves(p, [p EXCEPT !.content_length = n, !.state = st], st, p.header_state, p.flags, n)
           /\ Moves(p, [p EXCEPT !.header_state = hs, !.content_length = n, !.flags = fl],
                    p.state, hs, fl, n)
           /\ Moves(p, [p EXCEPT !.state = st, !.flags = fl, !.content_length = n,
                                 !.header_state = hs], st, hs, fl, n)
<1>1. Moves(p, [p EXCEPT !.state = st], st, p.header_state, p.flags, p.content_length)
  BY DEF IsParser, Moves
<1>2. Moves(p, [p EXCEPT !.flags = fl], p.state, p.header_state, fl, p.content_length)
  BY DEF IsParser, Moves
<1>3. Moves(p, [p EXCEPT !.content_length = n], p.state, p.header_state, p.flags, n)
  BY DEF IsParser, Moves
<1>4. Moves(p, [p EXCEPT !.header_state = hs], p.state, hs, p.flags, p.content_length)
  BY DEF IsParser, Moves
<1>5. Moves(p, [p EXCEPT !.peeked = hs], p.state, p.header_state, p.flags, p.content_length)
  BY DEF IsParser, Moves
<1>6. Moves(p, [p EXCEPT !.state = st, !.flags = fl], st, p.header_state, fl, p.content_length)
  <2>1. PICK q : q = [p EXCEPT !.state = st, !.flags = fl]
    OBVIOUS
  <2>2. q = [state |-> st, header_state |-> p.header_state, flags |-> fl, content_length |-> p.content_length,
             version |-> p.version, qs_point |-> p.qs_point, peeked |-> p.peeked]
    BY <2>1 DEF IsParser
  <2>3. Moves(p, q, st, p.header_state, fl, p.content_length)
    BY <2>2 DEF IsParser, Moves
  <2> QED
    BY <2>1, <2>3, Zenon
<1>7. Moves(p, [p EXCEPT !.state = st, !.header_state = hs], st, hs, p.flags, p.content_length)
  <2>1. PICK q : q = [p EXCEPT !.state = st, !.header_state = hs]
    OBVIOUS
  <2>2. q = [state |-> st, header_state |-> hs, flags |-> p.flags, content_length |-> p.content_length,
             version |-> p.version, qs_point |-> p.qs_point, peeked |-> p.peeked]
    BY <2>1 DEF IsParser
  <2>3. Moves(p, q, st, hs, p.flags, p.content_length)
    BY <2>2 DEF IsParser, Moves
  <2> QED
    BY <2>1, <2>3, Zenon
<1>8. Moves(p, [p EXCEPT !.header_state = hs, !.flags = fl], p.state, hs, fl, p.content_length)
  <2>1. PICK q : q = [p EXCEPT !.header_state = hs, !.flags = fl]
    OBVIOUS
  <2>2. q = [state |-> p.state, header_state |-> hs, flags |-> fl, content_length |-> p.content_length,
             version |-> p.version, qs_point |-> p.qs_point, peeked |-> p.peeked]
    BY <2>1 DEF IsParser
  <2>3. Moves(p, q, p.state, hs, fl, p.content_length)
    BY <2>2 DEF IsParser, Moves
  <2> QED
    BY <2>1, <2>3, Zenon
<1>9. Moves(p, [p EXCEPT !.state = st, !.content_length = n], st, p.header_state, p.flags, n)
  <2>1. PICK q : q = [p EXCEPT !.state = st, !.content_length = n]
    OBVIOUS
  <2>2. q = [state |-> st, header_state |-> p.header_state, flags |-> p.flags, content_length |-> n,
             version |-> p.version, qs_point |-> p.qs_point, peeked |-> p.peeked]
    BY <2>1 DEF IsParser
  <2>3. Moves(p, q, st, p.header_state, p.flags, n)
    BY <2>2 DEF IsParser, Moves
  <2> QED
    BY <2>1, <2>3, Zenon
<1>10. Moves(p, [p EXCEPT !.content_length = n, !.state = st], st, p.header_state, p.flags, n)
  <2>1. PICK q : q = [p EXCEPT !.content_length = n, !.state = st]
    OBVIOUS
  <2>2. q = [state |-> st, header_state |-> p.header_state, flags |-> p.flags, content_length |-> n,
             version |-> p.version, qs_point |-> p.qs_point, peeked |-> p.peeked]
    BY <2>1 DEF IsParser
  <2>3. Moves(p, q, st, p.header_state, p.flags, n)
    BY <2>2 DEF IsParser, Moves
  <2> QED
    BY <2>1, <2>3, Zenon
<1>11. Moves(p, [p EXCEPT !.header_state = hs, !.content_length = n, !.flags = fl],
             p.state, hs, fl, n)
  <2>1. PICK q : q = [p EXCEPT !.header_state = hs, !.content_length = n, !.flags = fl]
    OBVIOUS
  <2>2. q = [state |-> p.state, header_state |-> hs, flags |-> fl, content_length |-> n,
             version |-> p.version, qs_point |-> p.qs_point, peeked |-> p.peeked]
    BY <2>1 DEF IsParser
  <2>3. Moves(p, q, p.state, hs, fl, n)
    BY <2>2 DEF IsParser, Moves
  <2> QED
    BY <2>1, <2>3, Zenon
<1>12. Moves(p, [p EXCEPT !.state = st, !.flags = fl, !.content_length = n,
                          !.header_state = hs], st, hs, fl, n)
  <2>1. PICK q : q = [p EXCEPT !.state = st, !.flags = fl, !.content_length = n,
                               !.header_state = hs]
    OBVIOUS
  <2>2. q = [state |-> st, header_state |-> hs, flags |-> fl, content_length |-> n,
             version |-> p.version, qs_point |-> p.qs_point, peeked |-> p.peeked]
    BY <2>1 DEF IsParser
  <2>3. Moves(p, q, st, hs, fl, n)
    BY <2>2 DEF IsParser, Moves
  <2> QED
    BY <2>1, <2>3, Zenon
<1> QED
  BY <1>1, <1>2, <1>3, <1>4, <1>5, <1>6, <1>7, <1>8, <1>9, <1>10, <1>11, <1>12, Zenon

-----------------------------------------------------------------------------
\* Request u is q but for its headers.
SameLine(q, u) ==
    /\ IsReq(u) /\ u.method = q.method /\ u.raw_url = q.raw_url /\ u.version = q.version
    /\ u.body = q.body /\ u.upgrade = q.upgrade

\* The headers and the field that is being built.
Building(u, h, f, v, b) == u.headers = h /\ u.field = f /\ u.value = v /\ u.building = b

\* A URL handed over.
UrlSet(q, raw, x) == [q EXCEPT !.raw_url = raw, !.url = x]

\* It changes the URL only.
LEMMA UrlTaken ==
    ASSUME NEW q, IsReq(q), NEW raw \in Seq(Symbol), NEW x, NEW u, u = UrlSet(q, raw, x)
    PROVE  /\ IsReq(u) /\ u.raw_url = raw /\ u.method = q.method /\ u.version = q.version
           /\ u.url = x
           /\ u.body = q.body /\ u.upgrade = q.upgrade
           /\ Building(u, q.headers, q.field, q.value, q.building)
<1>1. u = [method |-> q.method, raw_url |-> raw, url |-> x, version |-> q.version,
           body |-> q.body, headers |-> q.headers, field |-> q.field, value |-> q.value,
           building |-> q.building, upgrade |-> q.upgrade, closing |-> q.closing]
  BY DEF IsReq, UrlSet
<1> QED
  BY <1>1 DEF IsReq, Building

\* A part of a name is handed over.
LEMMA FieldTaken ==
    ASSUME NEW q, IsReq(q), NEW text \in Seq(Symbol), NEW u, u = WithField(q, text)
    PROVE  /\ SameLine(q, u)
           /\ q.building = 1 => Building(u, q.headers, q.field \o text, q.value, 1)
           /\ q.building # 1 =>
                Building(u, IF q.value # <<>> THEN Put(q.headers, q.field, q.value) ELSE q.headers,
                         text, <<>>, 1)
<1>1. CASE q.building = 1
  <2>1. PICK f \in Seq(Symbol) : f = q.field \o text
    BY Behind DEF IsReq
  <2>2. u = [q EXCEPT !.field = f]
    BY <1>1, <2>1 DEF WithField
  <2>3. u = [method |-> q.method, raw_url |-> q.raw_url, url |-> q.url, version |-> q.version,
             body |-> q.body, headers |-> q.headers, field |-> f, value |-> q.value,
             building |-> q.building, upgrade |-> q.upgrade, closing |-> q.closing]
    BY <2>2 DEF IsReq
  <2> QED
    BY <1>1, <2>1, <2>3 DEF IsReq, SameLine, Building
<1>2. CASE q.building # 1
  <2>1. PICK h : h = IF q.value # <<>> THEN Put(q.headers, q.field, q.value) ELSE q.headers
    OBVIOUS
  <2>2. u = [q EXCEPT !.headers = h, !.value = <<>>, !.field = text, !.building = 1]
    BY <1>2, <2>1 DEF WithField
  <2>3. u = [method |-> q.method, raw_url |-> q.raw_url, url |-> q.url, version |-> q.version,
             body |-> q.body, headers |-> h, field |-> text, value |-> <<>>,
             building |-> 1, upgrade |-> q.upgrade, closing |-> q.closing]
    BY <2>2 DEF IsReq
  <2>4. <<>> \in Seq(Symbol)
    BY SymbolTexts
  <2> QED
    BY <1>2, <2>1, <2>3, <2>4 DEF IsReq, SameLine, Building
<1> QED
  BY <1>1, <1>2

\* A part of a value is.
LEMMA ValueTaken ==
    ASSUME NEW q, IsReq(q), NEW text \in Seq(Symbol), NEW u, u = WithValue(q, text)
    PROVE  /\ SameLine(q, u)
           /\ q.building = 0 => Building(u, q.headers, q.field, q.value \o text, 0)
           /\ q.building # 0 => Building(u, q.headers, q.field, text, 0)
<1>1. CASE q.building = 0
  <2>1. PICK f \in Seq(Symbol) : f = q.value \o text
    BY Behind DEF IsReq
  <2>2. u = [q EXCEPT !.value = f]
    BY <1>1, <2>1 DEF WithValue
  <2>3. u = [method |-> q.method, raw_url |-> q.raw_url, url |-> q.url, version |-> q.version,
             body |-> q.body, headers |-> q.headers, field |-> q.field, value |-> f,
             building |-> q.building, upgrade |-> q.upgrade, closing |-> q.closing]
    BY <2>2 DEF IsReq
  <2> QED
    BY <1>1, <2>1, <2>3 DEF IsReq, SameLine, Building
<1>2. CASE q.building # 0
  <2>2. u = [q EXCEPT !.value = text, !.building = 0]
    BY <1>2 DEF WithValue
  <2>3. u = [method |-> q.method, raw_url |-> q.raw_url, url |-> q.url, version |-> q.version,
             body |-> q.body, headers |-> q.headers, field |-> q.field, value |-> text,
             building |-> 0, upgrade |-> q.upgrade, closing |-> q.closing]
    BY <2>2 DEF IsReq
  <2> QED
    BY <1>2, <2>3 DEF IsReq, SameLine, Building
<1> QED
  BY <1>1, <1>2

\* Request u is q but for its body.
SameHead(q, u) ==
    /\ IsReq(u) /\ u.method = q.method /\ u.raw_url = q.raw_url /\ u.version = q.version
    /\ u.headers = q.headers /\ u.upgrade = q.upgrade

\* A part of a body is.
LEMMA BodyTaken ==
    ASSUME NEW q, IsReq(q), NEW text \in Seq(Symbol), NEW u, u = WithBody(q, text)
    PROVE  SameHead(q, u) /\ u.body = q.body \o text
<1>1. PICK b \in Seq(Symbol) : b = q.body \o text
  BY Behind DEF IsReq
<1>2. u = [q EXCEPT !.body = b]
  BY <1>1 DEF WithBody
<1>3. u = [method |-> q.method, raw_url |-> q.raw_url, url |-> q.url, version |-> q.version,
           body |-> b, headers |-> q.headers, field |-> q.field, value |-> q.value,
           building |-> q.building, upgrade |-> q.upgrade, closing |-> q.closing]
  BY <1>2 DEF IsReq
<1> QED
  BY <1>1, <1>3 DEF IsReq, SameHead

\* Request u is q with its last header, and what parser p says of it.
HeadIs(q, u, p) ==
    /\ IsReq(u) /\ u.method = q.method /\ u.raw_url = q.raw_url /\ u.body = q.body
    /\ u.headers = (IF q.field # <<>> THEN Put(q.headers, q.field, q.value) ELSE q.headers)
    /\ u.version = p.version /\ u.upgrade = ("upgrade" \in p.flags)

\* The headers are complete.
LEMMA HeadTaken ==
    ASSUME NEW q, IsReq(q), NEW p PROVE HeadIs(q, WithConnection(q, p), p)
<1>0. PICK u : u = WithConnection(q, p)
  OBVIOUS
<1>1. PICK h : h = IF q.field # <<>> THEN Put(q.headers, q.field, q.value) ELSE q.headers
  OBVIOUS
<1>2. PICK c : c = IF p.version = "1.0" THEN "keep_alive" \notin p.flags ELSE "close" \in p.flags
  OBVIOUS
<1>3. PICK g : g = ("upgrade" \in p.flags)
  OBVIOUS
<1>4. u = [q EXCEPT !.headers = h, !.field = <<>>, !.value = <<>>, !.version = p.version,
                    !.upgrade = g, !.closing = c]
  BY <1>0, <1>1, <1>2, <1>3, Zenon DEF WithConnection
<1>5. u = [method |-> q.method, raw_url |-> q.raw_url, url |-> q.url, version |-> p.version,
           body |-> q.body, headers |-> h, field |-> <<>>, value |-> <<>>,
           building |-> q.building, upgrade |-> g, closing |-> c]
  BY <1>4 DEF IsReq
<1>6. <<>> \in Seq(Symbol)
  BY SymbolTexts
<1>7. IsReq(u) /\ u.method = q.method /\ u.raw_url = q.raw_url /\ u.body = q.body
      /\ u.headers = h /\ u.version = p.version /\ u.upgrade = g
  BY <1>5, <1>6 DEF IsReq
<1>8. HeadIs(q, u, p)
  BY <1>1, <1>3, <1>7, Zenon DEF HeadIs
<1> QED
  BY <1>0, <1>8, Zenon

\* Which states of the parser each part of a request belongs to.
LEMMA StatesOf ==
    ASSUME NEW r, NEW l
    PROVE  /\ AtMethod(r, l) => parser.state = "req_method"
           /\ BeforeUrl(r, l) => parser.state = "spaces_before_url"
           /\ InUrl(r, l) => parser.state \in {"path", "query"}
           /\ InVersion(r, l) => parser.state \in {"http_start", "http_end", "line_almost_done"}
           /\ BeforeFields(r, l) => parser.state = "header_field_start"
           /\ InName(r, l) => parser.state = "header_field"
           /\ AtSpace(r, l) => parser.state \in {"header_value_discard_ws",
                                                "discard_ws_almost_done", "discard_lws"}
           /\ InValue(r, l) => parser.state \in {"header_value", "header_almost_done",
                                                "header_value_lws"}
           /\ AtHeadersEnd(r, l) => parser.state = "headers_almost_done"
           /\ InBody(r, l) => parser.state = "body_identity"
           /\ AtChunk(r, l) => parser.state \in {"chunk_size_start", "chunk_size",
                                                "chunk_size_almost_done", "chunk_data_done"}
           /\ InChunk(r, l) => parser.state \in {"chunk_data", "chunk_data_almost_done"}
           /\ AtLast(r, l) => parser.state \in {"chunk_size_start", "chunk_size",
                                               "chunk_size_almost_done", "header_field_start",
                                               "headers_almost_done"}
<1>1. AtMethod(r, l) => parser.state = "req_method"
  BY Zenon DEF AtMethod
<1>2. BeforeUrl(r, l) => parser.state = "spaces_before_url"
  BY Zenon DEF BeforeUrl
<1>3. InUrl(r, l) => parser.state \in {"path", "query"}
  BY Zenon DEF InUrl
<1>4. InVersion(r, l) => parser.state \in {"http_start", "http_end", "line_almost_done"}
  BY DEF InVersion
<1>5. BeforeFields(r, l) => parser.state = "header_field_start"
  BY Zenon DEF BeforeFields
<1>6. InName(r, l) => parser.state = "header_field"
  BY Zenon DEF InName
<1>7. AtSpace(r, l) => parser.state \in {"header_value_discard_ws", "discard_ws_almost_done",
                                        "discard_lws"}
  BY Zenon DEF AtSpace
<1>8. InValue(r, l) => parser.state \in {"header_value", "header_almost_done", "header_value_lws"}
  BY Zenon DEF InValue
<1>9. AtHeadersEnd(r, l) => parser.state = "headers_almost_done"
  BY Zenon DEF AtHeadersEnd
<1>10. InBody(r, l) => parser.state = "body_identity"
  BY Zenon DEF InBody
<1>11. AtChunk(r, l) => parser.state \in {"chunk_size_start", "chunk_size",
                                         "chunk_size_almost_done", "chunk_data_done"}
  BY Zenon DEF AtChunk
<1>12. InChunk(r, l) => parser.state \in {"chunk_data", "chunk_data_almost_done"}
  BY Zenon DEF InChunk
<1>13. AtLast(r, l) => parser.state \in {"chunk_size_start", "chunk_size", "chunk_size_almost_done",
                                        "header_field_start", "headers_almost_done"}
  BY Zenon DEF AtLast
<1> QED
  BY <1>1, <1>2, <1>3, <1>4, <1>5, <1>6, <1>7, <1>8, <1>9, <1>10, <1>11, <1>12, <1>13, Zenon

\* What is handed over with what is marked.
DeliveryIs(m, q, d) ==
    /\ IsReq(d) /\ d.method = q.method /\ d.version = q.version /\ d.upgrade = q.upgrade
    /\ m.of = "none" => d = q
    /\ m.of = "url" => /\ d.raw_url = q.raw_url \o m.text /\ d.body = q.body
                       /\ Building(d, q.headers, q.field, q.value, q.building)
    /\ m.of = "field" => d = WithField(q, m.text) /\ SameLine(q, d)
    /\ m.of = "value" => d = WithValue(q, m.text) /\ SameLine(q, d)
    /\ m.of = "body" => d = WithBody(q, m.text) /\ SameHead(q, d) /\ d.body = q.body \o m.text

\* What is marked is handed over to one callback.
LEMMA DeliveryOf ==
    ASSUME NEW m, NEW q, NEW d, NEW x, IsMark(m), IsReq(q),
           d = CASE m.of = "url" -> UrlSet(q, q.raw_url \o m.text, x)
                 [] m.of = "field" -> WithField(q, m.text)
                 [] m.of = "value" -> WithValue(q, m.text)
                 [] m.of = "body" -> WithBody(q, m.text)
                 [] OTHER -> q
    PROVE  DeliveryIs(m, q, d)
<1>1. m.text \in Seq(Symbol) /\ q.raw_url \in Seq(Symbol)
  BY DEF IsMark, IsReq
<1>2. CASE m.of = "url"
  <2>1. PICK w \in Seq(Symbol) : w = q.raw_url \o m.text
    BY <1>1, Behind
  <2>2. d = UrlSet(q, w, x)
    BY <1>2, <2>1
  <2>3. /\ IsReq(d) /\ d.raw_url = w /\ d.method = q.method /\ d.version = q.version
        /\ d.body = q.body /\ d.upgrade = q.upgrade
        /\ Building(d, q.headers, q.field, q.value, q.building)
    BY <2>2, UrlTaken
  <2> QED
    BY <1>2, <2>1, <2>3 DEF DeliveryIs
<1>3. CASE m.of = "field"
  <2>1. d = WithField(q, m.text)
    BY <1>3
  <2>2. SameLine(q, d)
    BY <1>1, <2>1, FieldTaken, Zenon
  <2> QED
    BY <1>3, <2>1, <2>2 DEF DeliveryIs, SameLine
<1>4. CASE m.of = "value"
  <2>1. d = WithValue(q, m.text)
    BY <1>4
  <2>2. SameLine(q, d)
    BY <1>1, <2>1, ValueTaken, Zenon
  <2> QED
    BY <1>4, <2>1, <2>2 DEF DeliveryIs, SameLine
<1>5. CASE m.of = "body"
  <2>1. d = WithBody(q, m.text)
    BY <1>5
  <2>2. SameHead(q, d) /\ d.body = q.body \o m.text
    BY <1>1, <2>1, BodyTaken, Zenon
  <2> QED
    BY <1>5, <2>1, <2>2 DEF DeliveryIs, SameHead
<1>6. CASE m.of \notin {"url", "field", "value", "body"}
  <2>1. d = q
    BY <1>6
  <2> QED
    BY <1>6, <2>1 DEF DeliveryIs
<1> QED
  BY <1>2, <1>3, <1>4, <1>5, <1>6

\* So it is in this state,
LEMMA DeliveredIs ==
    ASSUME IsReq(req), IsMark(mark) PROVE DeliveryIs(mark, req, Delivered)
<1>1. PICK x : x = IF parser.qs_point \in 1..Len(req.raw_url \o mark.text)
                   THEN SubSeq(req.raw_url \o mark.text, 1, parser.qs_point)
                   ELSE req.raw_url \o mark.text
  OBVIOUS
<1>2. Delivered = CASE mark.of = "url" ->
                         UrlSet(req, req.raw_url \o mark.text, x)
                    [] mark.of = "field" -> WithField(req, mark.text)
                    [] mark.of = "value" -> WithValue(req, mark.text)
                    [] mark.of = "body" -> WithBody(req, mark.text)
                    [] OTHER -> req
  BY <1>1, Zenon DEF Delivered, WithUrl, UrlSet
<1> QED
  BY <1>2, DeliveryOf, Zenon

\* and in the next.
LEMMA DeliveredNext ==
    ASSUME IsReq(req'), IsMark(mark') PROVE DeliveryIs(mark', req', Delivered')
<1>1. PICK x : x = IF parser'.qs_point \in 1..Len(req'.raw_url \o mark'.text)
                   THEN SubSeq(req'.raw_url \o mark'.text, 1, parser'.qs_point)
                   ELSE req'.raw_url \o mark'.text
  OBVIOUS
<1>2. Delivered' = CASE mark'.of = "url" ->
                         UrlSet(req', req'.raw_url \o mark'.text, x)
                    [] mark'.of = "field" -> WithField(req', mark'.text)
                    [] mark'.of = "value" -> WithValue(req', mark'.text)
                    [] mark'.of = "body" -> WithBody(req', mark'.text)
                    [] OTHER -> req'
  BY <1>1, Zenon DEF Delivered, WithUrl, UrlSet
<1> QED
  BY <1>2, DeliveryOf, Zenon

\* No mark.
LEMMA NoMarkIs == IsMark(NoMark) /\ NoMark.of = "none" /\ NoMark.text = <<>>
BY SymbolTexts DEF IsMark, NoMark

\* A symbol is taken.
LEMMA Taking ==
    ASSUME Conn, NEW S, NEW C, Takes(S, C)
    PROVE  /\ socket = "open" /\ parser.state \in S /\ ch \in C /\ ch \in Symbol
           /\ SentRequests' /\ stream' \in Seq(Symbol) /\ at' \in Nat
           /\ requests' = requests /\ stream' = stream /\ at' = at + 1
<1>1. at < Len(stream) /\ at \in Nat /\ stream \in Seq(Symbol)
  BY DEF Conn, Takes
<1>2. ch \in Symbol
  BY <1>1 DEF ch
<1>3. socket = "open" /\ parser.state \in S /\ ch \in C
      /\ requests' = requests /\ stream' = stream /\ at' = at + 1
  BY DEF Takes, sent
<1> QED
  BY <1>1, <1>2, <1>3 DEF Conn, SentRequests

\* A symbol is marked.
LEMMA Marking ==
    ASSUME IsMark(mark), ch \in Symbol, NEW part, Marks(part)
    PROVE  /\ IsMark(mark') /\ mark'.of = part /\ mark'.text # <<>>
           /\ mark'.text = IF mark.of = part THEN mark.text \o <<ch>> ELSE <<ch>>
<1>1. PICK c \in Symbol : c = ch
  OBVIOUS
<1>2. PICK t \in Seq(Symbol) : t = mark.text
  BY DEF IsMark
<1>3. Append(t, c) = t \o <<c>> /\ Append(t, c) \in Seq(Symbol) /\ Append(t, c) # <<>>
  OBVIOUS
<1>4. <<c>> \in Seq(Symbol) /\ <<c>> # <<>>
  OBVIOUS
<1>5. PICK u \in Seq(Symbol) : u = IF mark.of = part THEN t \o <<c>> ELSE <<c>>
  BY <1>3, <1>4
<1>6. mark' = [of |-> part, text |-> u]
  BY <1>1, <1>2, <1>3, <1>5, Zenon DEF Marks
<1>7. mark'.of = part /\ mark'.text = u /\ IsMark(mark')
  BY <1>6 DEF IsMark
<1> QED
  BY <1>1, <1>2, <1>3, <1>4, <1>5, <1>7, Zenon

\* Nothing is answered.
Quiet == UNCHANGED <<requests, socket, answers, handled>>

\* A step that writes nothing.
LEMMA QuietConnection ==
    ASSUME requests' = requests, UNCHANGED <<socket, close_connection_, answers, handled>>
    PROVE  Quiet
BY DEF Quiet

\* A cleared request.
LEMMA FreshIs ==
    /\ IsReq(Fresh) /\ Fresh.method = "GET" /\ Fresh.raw_url = <<>> /\ Fresh.body = <<>>
    /\ DOMAIN Fresh.headers = {} /\ Fresh.field = <<>> /\ Fresh.value = <<>>
    /\ Fresh.building = 0 /\ Fresh.upgrade = FALSE
BY SymbolTexts DEF IsReq, Fresh

\* Between requests: an empty line is passed over, a method begins a request.
LEMMA StartsRequest ==
    ASSUME Conn, NEW n \in Nat, n <= Len(requests), Idle(n), StartRequest
    PROVE  Conn' /\ Quiet /\ (Idle(n)' \/ InNext(n)')
<1>1. parser.state = "start_req" /\ parser.qs_point = 0 /\ mark = NoMark /\ req = Fresh
  BY Zenon DEF Idle
<1>2. at < Len(stream) /\ requests' = requests /\ stream' = stream /\ at' = at + 1
      /\ SentRequests' /\ stream' \in Seq(Symbol) /\ at' \in Nat
  <2>1. at < Len(stream)
    BY DEF StartRequest, Takes
  <2>2. CASE Takes({"start_req"}, {"CR", "LF"})
    BY <2>1, <2>2, Taking
  <2>3. CASE Takes({"start_req"}, {"GET", "POST"})
    BY <2>1, <2>3, Taking
  <2>4. CASE Takes({"req_method"}, {" "})
    BY <2>1, <2>4, Taking
  <2> QED
    BY <2>2, <2>3, <2>4 DEF StartRequest
<1>3. n < Len(requests)
  <2>1. SUFFICES ASSUME n = Len(requests) PROVE FALSE
    BY DEF Conn, SentRequests
  <2>2. Coming = <<>>
    BY <2>1, Zenon DEF Idle
  <2> QED
    BY <1>2, <2>2, NoneToCome DEF Conn
<1>4. PICK r : r = requests[n + 1]
  OBVIOUS
<1>5. PICK l : l = Later(n + 1)
  OBVIOUS
<1>6. IsRequest(r) /\ l \in Seq(Symbol)
  <2>1. SentRequests /\ Len(requests) \in Nat
    BY DEF Conn, SentRequests
  <2>2. n \in 0..(Len(requests) - 1) /\ n + 1 \in 0..Len(requests)
    BY <1>3, <2>1
  <2> QED
    BY <1>4, <1>5, <2>1, <2>2, LaterTyped
<1>7. Later(n + 1)' = l /\ requests'[n + 1] = r /\ n # Len(requests')
  <2>1. Later(n + 1)' = l
    BY <1>2, <1>5, Zenon DEF Later
  <2> QED
    BY <1>2, <1>3, <1>4, <2>1 DEF Conn, SentRequests
<1>8. PICK k \in 0..Len(r.lead) : Coming = Drop(r.lead, k) \o FromMethod(r, l)
  BY <1>3, <1>4, <1>5 DEF Idle
<1>9. FromMethod(r, l) \in Seq(Symbol) /\ r.lead \in Seq({"CR", "LF"}) /\ {"CR", "LF"} \subseteq Symbol
      /\ r.method \in {"GET", "POST"}
  BY <1>6, MethodComes, RequestParts, Symbols
<1>10. CASE k < Len(r.lead)
  <2>1. k \in Nat
    BY <1>9
  <2>2. Begins(Drop(r.lead, k) \o FromMethod(r, l), r.lead[k + 1],
               Drop(r.lead, k + 1) \o FromMethod(r, l))
    BY <1>9, <1>10, <2>1, BeginsMore
  <2>3. ch = r.lead[k + 1] /\ Coming' = Drop(r.lead, k + 1) \o FromMethod(r, l)
    BY <1>2, <1>8, <2>2, NextCome DEF Conn
  <2>4. ch \in {"CR", "LF"}
    BY <1>9, <1>10, <2>1, <2>3
  <2>5. ~Takes({"start_req"}, {"GET", "POST"})
    BY <2>4 DEF Takes
  <2>6. ~Takes({"req_method"}, {" "})
    BY <1>1 DEF Takes
  <2>7. UNCHANGED parser /\ Still
    BY <2>5, <2>6 DEF StartRequest
  <2>8. Quiet /\ Conn'
    BY <1>2, <2>7 DEF Quiet, Still, connection, Conn
  <2>9. k + 1 \in 0..Len(requests'[n + 1].lead)
    BY <1>7, <1>9, <1>10, <2>1
  <2>10. parser'.state = "start_req" /\ parser'.qs_point = 0 /\ mark' = NoMark /\ req' = Fresh
    BY <1>1, <2>7 DEF Still, connection
  <2>11. Coming' = Drop(requests'[n + 1].lead, k + 1) \o FromMethod(requests'[n + 1], Later(n + 1)')
    BY <1>7, <2>3
  <2>12. \E m \in 0..Len(requests'[n + 1].lead) :
           Coming' = Drop(requests'[n + 1].lead, m) \o FromMethod(requests'[n + 1], Later(n + 1)')
    BY <2>9, <2>11, Zenon
  <2>13. Idle(n)'
    BY <1>7, <2>10, <2>12, Zenon DEF Idle
  <2> QED
    BY <2>8, <2>13
<1>11. CASE k = Len(r.lead)
  <2>1. Drop(r.lead, k) \o FromMethod(r, l) = FromMethod(r, l)
    <3>1. r.lead \in Seq(Symbol)
      BY <1>9, SeqWider
    <3> QED
      BY <1>9, <1>11, <3>1, DropAll
  <2>2. Begins(Coming, r.method, <<" ">> \o FromUrl(r, 0, l))
    BY <1>6, <1>8, <2>1, MethodComes
  <2>3. ch = r.method /\ Coming' = <<" ">> \o FromUrl(r, 0, l)
    BY <1>2, <2>2, NextCome DEF Conn
  <2>4. ~Takes({"start_req"}, {"CR", "LF"})
    BY <1>9, <2>3 DEF Takes
  <2>5. ~Takes({"req_method"}, {" "})
    BY <1>1 DEF Takes
  <2>6. /\ parser' = [parser EXCEPT !.state = "req_method", !.flags = {}, !.content_length = Unset,
                                    !.header_state = "general"]
        /\ req' = [req EXCEPT !.method = ch]
        /\ UNCHANGED <<mark, url_start_mark, found, code, socket, close_connection_, answers,
                       handled>>
    BY <2>4, <2>5 DEF StartRequest
  <2>7. IsParser(parser) /\ Unset \in Int
    BY DEF Conn, Unset
  <2>8. Moves(parser, parser', "req_method", "general", {}, Unset)
    BY <2>6, <2>7, ParserMoves
  <2>9. IsReq(req') /\ req'.method = r.method /\ req'.raw_url = <<>> /\ req'.body = <<>>
        /\ DOMAIN req'.headers = {} /\ req'.field = <<>> /\ req'.value = <<>>
        /\ req'.building = 0
    <3>1. req' = [Fresh EXCEPT !.method = r.method]
      BY <1>1, <2>3, <2>6
    <3>2. req' = [method |-> r.method, raw_url |-> Fresh.raw_url, url |-> Fresh.url,
                  version |-> Fresh.version, body |-> Fresh.body, headers |-> Fresh.headers,
                  field |-> Fresh.field, value |-> Fresh.value, building |-> Fresh.building,
                  upgrade |-> Fresh.upgrade, closing |-> Fresh.closing]
      BY <3>1, FreshIs DEF IsReq
    <3> QED
      BY <3>2, FreshIs DEF IsReq
  <2>10. Bare(r)'
    BY <2>8, <2>9 DEF Bare, Moves
  <2>11. AtMethod(r, l)'
    BY <1>1, <2>3, <2>6, <2>8, <2>9, <2>10 DEF AtMethod, Moves
  <2>12. InRequest(r, l)'
    BY <2>11 DEF InRequest
  <2>13. n < Len(requests')
    BY <1>2, <1>3
  <2>14. InNext(n)'
    BY <1>7, <2>12, <2>13 DEF InNext
  <2>15. Conn' /\ Quiet
    <3>1. IsMark(mark')
      BY <2>6 DEF Conn
    <3> QED
      BY <1>2, <2>6, <2>8, <2>9, <3>1 DEF Conn, Moves, Quiet
  <2> QED
    BY <2>14, <2>15
<1> QED
  BY <1>8, <1>9, <1>10, <1>11

\* The space behind the method.
LEMMA MethodEnds ==
    ASSUME Conn, NEW r, IsRequest(r), NEW l \in Seq(Symbol), AtMethod(r, l), StartRequest
    PROVE  Conn' /\ Quiet /\ InRequest(r, l)'
<1>1. parser.state = "req_method" /\ Bare(r) /\ req.raw_url = <<>> /\ parser.qs_point = 0
      /\ mark = NoMark
  BY Zenon DEF AtMethod
<1>2. ~Takes({"start_req"}, {"CR", "LF"}) /\ ~Takes({"start_req"}, {"GET", "POST"})
  BY <1>1 DEF Takes
<1>3. Takes({"req_method"}, {" "}) /\ Goes("spaces_before_url") /\ Still
  BY <1>2 DEF StartRequest
<1>4. requests' = requests /\ stream' = stream /\ at' = at + 1
      /\ SentRequests' /\ stream' \in Seq(Symbol) /\ at' \in Nat
  BY <1>3, Taking
<1>5. Begins(Coming, " ", FromUrl(r, 0, l))
  BY UrlComes DEF AtMethod
<1>6. Coming' = FromUrl(r, 0, l)
  BY <1>4, <1>5, NextCome DEF Conn
<1>7. Moves(parser, parser', "spaces_before_url", parser.header_state, parser.flags,
            parser.content_length)
  BY <1>3, ParserMoves DEF Goes, Conn, IsParser
<1>8. UNCHANGED <<mark, url_start_mark, req, socket, answers, handled>>
  BY <1>3 DEF Still, connection
<1>9. Bare(r)'
  BY <1>1, <1>7, <1>8 DEF Bare, Moves
<1>10. BeforeUrl(r, l)'
  BY <1>1, <1>6, <1>7, <1>8, <1>9 DEF BeforeUrl, Moves
<1>11. InRequest(r, l)'
  BY <1>10 DEF InRequest
<1> QED
  BY <1>4, <1>7, <1>8, <1>11 DEF Conn, Moves, Quiet

\* The URL's first symbol.
LEMMA UrlBegins ==
    ASSUME Conn, NEW r, IsRequest(r), NEW l \in Seq(Symbol), BeforeUrl(r, l), Url
    PROVE  Conn' /\ Quiet /\ InRequest(r, l)'
<1>1. parser.state = "spaces_before_url" /\ Bare(r) /\ req.raw_url = <<>> /\ parser.qs_point = 0
      /\ mark = NoMark
  BY Zenon DEF BeforeUrl
<1>2. ~Takes({"path", "query"}, {"/", "a"}) /\ ~Takes({"path"}, {"?"})
  BY <1>1 DEF Takes
<1>3. /\ Takes({"spaces_before_url"}, {"/"}) /\ Goes("path") /\ Marks("url")
      /\ url_start_mark' = (IF url_start_mark = 0 THEN at + 1 ELSE url_start_mark)
      /\ UNCHANGED connection
  BY <1>2 DEF Url
<1>4. requests' = requests /\ stream' = stream /\ at' = at + 1 /\ ch \in Symbol
      /\ SentRequests' /\ stream' \in Seq(Symbol) /\ at' \in Nat
  BY <1>3, Taking
<1>5. r.url \in Seq({"/", "a", "?"}) /\ Len(r.url) > 0 /\ r.url[1] = "/"
  BY RequestParts
<1>6. Begins(Coming, r.url[1], FromUrl(r, 1, l))
  <2>1. 0 \in 0..(Len(r.url) - 1) /\ 0 + 1 = 1
    BY <1>5
  <2>2. Coming = FromUrl(r, 0, l)
    BY Zenon DEF BeforeUrl
  <2>3. Begins(FromUrl(r, 0, l), r.url[0 + 1], FromUrl(r, 0 + 1, l))
    BY <2>1, UrlComes
  <2> QED
    BY <2>1, <2>2, <2>3, Zenon
<1>7. ch = r.url[1] /\ Coming' = FromUrl(r, 1, l)
  BY <1>4, <1>6, NextCome DEF Conn
<1>8. Moves(parser, parser', "path", parser.header_state, parser.flags, parser.content_length)
  BY <1>3, ParserMoves DEF Goes, Conn, IsParser
<1>9. IsMark(mark') /\ mark'.of = "url" /\ mark'.text = <<ch>>
  <2>1. IsMark(mark) /\ mark.of # "url"
    BY <1>1, NoMarkIs
  <2> QED
    BY <1>3, <1>4, <2>1, Marking
<1>10. UNCHANGED <<req, socket, answers, handled>>
  BY <1>3 DEF connection
<1>11. Bare(r)'
  BY <1>1, <1>8, <1>10 DEF Bare, Moves
<1>12. Delivered'.raw_url = Upto(r.url, 1)
  <2>1. DeliveryIs(mark', req', Delivered')
    BY <1>9, <1>10, DeliveredNext DEF Conn
  <2>2. Delivered'.raw_url = <<>> \o <<ch>>
    BY <1>1, <1>9, <1>10, <2>1 DEF DeliveryIs
  <2>3. <<>> \o <<ch>> = <<ch>>
    OBVIOUS
  <2>4. SubSeq(r.url, 1, 1) = <<r.url[1]>>
    <3>1. SubSeq(r.url, 1, 1) \in Seq({"/", "a", "?"}) /\ Len(SubSeq(r.url, 1, 1)) = 1
          /\ SubSeq(r.url, 1, 1)[1] = r.url[1]
      BY <1>5
    <3> QED
      BY <3>1, ShortText
  <2> QED
    BY <1>7, <2>2, <2>3, <2>4, Zenon DEF Upto
<1>13. InUrl(r, l)'
  <2>1. 1 \in 1..Len(r.url)
    BY <1>5
  <2>2. url_start_mark' \in Nat /\ url_start_mark' <= at'
    BY <1>3, <1>4 DEF Conn
  <2>3. url_start_mark' <= at' + 1 - 1
    BY <1>4, <2>2
  <2>4. Coming' = FromUrl(r, 1, l) /\ Delivered'.raw_url = Upto(r.url, 1)
    BY <1>7, <1>12
  <2>5. parser'.state = "path" /\ parser'.qs_point = 0 /\ \A m \in 1..1 : r.url[m] # "?"
    BY <1>1, <1>5, <1>8 DEF Moves
  <2>6. parser'.state # "query" /\ parser'.state \in {"path", "query"}
    BY <2>5
  <2> QED
    BY <1>9, <1>11, <2>1, <2>3, <2>4, <2>5, <2>6, Zenon DEF InUrl
<1>14. InRequest(r, l)'
  BY <1>13 DEF InRequest
<1>15. url_start_mark' \in Nat /\ url_start_mark' <= at'
  BY <1>3, <1>4 DEF Conn
<1> QED
  BY <1>4, <1>8, <1>9, <1>10, <1>14, <1>15 DEF Conn, Moves, Quiet

\* The URL goes on.
LEMMA UrlGoesOn ==
    ASSUME Conn, NEW r, IsRequest(r), NEW l \in Seq(Symbol), InUrl(r, l), Url
    PROVE  Conn' /\ Quiet /\ InRequest(r, l)'
<1>1. parser.state \in {"path", "query"} /\ Bare(r) /\ mark.of = "url"
  BY Zenon DEF InUrl
<1>2. PICK k \in 1..Len(r.url) :
         /\ Coming = FromUrl(r, k, l) /\ Delivered.raw_url = Upto(r.url, k)
         /\ url_start_mark = 0 \/ url_start_mark <= at + 1 - k
         /\ parser.state = "path" => /\ parser.qs_point = 0
                                     /\ \A m \in 1..k : r.url[m] # "?"
         /\ parser.state = "query" => \E m \in 1..k :
              r.url[m] = "?" /\ (parser.qs_point = Unset \/ parser.qs_point >= m - 1)
  BY Zenon DEF InUrl
<1>3. ~Takes({"spaces_before_url"}, {"/"})
  BY <1>1 DEF Takes
<1>4. Takes({"path", "query"}, {"/", "a"}) \/ Takes({"path"}, {"?"})
  BY <1>3 DEF Url
<1>5. requests' = requests /\ stream' = stream /\ at' = at + 1 /\ ch \in Symbol
      /\ SentRequests' /\ stream' \in Seq(Symbol) /\ at' \in Nat /\ ch \in {"/", "a", "?"}
  <2>1. CASE Takes({"path", "query"}, {"/", "a"})
    BY <2>1, Taking
  <2>2. CASE Takes({"path"}, {"?"})
    BY <2>2, Taking
  <2> QED
    BY <1>4, <2>1, <2>2
<1>6. Marks("url") /\ UNCHANGED <<url_start_mark, connection>>
  BY <1>3 DEF Url
<1>7. r.url \in Seq({"/", "a", "?"}) /\ Len(r.url) \in Nat /\ k \in Nat
  BY RequestParts
<1>8. k < Len(r.url)
  <2>1. SUFFICES ASSUME k = Len(r.url) PROVE FALSE
    BY <1>7
  <2>2. Begins(Coming, " ", FromVersion(r, l))
    BY <1>2, <2>1, UrlComes
  <2>3. ch = " "
    BY <2>2, NextCome DEF Conn
  <2> QED
    BY <1>5, <2>3
<1>9. ch = r.url[k + 1] /\ Coming' = FromUrl(r, k + 1, l)
  <2>1. k \in 0..(Len(r.url) - 1)
    BY <1>7, <1>8
  <2>2. Begins(Coming, r.url[k + 1], FromUrl(r, k + 1, l))
    BY <1>2, <2>1, UrlComes
  <2> QED
    BY <1>5, <2>2, NextCome DEF Conn
<1>10. IsMark(mark') /\ mark'.of = "url" /\ mark'.text = mark.text \o <<ch>>
  BY <1>1, <1>5, <1>6, Marking DEF Conn
<1>11. UNCHANGED <<req, socket, answers, handled, url_start_mark>>
  BY <1>6 DEF connection
<1>12. Delivered'.raw_url = Upto(r.url, k + 1)
  <2>1. DeliveryIs(mark', req', Delivered') /\ DeliveryIs(mark, req, Delivered)
    BY <1>10, <1>11, DeliveredIs, DeliveredNext DEF Conn
  <2>2. Delivered'.raw_url = req.raw_url \o (mark.text \o <<ch>>)
        /\ Delivered.raw_url = req.raw_url \o mark.text
    BY <1>1, <1>10, <1>11, <2>1 DEF DeliveryIs
  <2>3. PICK a \in Seq(Symbol), b \in Seq(Symbol), c \in Seq(Symbol) :
           a = req.raw_url /\ b = mark.text /\ c = <<ch>>
    BY <1>5, ShortTexts DEF Conn, IsReq, IsMark
  <2>4. Regroups(a, b, c)
    BY Regrouping
  <2>5. Upto(r.url, k + 1) = Upto(r.url, k) \o <<r.url[k + 1]>>
    BY <1>7, <1>8, UptoNext
  <2> QED
    BY <1>2, <1>9, <2>2, <2>3, <2>4, <2>5, Zenon DEF Regroups
<1>13. /\ IsParser(parser') /\ parser'.flags = parser.flags
       /\ parser'.content_length = parser.content_length
       /\ \/ ch \in {"/", "a"} /\ parser' = parser
          \/ /\ ch = "?" /\ parser.state = "path" /\ parser'.state = "query"
             /\ parser'.qs_point = IF url_start_mark = 0 THEN Unset ELSE at + 1 - url_start_mark
  <2>1. CASE Takes({"path", "query"}, {"/", "a"})
    <3>1. ch \in {"/", "a"} /\ ~Takes({"path"}, {"?"})
      BY <2>1 DEF Takes
    <3>2. parser' = parser
      BY <1>3, <3>1 DEF Url
    <3> QED
      BY <3>1, <3>2 DEF Conn
  <2>2. CASE Takes({"path"}, {"?"})
    <3>1. ch = "?" /\ parser.state = "path" /\ ~Takes({"path", "query"}, {"/", "a"})
      BY <2>2 DEF Takes
    <3>2. PICK x \in Int : x = IF url_start_mark = 0 THEN Unset ELSE at + 1 - url_start_mark
      <4>1. at \in Nat /\ url_start_mark \in Nat
        BY DEF Conn
      <4>2. (IF url_start_mark = 0 THEN Unset ELSE at + 1 - url_start_mark) \in Int
        BY <4>1 DEF Unset
      <4> QED
        BY <4>2
    <3>3. parser' = [parser EXCEPT !.state = "query", !.qs_point = x]
      BY <1>3, <3>1, <3>2 DEF Url
    <3>4. parser' = [state |-> "query", header_state |-> parser.header_state,
                     flags |-> parser.flags, content_length |-> parser.content_length,
                     version |-> parser.version, qs_point |-> x, peeked |-> parser.peeked]
      BY <3>3 DEF Conn, IsParser
    <3>5. IsParser(parser') /\ parser'.flags = parser.flags /\ parser'.state = "query"
          /\ parser'.content_length = parser.content_length /\ parser'.qs_point = x
      BY <3>4 DEF Conn, IsParser
    <3> QED
      BY <3>1, <3>2, <3>5, Zenon
  <2> QED
    BY <1>4, <2>1, <2>2
<1>14. Bare(r)'
  BY <1>1, <1>11, <1>13 DEF Bare
<1>15. url_start_mark' = 0 \/ url_start_mark' <= at' + 1 - (k + 1)
  BY <1>2, <1>5, <1>7, <1>11 DEF Conn
<1>16. k + 1 \in 1..Len(r.url)
  BY <1>7, <1>8
<1>17. parser'.state \in {"path", "query"}
  BY <1>1, <1>13
<1>18. ASSUME parser'.state = "path"
       PROVE  parser'.qs_point = 0 /\ \A m \in 1..(k + 1) : r.url[m] # "?"
  <2>1. parser' = parser /\ ch # "?"
    BY <1>13, <1>18
  <2>2. parser.qs_point = 0 /\ \A m \in 1..k : r.url[m] # "?"
    BY <1>2, <1>18, <2>1
  <2>3. \A m \in 1..(k + 1) : m \in 1..k \/ m = k + 1
    BY <1>7
  <2> QED
    BY <1>9, <2>1, <2>2, <2>3
<1>19. ASSUME parser'.state = "query"
       PROVE  \E m \in 1..(k + 1) :
                r.url[m] = "?" /\ (parser'.qs_point = Unset \/ parser'.qs_point >= m - 1)
  <2>1. CASE parser' = parser
    <3>1. PICK m \in 1..k : r.url[m] = "?" /\ (parser.qs_point = Unset \/ parser.qs_point >= m - 1)
      BY <1>2, <1>19, <2>1
    <3>2. m \in 1..(k + 1)
      BY <1>7
    <3> QED
      BY <2>1, <3>1, <3>2
  <2>2. CASE parser' # parser
    <3>1. ch = "?" /\ parser'.qs_point = IF url_start_mark = 0 THEN Unset ELSE at + 1 - url_start_mark
      BY <1>13, <2>2
    <3>2. parser'.qs_point = Unset \/ parser'.qs_point >= (k + 1) - 1
      BY <1>2, <1>7, <3>1 DEF Conn
    <3>3. r.url[k + 1] = "?" /\ k + 1 \in 1..(k + 1)
      BY <1>7, <1>9, <3>1
    <3> QED
      BY <3>2, <3>3
  <2> QED
    BY <2>1, <2>2
<1>20. InUrl(r, l)'
  BY <1>9, <1>10, <1>12, <1>14, <1>15, <1>16, <1>17, <1>18, <1>19, Zenon DEF InUrl
<1>21. InRequest(r, l)'
  BY <1>20 DEF InRequest
<1>22. url_start_mark' <= at'
  BY <1>5, <1>11 DEF Conn
<1> QED
  BY <1>5, <1>10, <1>11, <1>13, <1>21, <1>22 DEF Conn, Quiet

\* The path is the URL, or what is before its query.
LEMMA PathIs ==
    ASSUME NEW r, IsRequest(r)
    PROVE  /\ (\A m \in 1..Len(r.url) : r.url[m] # "?") => Path(r) = r.url
           /\ \A m \in 1..Len(r.url) : r.url[m] = "?" => Path(r) = SubSeq(r.url, 1, m - 1)
<1>1. PICK u \in Seq({"/", "a", "?"}) : u = r.url /\ Len(u) > 0 /\ u[1] = "/"
  BY RequestParts
<1>2. \A m, n \in 1..Len(u) : u[m] = "?" /\ u[n] = "?" => m = n
  BY <1>1 DEF IsRequest
<1> DEFINE P == Range([n \in 1..Len(u) |-> SubSeq(u, 1, n)])
<1>3. \A p : p \in P <=> \E n \in 1..Len(u) : p = SubSeq(u, 1, n)
  BY DEF Range
<1> HIDE DEF P
<1> DEFINE Good(p) == ~Contains(p, "?") /\ (p = u \/ u[Len(p) + 1] = "?")
<1>4. Path(r) = CHOOSE p \in P : Good(p)
  BY <1>1, Zenon DEF Path, P
<1>5. ASSUME NEW n \in 1..Len(u)
      PROVE  /\ SubSeq(u, 1, n) \in P /\ Len(SubSeq(u, 1, n)) = n
             /\ Contains(SubSeq(u, 1, n), "?") <=> \E i \in 1..n : u[i] = "?"
             /\ SubSeq(u, 1, n) = u <=> n = Len(u)
  <2>1. SubSeq(u, 1, n) \in P
    BY <1>3
  <2>2. Len(SubSeq(u, 1, n)) = n /\ \A i \in 1..n : SubSeq(u, 1, n)[i] = u[i]
    OBVIOUS
  <2>3. Contains(SubSeq(u, 1, n), "?") <=> \E i \in 1..n : u[i] = "?"
    BY <2>2 DEF Contains
  <2>4. SubSeq(u, 1, Len(u)) = u
    OBVIOUS
  <2>5. SubSeq(u, 1, n) = u <=> n = Len(u)
    BY <2>2, <2>4
  <2> QED
    BY <2>1, <2>2, <2>3, <2>5
<1>6. ASSUME \A m \in 1..Len(u) : u[m] # "?" PROVE Path(r) = u
  <2>1. Len(u) \in 1..Len(u)
    BY <1>1
  <2>2. u \in P /\ Good(u)
    <3>1. SubSeq(u, 1, Len(u)) = u
      OBVIOUS
    <3>2. ~Contains(u, "?")
      BY <1>5, <1>6, <2>1, <3>1
    <3> QED
      BY <1>5, <2>1, <3>1, <3>2
  <2>3. ASSUME NEW p \in P, Good(p) PROVE p = u
    <3>1. PICK n \in 1..Len(u) : p = SubSeq(u, 1, n)
      BY <1>3
    <3>2. SUFFICES ASSUME n # Len(u) PROVE FALSE
      BY <1>5, <3>1
    <3>3. u[n + 1] = "?" /\ n + 1 \in 1..Len(u)
      BY <1>5, <2>3, <3>1, <3>2
    <3> QED
      BY <1>6, <3>3
  <2> QED
    BY <1>4, <2>2, <2>3
<1>7. ASSUME NEW m \in 1..Len(u), u[m] = "?" PROVE Path(r) = SubSeq(u, 1, m - 1)
  <2>1. m - 1 \in 1..Len(u)
    BY <1>1, <1>7
  <2>2. PICK k \in 1..Len(u) : k = m - 1
    BY <2>1
  <2>3. \A i \in 1..k : u[i] # "?"
    <3> TAKE i \in 1..k
    <3>1. i \in 1..Len(u) /\ i # m
      BY <2>2
    <3> QED
      BY <1>2, <1>7, <3>1
  <2>4. SubSeq(u, 1, k) \in P /\ Good(SubSeq(u, 1, k))
    <3>1. u[k + 1] = "?"
      BY <1>7, <2>2
    <3> QED
      BY <1>5, <2>3, <3>1
  <2>5. ASSUME NEW p \in P, Good(p) PROVE p = SubSeq(u, 1, k)
    <3>1. PICK n \in 1..Len(u) : p = SubSeq(u, 1, n)
      BY <1>3
    <3>2. \A i \in 1..n : u[i] # "?"
      BY <1>5, <2>5, <3>1
    <3>3. n # Len(u)
      BY <1>7, <3>2
    <3>4. u[n + 1] = "?" /\ n + 1 \in 1..Len(u)
      BY <1>5, <2>5, <3>1, <3>3
    <3>5. n + 1 = m
      BY <1>2, <1>7, <3>4
    <3> QED
      BY <2>2, <3>1, <3>5
  <2> QED
    BY <1>4, <2>2, <2>4, <2>5
<1> QED
  BY <1>1, <1>6, <1>7

\* Where the URL is looked up it is at least the path, and all of it where there is no query.
LEMMA Looked ==
    ASSUME NEW r, IsRequest(r), NEW x \in Int, NEW v,
           v = IF x \in 1..Len(r.url) THEN SubSeq(r.url, 1, x) ELSE r.url,
           \/ x = 0 /\ \A m \in 1..Len(r.url) : r.url[m] # "?"
           \/ \E m \in 1..Len(r.url) : r.url[m] = "?" /\ (x = Unset \/ x >= m - 1)
    PROVE  /\ v = <<"/">> => Path(r) = <<"/">>
           /\ r.url = <<"/">> => v = <<"/">>
           /\ v # <<"/">> /\ Path(r) = <<"/">> => Contains(r.url, "?")
<1>1. PICK u \in Seq({"/", "a", "?"}) : u = r.url /\ Len(u) > 0 /\ u[1] = "/"
  BY RequestParts
<1>2. CASE x = 0 /\ \A m \in 1..Len(r.url) : r.url[m] # "?"
  <2>1. v = r.url
    BY <1>1, <1>2
  <2>2. Path(r) = r.url
    BY <1>2, PathIs
  <2> QED
    BY <2>1, <2>2
<1>3. CASE \E m \in 1..Len(r.url) : r.url[m] = "?" /\ (x = Unset \/ x >= m - 1)
  <2>1. PICK m \in 1..Len(u) : u[m] = "?" /\ (x = Unset \/ x >= m - 1)
    BY <1>1, <1>3
  <2>2. Contains(r.url, "?")
    BY <1>1, <2>1 DEF Contains
  <2>3. m >= 2 /\ Len(u) >= 2
    BY <1>1, <2>1
  <2>4. r.url # <<"/">>
    <3>1. Len(<<"/">>) = 1
      OBVIOUS
    <3> QED
      BY <1>1, <2>3, <3>1
  <2>5. ASSUME v = <<"/">> PROVE Path(r) = <<"/">>
    <3>1. x \in 1..Len(u) /\ v = SubSeq(u, 1, x)
      BY <1>1, <2>4, <2>5
    <3>2. x \in Nat /\ Len(SubSeq(u, 1, x)) = x
      BY <3>1
    <3>3. Len(<<"/">>) = 1
      OBVIOUS
    <3>4. x = 1
      BY <2>5, <3>1, <3>2, <3>3
    <3>5. m - 1 = 1
      BY <2>1, <2>3, <3>4 DEF Unset
    <3>6. Path(r) = SubSeq(u, 1, m - 1)
      BY <1>1, <2>1, PathIs
    <3> QED
      BY <2>5, <3>1, <3>4, <3>5, <3>6
  <2> QED
    BY <2>2, <2>4, <2>5
<1> QED
  BY <1>2, <1>3

\* The URL is complete, and its route looked up.
LEMMA UrlIsKnown ==
    ASSUME Conn, NEW r, IsRequest(r), NEW l \in Seq(Symbol), InUrl(r, l), UrlEnds
    PROVE  Conn' /\ Quiet /\ InRequest(r, l)'
<1>1. parser.state \in {"path", "query"} /\ Bare(r) /\ mark.of = "url"
  BY Zenon DEF InUrl
<1>2. PICK k \in 1..Len(r.url) :
         /\ Coming = FromUrl(r, k, l) /\ Delivered.raw_url = Upto(r.url, k)
         /\ parser.state = "path" => /\ parser.qs_point = 0
                                     /\ \A m \in 1..k : r.url[m] # "?"
         /\ parser.state = "query" => \E m \in 1..k :
              r.url[m] = "?" /\ (parser.qs_point = Unset \/ parser.qs_point >= m - 1)
  BY Zenon DEF InUrl
<1>3. /\ Takes({"path", "query"}, {" "}) /\ Goes("http_start") /\ Deliver /\ mark' = NoMark
      /\ UNCHANGED <<url_start_mark, socket, close_connection_, answers, handled>>
  BY DEF UrlEnds, Delivers
<1>4. requests' = requests /\ stream' = stream /\ at' = at + 1 /\ ch = " "
      /\ SentRequests' /\ stream' \in Seq(Symbol) /\ at' \in Nat
  <2>1. Takes({"path", "query"}, {" "})
    BY <1>3
  <2>2. PICK S, C : S = {"path", "query"} /\ C = {" "}
    OBVIOUS
  <2>3. Takes(S, C)
    BY <2>1, <2>2, Zenon
  <2>4. ch \in C /\ requests' = requests /\ stream' = stream /\ at' = at + 1
        /\ SentRequests' /\ stream' \in Seq(Symbol) /\ at' \in Nat
    BY <2>3, Taking, Zenon
  <2> QED
    BY <2>2, <2>4
<1>5. r.url \in Seq({"/", "a", "?"}) /\ Len(r.url) \in Nat /\ k \in Nat
      /\ r.method \in {"GET", "POST"}
  BY RequestParts
<1>6. k = Len(r.url)
  <2>1. SUFFICES ASSUME k < Len(r.url) PROVE FALSE
    BY <1>5
  <2>2. k \in 0..(Len(r.url) - 1)
    BY <1>5, <2>1
  <2>3. Begins(Coming, r.url[k + 1], FromUrl(r, k + 1, l))
    BY <1>2, <2>2, UrlComes
  <2>4. ch = r.url[k + 1]
    BY <2>3, NextCome DEF Conn
  <2>5. r.url[k + 1] \in {"/", "a", "?"}
    BY <1>5, <2>1
  <2> QED
    BY <1>4, <2>4, <2>5
<1>7. Coming' = FromVersion(r, l)
  <2>1. Begins(Coming, " ", FromVersion(r, l))
    BY <1>2, <1>6, UrlComes
  <2> QED
    BY <1>4, <2>1, NextCome DEF Conn
<1>8. Delivered.raw_url = r.url
  <2>1. Upto(r.url, k) = r.url
    BY <1>5, <1>6, UptoAll
  <2> QED
    BY <1>2, <2>1
<1>9. DeliveryIs(mark, req, Delivered)
  BY DeliveredIs DEF Conn
<1>10. /\ req' = Delivered /\ IsReq(req') /\ req'.raw_url = r.url /\ req'.method = r.method
       /\ req'.body = <<>> /\ Building(req', req.headers, req.field, req.value, req.building)
  BY <1>1, <1>3, <1>8, <1>9 DEF DeliveryIs, Deliver, Bare
<1>11. Delivered.url = IF parser.qs_point \in 1..Len(r.url) THEN SubSeq(r.url, 1, parser.qs_point)
                       ELSE r.url
  <2>1. PICK x : x = IF parser.qs_point \in 1..Len(req.raw_url \o mark.text)
                     THEN SubSeq(req.raw_url \o mark.text, 1, parser.qs_point)
                     ELSE req.raw_url \o mark.text
    OBVIOUS
  <2>2. PICK w \in Seq(Symbol) : w = req.raw_url \o mark.text
    BY Behind DEF Conn, IsReq, IsMark
  <2>3. Delivered = UrlSet(req, w, x)
    BY <1>1, <2>1, <2>2, Zenon DEF Delivered, WithUrl, UrlSet
  <2>4. Delivered.url = x /\ Delivered.raw_url = w
    BY <2>3, UrlTaken DEF Conn
  <2> QED
    BY <1>8, <2>1, <2>2, <2>4, Zenon
<1>12. \/ parser.qs_point = 0 /\ \A m \in 1..Len(r.url) : r.url[m] # "?"
       \/ \E m \in 1..Len(r.url) :
            r.url[m] = "?" /\ (parser.qs_point = Unset \/ parser.qs_point >= m - 1)
  BY <1>1, <1>2, <1>6
<1>13. /\ Delivered.url = <<"/">> => Path(r) = <<"/">>
       /\ r.url = <<"/">> => Delivered.url = <<"/">>
       /\ Delivered.url # <<"/">> /\ Path(r) = <<"/">> => Contains(r.url, "?")
  <2>1. parser.qs_point \in Int
    BY DEF Conn, IsParser
  <2> QED
    BY <1>11, <1>12, <2>1, Looked
<1>14. /\ found' = (Delivered.url = <<"/">> /\ r.method = "GET")
       /\ code' = (IF Delivered.url = <<"/">> /\ r.method = "GET" THEN code
                   ELSE IF Delivered.url = <<"/">> THEN "405" ELSE "404")
  <2>1. req.method = r.method
    BY <1>1 DEF Bare
  <2> QED
    BY <1>1, <1>3, <2>1, Zenon DEF Deliver
<1>15. Judged(r, code)'
  <2>1. found' => r.method = "GET" /\ Path(r) = <<"/">>
    BY <1>13, <1>14
  <2>2. ~found' => code' = Answer(r) \/ Misjudged(r)
    BY <1>5, <1>13, <1>14 DEF Answer, Misjudged
  <2>3. r.method = "GET" /\ r.url = <<"/">> => found'
    BY <1>13, <1>14
  <2> QED
    BY <2>1, <2>2, <2>3 DEF Judged
<1>16. Moves(parser, parser', "http_start", parser.header_state, parser.flags,
             parser.content_length)
  BY <1>3, ParserMoves DEF Goes, Conn, IsParser
<1>17. IsMark(mark') /\ mark'.of = "none"
  BY <1>3, NoMarkIs
<1>18. Delivered' = req'
  <2>1. DeliveryIs(mark', req', Delivered')
    BY <1>10, <1>17, DeliveredNext
  <2> QED
    BY <1>17, <2>1 DEF DeliveryIs
<1>19. Bare(r)' /\ Routed(r)'
  BY <1>1, <1>10, <1>15, <1>16, <1>18 DEF Bare, Routed, Moves, Building
<1>20. InVersion(r, l)'
  BY <1>3, <1>7, <1>16, <1>19 DEF InVersion, Moves
<1>21. InRequest(r, l)'
  BY <1>20 DEF InRequest
<1>22. url_start_mark' \in Nat /\ url_start_mark' <= at'
  <2>1. at \in Nat /\ url_start_mark \in Nat /\ url_start_mark <= at
    BY DEF Conn
  <2>2. url_start_mark' = url_start_mark
    BY <1>3
  <2>3. at' = at + 1
    BY <1>4
  <2>4. \A a, b \in Nat : b <= a => b <= a + 1
    OBVIOUS
  <2>5. url_start_mark <= at + 1
    BY <2>1, <2>4
  <2> QED
    BY <2>1, <2>2, <2>3, <2>5, Zenon
<1>23. IsParser(parser')
  BY <1>16 DEF Moves
<1>24. Conn'
  BY <1>4, <1>10, <1>17, <1>22, <1>23 DEF Conn
<1>25. Quiet
  BY <1>3, <1>4 DEF Quiet
<1> QED
  BY <1>21, <1>24, <1>25

\* Nothing is marked, handed over or found out.
LEMMA StillRouted ==
    ASSUME Conn, NEW r, Bare(r), Routed(r), NEW s, NEW v, mark = NoMark, Still,
           IsParser(parser'), parser'.state = s, parser'.flags = parser.flags,
           parser'.content_length = parser.content_length, parser'.version = v
    PROVE  /\ mark' = NoMark /\ IsMark(mark') /\ Bare(r)' /\ Routed(r)' /\ req' = req
           /\ Delivered' = req' /\ Delivered = req
           /\ UNCHANGED <<url_start_mark, found, code, socket, close_connection_, answers, handled>>
<1>1. UNCHANGED <<mark, url_start_mark, req, found, code, socket, close_connection_, answers,
                  handled>>
  BY DEF Still, connection
<1>2. IsMark(mark') /\ mark'.of = "none" /\ mark.of = "none" /\ IsMark(mark)
  BY <1>1, NoMarkIs
<1>3. Delivered' = req' /\ Delivered = req
  <2>1. DeliveryIs(mark', req', Delivered') /\ DeliveryIs(mark, req, Delivered)
    BY <1>1, <1>2, DeliveredIs, DeliveredNext DEF Conn
  <2> QED
    BY <1>2, <2>1 DEF DeliveryIs
<1>4. Bare(r)'
  BY <1>1 DEF Bare
<1>5. Routed(r)'
  BY <1>1, <1>3 DEF Routed, Judged
<1> QED
  BY <1>1, <1>2, <1>3, <1>4, <1>5

\* The version is taken.
LEMMA VersionTaken ==
    ASSUME Conn, NEW r, IsRequest(r), NEW l \in Seq(Symbol), InVersion(r, l), Version
    PROVE  Conn' /\ Quiet /\ InRequest(r, l)'
<1>1. Takes({"http_start"}, {"1.0", "1.1"}) /\ Still
      /\ parser' = [parser EXCEPT !.state = "http_end", !.version = ch]
  BY DEF Version
<1>2. requests' = requests /\ stream' = stream /\ at' = at + 1 /\ parser.state = "http_start"
      /\ SentRequests' /\ stream' \in Seq(Symbol) /\ at' \in Nat
  BY <1>1, Taking
<1>3. Coming = FromVersion(r, l) /\ mark = NoMark /\ Bare(r) /\ Routed(r)
  BY <1>2 DEF InVersion
<1>4. ch = r.version /\ Coming' = r.eol \o FromLine(r, 1, l)
  <2>1. Begins(Coming, r.version, r.eol \o FromLine(r, 1, l))
    BY <1>3, VersionComes
  <2> QED
    BY <1>2, <2>1, NextCome DEF Conn
<1>5. IsParser(parser') /\ parser'.state = "http_end" /\ parser'.flags = parser.flags
      /\ parser'.content_length = parser.content_length /\ parser'.version = r.version
  <2>1. parser' = [state |-> "http_end", header_state |-> parser.header_state,
                   flags |-> parser.flags, content_length |-> parser.content_length,
                   version |-> ch, qs_point |-> parser.qs_point, peeked |-> parser.peeked]
    BY <1>1 DEF Conn, IsParser
  <2> QED
    BY <1>4, <2>1 DEF Conn, IsParser
<1>6. /\ mark' = NoMark /\ IsMark(mark') /\ Bare(r)' /\ Routed(r)' /\ req' = req
      /\ UNCHANGED <<url_start_mark, socket, answers, handled>>
  BY <1>1, <1>3, <1>5, StillRouted
<1>7. InVersion(r, l)'
  BY <1>4, <1>5, <1>6 DEF InVersion
<1>8. InRequest(r, l)'
  BY <1>7 DEF InRequest
<1> QED
  BY <1>2, <1>5, <1>6, <1>8 DEF Conn, Quiet

\* The request line ends.
LEMMA LineIsOver ==
    ASSUME Conn, NEW r, IsRequest(r), NEW l \in Seq(Symbol), InVersion(r, l), LineEnds
    PROVE  Conn' /\ Quiet /\ InRequest(r, l)'
<1>0. PICK S, C : Takes(S, C) /\ Still
  BY Zenon DEF LineEnds
<1>1. requests' = requests /\ stream' = stream /\ at' = at + 1
      /\ SentRequests' /\ stream' \in Seq(Symbol) /\ at' \in Nat
  BY <1>0, Taking
<1>2. mark = NoMark /\ Bare(r) /\ Routed(r)
  BY DEF InVersion
<1>3. PICK x \in Seq(Symbol) : x = FromLine(r, 1, l)
  <2>1. 1 \in 1..(Len(r.fields) + 1)
    <3>1. r.fields \in Seq(FieldKinds)
      BY RequestParts
    <3> QED
      BY <3>1
  <2> QED
    BY <2>1, LineTail
<1>4. CASE Takes({"http_end"}, {"CR"}) /\ Goes("line_almost_done")
  <2>1. parser.state = "http_end" /\ ch = "CR"
    BY <1>4, Taking
  <2>2. parser.version = r.version /\ Coming = r.eol \o x
    BY <1>3, <2>1 DEF InVersion
  <2>3. Coming' = <<"LF">> \o FromLine(r, 1, l)
    <3>1. Begins(Coming, "CR", <<"LF">> \o x) \/ Begins(Coming, "LF", x)
      BY <2>2, EolBegins
    <3>2. Begins(Coming, "CR", <<"LF">> \o x)
      BY <2>1, <3>1, NextCome DEF Conn
    <3> QED
      BY <1>1, <1>3, <3>2, NextCome DEF Conn
  <2>4. Moves(parser, parser', "line_almost_done", parser.header_state, parser.flags,
              parser.content_length)
    BY <1>4, ParserMoves DEF Goes, Conn, IsParser
  <2>5. /\ mark' = NoMark /\ IsMark(mark') /\ Bare(r)' /\ Routed(r)' /\ req' = req
        /\ UNCHANGED <<url_start_mark, socket, answers, handled>>
    BY <1>0, <1>2, <2>4, StillRouted DEF Moves
  <2>6. InVersion(r, l)'
    BY <2>2, <2>3, <2>4, <2>5 DEF InVersion, Moves
  <2>7. InRequest(r, l)'
    BY <2>6 DEF InRequest
  <2> QED
    BY <1>1, <2>4, <2>5, <2>7 DEF Conn, Quiet, Moves
<1>5. CASE Takes({"http_end", "line_almost_done"}, {"LF"}) /\ Goes("header_field_start")
  <2>1. parser.state \in {"http_end", "line_almost_done"} /\ ch = "LF"
    BY <1>5, Taking
  <2>2. parser.version = r.version /\ (Coming = r.eol \o x \/ Coming = <<"LF">> \o x)
    BY <1>3, <2>1 DEF InVersion
  <2>3. Coming' = FromLine(r, 1, l)
    <3>1. Begins(Coming, "CR", <<"LF">> \o x) \/ Begins(Coming, "LF", x)
      BY <2>2, EolBegins
    <3>2. Begins(Coming, "LF", x)
      BY <2>1, <3>1, NextCome DEF Conn
    <3> QED
      BY <1>1, <1>3, <3>2, NextCome DEF Conn
  <2>4. Moves(parser, parser', "header_field_start", parser.header_state, parser.flags,
              parser.content_length)
    BY <1>5, ParserMoves DEF Goes, Conn, IsParser
  <2>5. /\ mark' = NoMark /\ IsMark(mark') /\ Bare(r)' /\ Routed(r)' /\ req' = req
        /\ Delivered' = req'
        /\ UNCHANGED <<url_start_mark, socket, answers, handled>>
    BY <1>0, <1>2, <2>4, StillRouted DEF Moves
  <2>6. InHeaders(r)'
    BY <1>2, <2>2, <2>4, <2>5 DEF InHeaders, Moves, Bare
  <2>7. BeforeFields(r, l)'
    BY <2>3, <2>4, <2>5, <2>6 DEF BeforeFields, Moves
  <2>8. InRequest(r, l)'
    BY <2>7 DEF InRequest
  <2> QED
    BY <1>1, <2>4, <2>5, <2>8 DEF Conn, Quiet, Moves
<1> QED
  BY <1>4, <1>5 DEF LineEnds

\* The fields up to one are those before it, and it.
LEMMA MarkedNext ==
    ASSUME NEW r, IsRequest(r), NEW j \in 1..Len(r.fields), NEW g
    PROVE  /\ Marked(r, j, g) <=> Marked(r, j - 1, g) \/ r.fields[j] = g
           /\ \A m \in 1..j : m \in 1..(j - 1) \/ m = j
           /\ \A m \in 1..(j - 1) : m \in 1..j
<1>1. j \in Nat
  <2>1. r.fields \in Seq(FieldKinds)
    BY RequestParts
  <2> QED
    BY <2>1
<1> QED
  BY <1>1 DEF Marked

\* Of no fields none is any.
LEMMA NoneMarked == ASSUME NEW r, NEW g PROVE ~Marked(r, 0, g)
BY DEF Marked

\* A name is complete, and the flag set that it means.
LEMMA NameFlag ==
    ASSUME NEW r, IsRequest(r), NEW j \in 1..Len(r.fields), NEW p, NEW q,
           FlagsInv(p, r, j - 1, j - 1, j - 1),
           q.flags = IF r.fields[j] = "chunked" THEN p.flags \cup {"transfer_encoding"}
                     ELSE p.flags
    PROVE  FlagsInv(q, r, j, j - 1, j - 1)
<1>1. Marked(r, j, "chunked") <=> Marked(r, j - 1, "chunked") \/ r.fields[j] = "chunked"
  BY MarkedNext
<1>2. \A g : g # "transfer_encoding" => (g \in q.flags <=> g \in p.flags)
  OBVIOUS
<1>3. "transfer_encoding" \in q.flags <=>
        "transfer_encoding" \in p.flags \/ r.fields[j] = "chunked"
  OBVIOUS
<1> QED
  BY <1>1, <1>2, <1>3 DEF FlagsInv

\* What the first symbol of a value says is known.
LEMMA NumFlag ==
    ASSUME NEW r, IsRequest(r), NEW j \in 1..Len(r.fields), NEW p, NEW q,
           FlagsInv(p, r, j, j - 1, j - 1),
           r.fields[j] = "length" =>
             "content_length" \notin p.flags /\ q.flags = p.flags \cup {"content_length"},
           r.fields[j] = "upgrade" => q.flags = p.flags \cup {"upgrade"},
           r.fields[j] = "h2" => q.flags = p.flags \cup {"upgrade"} \/ q.flags = p.flags,
           r.fields[j] \notin {"length", "upgrade", "h2"} => q.flags = p.flags
    PROVE  FlagsInv(q, r, j, j, j - 1)
<1>1. /\ Marked(r, j, "length") <=> Marked(r, j - 1, "length") \/ r.fields[j] = "length"
      /\ Marked(r, j, "upgrade") <=> Marked(r, j - 1, "upgrade") \/ r.fields[j] = "upgrade"
      /\ Marked(r, j, "h2") <=> Marked(r, j - 1, "h2") \/ r.fields[j] = "h2"
  BY MarkedNext
<1>2. \A g : g \notin {"content_length", "upgrade"} => (g \in q.flags <=> g \in p.flags)
  OBVIOUS
<1>3. "content_length" \in q.flags <=> "content_length" \in p.flags \/ r.fields[j] = "length"
  OBVIOUS
<1>4. /\ "upgrade" \in p.flags \/ r.fields[j] = "upgrade" => "upgrade" \in q.flags
      /\ "upgrade" \in q.flags => "upgrade" \in p.flags \/ r.fields[j] \in {"upgrade", "h2"}
  OBVIOUS
<1>5. \A m, n \in 1..j : r.fields[m] = "length" /\ r.fields[n] = "length" => m = n
  <2>1. \A m, n \in 1..(j - 1) : r.fields[m] = "length" /\ r.fields[n] = "length" => m = n
    BY DEF FlagsInv
  <2>2. r.fields[j] = "length" => \A m \in 1..(j - 1) : r.fields[m] # "length"
    BY DEF FlagsInv, Marked
  <2> QED
    BY <2>1, <2>2, MarkedNext
<1>6. /\ "trailing" \notin q.flags
      /\ "transfer_encoding" \in q.flags <=> Marked(r, j, "chunked")
      /\ "chunked" \in q.flags <=> Marked(r, j - 1, "chunked")
  BY <1>2 DEF FlagsInv
<1>7. "content_length" \in q.flags <=> Marked(r, j, "length")
  BY <1>1, <1>3 DEF FlagsInv
<1>8. /\ Marked(r, j, "upgrade") => "upgrade" \in q.flags
      /\ "upgrade" \in q.flags => Marked(r, j, "upgrade") \/ Marked(r, j, "h2")
  BY <1>1, <1>4 DEF FlagsInv
<1> QED
  BY <1>5, <1>6, <1>7, <1>8 DEF FlagsInv

\* A line is complete, and the flag set that its value means.
LEMMA ValueFlag ==
    ASSUME NEW r, IsRequest(r), NEW j \in 1..Len(r.fields), NEW p, NEW q,
           FlagsInv(p, r, j, j, j - 1),
           r.fields[j] = "chunked" => q.flags = p.flags \cup {"chunked"},
           r.fields[j] = "close" => q.flags = p.flags \cup {"close"},
           r.fields[j] = "keep" => q.flags = p.flags \cup {"keep_alive"},
           r.fields[j] \notin {"chunked", "close", "keep"} => q.flags = p.flags
    PROVE  FlagsInv(q, r, j, j, j)
<1>1. Marked(r, j, "chunked") <=> Marked(r, j - 1, "chunked") \/ r.fields[j] = "chunked"
  BY MarkedNext
<1>2. \A g : g \notin {"chunked", "close", "keep_alive"} => (g \in q.flags <=> g \in p.flags)
  OBVIOUS
<1>3. "chunked" \in q.flags <=> "chunked" \in p.flags \/ r.fields[j] = "chunked"
  OBVIOUS
<1> QED
  BY <1>1, <1>2, <1>3 DEF FlagsInv

\* A line that says nothing of the length leaves what is known of it.
LEMMA LengthNext ==
    ASSUME NEW r, IsRequest(r), NEW j \in 1..Len(r.fields), NEW p, NEW q,
           IF r.fields[j] = "length" THEN q.content_length = Len(r.body)
           ELSE LengthInv(p, r, j - 1) /\ q.content_length = p.content_length
    PROVE  LengthInv(q, r, j)
BY MarkedNext DEF LengthInv

-----------------------------------------------------------------------------
\* A field is told with its value; one with an empty value may be left out.
LEMMA ToldMore ==
    ASSUME NEW r, IsRequest(r), NEW j \in 1..Len(r.fields), NEW h, Told(h, r, j - 1)
    PROVE  /\ Told(Put(h, NameText(r.fields[j]), ValueSaid(r, r.fields[j])), r, j)
           /\ r.fields[j] = "blank" => Told(h, r, j)
<1> DEFINE n == NameText(r.fields[j])
           v == ValueSaid(r, r.fields[j])
           g == Put(h, n, v)
<1>1. DOMAIN g = DOMAIN h \cup {n} /\ g[n] = v /\ \A m \in DOMAIN h : m # n => g[m] = h[m]
  BY DEF Put
<1>2. /\ \A m \in 1..j : m \in 1..(j - 1) \/ m = j
      /\ \A m \in 1..(j - 1) : m \in 1..j
  BY MarkedNext
<1>3. /\ \A m \in 1..(j - 1) : r.fields[m] # "blank" => NameText(r.fields[m]) \in DOMAIN h
      /\ \A x \in DOMAIN h : \E m \in 1..(j - 1) :
           NameText(r.fields[m]) = x /\ h[x] = ValueSaid(r, r.fields[m])
  BY DEF Told
<1>4. \A m \in 1..j : r.fields[m] # "blank" => NameText(r.fields[m]) \in DOMAIN g
  <2> TAKE m \in 1..j
  <2>1. CASE m = j
    BY <1>1, <2>1
  <2>2. CASE m \in 1..(j - 1)
    BY <1>1, <1>3, <2>2
  <2> QED
    BY <1>2, <2>1, <2>2
<1>5. \A x \in DOMAIN g : \E m \in 1..j :
        NameText(r.fields[m]) = x /\ g[x] = ValueSaid(r, r.fields[m])
  <2> TAKE x \in DOMAIN g
  <2>1. CASE x = n
    BY <1>1, <2>1
  <2>2. CASE x # n
    <3>1. x \in DOMAIN h /\ g[x] = h[x]
      BY <1>1, <2>2
    <3>2. PICK m \in 1..(j - 1) : NameText(r.fields[m]) = x /\ h[x] = ValueSaid(r, r.fields[m])
      BY <1>3, <3>1
    <3> QED
      BY <1>2, <3>1, <3>2
  <2> QED
    BY <2>1, <2>2
<1>6. Told(g, r, j)
  BY <1>4, <1>5, Zenon DEF Told
<1>7. r.fields[j] = "blank" => Told(h, r, j)
  <2>1. \A x \in DOMAIN h : \E m \in 1..j :
          NameText(r.fields[m]) = x /\ h[x] = ValueSaid(r, r.fields[m])
    BY <1>2, <1>3, Zenon
  <2>2. r.fields[j] = "blank" =>
          \A m \in 1..j : r.fields[m] # "blank" => NameText(r.fields[m]) \in DOMAIN h
    BY <1>2, <1>3, Zenon
  <2> QED
    BY <2>1, <2>2, Zenon DEF Told
<1> QED
  BY <1>6, <1>7, Zenon

\* Of no fields nothing is told.
LEMMA NoneTold == ASSUME NEW h, NEW r, DOMAIN h = {} PROVE Told(h, r, 0)
BY DEF Told
-----------------------------------------------------------------------------
\* The symbols of a value, and of a name.
LEMMA ValueSymbols ==
    ASSUME NEW r, NEW f \in FieldKinds
    PROVE  /\ f \in {"host", "upgrade", "expect"} => Len(ValueSaid(r, f)) = 1
           /\ f \in {"h2", "close", "keep", "length", "chunked"} => Len(ValueSaid(r, f)) = 2
           /\ f = "folded" => Len(ValueSaid(r, f)) = 3
           /\ f = "blank" => Len(ValueSaid(r, f)) = 0
           /\ f \in {"host", "folded"} => ValueSaid(r, f)[1] = "here"
           /\ f = "folded" => ValueSaid(r, f)[2] = " " /\ ValueSaid(r, f)[3] = "there"
           /\ f = "upgrade" => ValueSaid(r, f)[1] = "websocket"
           /\ f = "h2" => ValueSaid(r, f)[1] = "h" /\ ValueSaid(r, f)[2] = "2"
           /\ f = "close" => ValueSaid(r, f)[1] = "clo" /\ ValueSaid(r, f)[2] = "se"
           /\ f = "keep" => ValueSaid(r, f)[1] = "keep-" /\ ValueSaid(r, f)[2] = "alive"
           /\ f = "expect" => ValueSaid(r, f)[1] = "100-continue"
           /\ f = "length" => /\ ValueSaid(r, f)[1] = Digits(Len(r.body) \div 10)
                              /\ ValueSaid(r, f)[2] = Digits(Len(r.body) % 10)
           /\ f = "chunked" => ValueSaid(r, f)[1] = "chun" /\ ValueSaid(r, f)[2] = "ked"
<1>2. PICK a : a = Digits(Len(r.body) \div 10)
  OBVIOUS
<1>3. PICK b : b = Digits(Len(r.body) % 10)
  OBVIOUS
<1>4. f = "length" => ValueSaid(r, f) = <<a, b>>
  BY <1>2, <1>3, ValueIs
<1>5. CASE f = "host"
  <2>1. ValueSaid(r, f) = <<"here">>
    BY <1>5, ValueIs
  <2> QED
    BY <1>5, <2>1
<1>6. CASE f = "folded"
  <2>1. ValueSaid(r, f) = <<"here", " ", "there">>
    BY <1>6, ValueIs
  <2>2. PICK t : t = <<"here", " ", "there">>
    OBVIOUS
  <2>3. Len(t) = 3 /\ t[1] = "here" /\ t[2] = " " /\ t[3] = "there"
    BY <2>2
  <2>4. Len(ValueSaid(r, f)) = 3 /\ ValueSaid(r, f)[1] = "here" /\ ValueSaid(r, f)[2] = " "
        /\ ValueSaid(r, f)[3] = "there"
    BY <2>1, <2>2, <2>3, Zenon
  <2> QED
    BY <1>6, <2>4
<1>7. CASE f = "upgrade"
  <2>1. ValueSaid(r, f) = <<"websocket">>
    BY <1>7, ValueIs
  <2> QED
    BY <1>7, <2>1
<1>8. CASE f = "h2"
  <2>1. ValueSaid(r, f) = <<"h", "2">>
    BY <1>8, ValueIs
  <2> QED
    BY <1>8, <2>1
<1>9. CASE f = "close"
  <2>1. ValueSaid(r, f) = <<"clo", "se">>
    BY <1>9, ValueIs
  <2> QED
    BY <1>9, <2>1
<1>10. CASE f = "keep"
  <2>1. ValueSaid(r, f) = <<"keep-", "alive">>
    BY <1>10, ValueIs
  <2> QED
    BY <1>10, <2>1
<1>11. CASE f = "expect"
  <2>1. ValueSaid(r, f) = <<"100-continue">>
    BY <1>11, ValueIs
  <2> QED
    BY <1>11, <2>1
<1>12. CASE f = "chunked"
  <2>1. ValueSaid(r, f) = <<"chun", "ked">>
    BY <1>12, ValueIs
  <2> QED
    BY <1>12, <2>1
<1>13. CASE f = "length"
  <2>1. ValueSaid(r, f) = <<a, b>>
    BY <1>13, <1>4
  <2>2. Len(ValueSaid(r, f)) = 2 /\ ValueSaid(r, f)[1] = a /\ ValueSaid(r, f)[2] = b
    BY <2>1
  <2> QED
    BY <1>13, <2>2, <1>2, <1>3
<1>14. CASE f = "blank"
  <2>1. ValueSaid(r, f) = <<>>
    BY <1>14, ValueIs
  <2> QED
    BY <1>14, <2>1
<1> QED
  BY <1>5, <1>6, <1>7, <1>8, <1>9, <1>10, <1>11, <1>12, <1>13, <1>14 DEF FieldKinds

\* Those of a name lead the parser to what the name means.
LEMMA NameSymbols ==
    ASSUME NEW f \in FieldKinds
    PROVE  /\ f \in {"host", "folded"} => NameText(f)[1] = "Host"
           /\ f \in {"upgrade", "h2"} => NameText(f)[1] = "Up" /\ NameText(f)[2] = "grade"
           /\ f \in {"close", "keep"} => NameText(f)[1] = "Conn" /\ NameText(f)[2] = "ection"
           /\ f = "expect" => NameText(f)[1] = "Expect"
           /\ f = "length" => NameText(f)[1] = "Content-" /\ NameText(f)[2] = "Length"
           /\ f = "chunked" => NameText(f)[1] = "Transfer-" /\ NameText(f)[2] = "Encoding"
           /\ f = "blank" => NameText(f)[1] = "Other"
           /\ f \in {"host", "folded", "expect", "blank"} => Len(NameText(f)) = 1
           /\ f \notin {"host", "folded", "expect", "blank"} => Len(NameText(f)) = 2
           /\ NameText(f)[1] \in DOMAIN Name
           /\ f \in {"host", "folded", "expect", "blank"} => Name[NameText(f)[1]] = "general"
           /\ f \notin {"host", "folded", "expect", "blank"} =>
                /\ Name[NameText(f)[1]] \in DOMAIN Rest /\ Rest[Name[NameText(f)[1]]] = Known(f)
                /\ NameText(f)[2] \in {"grade", "ection", "Length", "Encoding"}
<1>1. ASSUME NEW a, NEW b, NEW c
      PROVE  /\ Len(<<a>>) = 1 /\ <<a>>[1] = a /\ Len(<<a, b>>) = 2 /\ <<a, b>>[1] = a
             /\ <<a, b>>[2] = b
  OBVIOUS
<1>2. /\ DOMAIN Name = {"Up", "Conn", "Content-", "Transfer-", "Host", "Other", "Expect"}
      /\ Name["Up"] = "matching_upgrade" /\ Name["Conn"] = "matching_connection"
      /\ Name["Content-"] = "matching_content_length" /\ Name["Host"] = "general"
      /\ Name["Transfer-"] = "matching_transfer_encoding" /\ Name["Other"] = "general"
      /\ Name["Expect"] = "general"
  BY DEF Name
<1>3. /\ DOMAIN Rest = {"matching_upgrade", "matching_connection", "matching_content_length",
                        "matching_transfer_encoding"}
      /\ Rest["matching_upgrade"] = "upgrade" /\ Rest["matching_connection"] = "connection"
      /\ Rest["matching_content_length"] = "content_length"
      /\ Rest["matching_transfer_encoding"] = "transfer_encoding"
  BY DEF Rest
<1>4. CASE f \in {"host", "folded"}
  BY <1>4, <1>1, <1>2 DEF NameText
<1>5. CASE f \in {"expect", "blank"}
  BY <1>5, <1>1, <1>2 DEF NameText
<1>6. CASE f \in {"upgrade", "h2"}
  BY <1>6, <1>1, <1>2, <1>3 DEF NameText, Known
<1>7. CASE f \in {"close", "keep"}
  BY <1>7, <1>1, <1>2, <1>3 DEF NameText, Known
<1>8. CASE f = "length"
  BY <1>8, <1>1, <1>2, <1>3 DEF NameText, Known
<1>9. CASE f = "chunked"
  BY <1>9, <1>1, <1>2, <1>3 DEF NameText, Known
<1> QED
  BY <1>4, <1>5, <1>6, <1>7, <1>8, <1>9 DEF FieldKinds

\* The headers of q with the field it is building: a new field's start leaves out an empty
\* value, the headers' end an empty field.
AllTold(q, r, j) ==
    /\ Told(IF q.value # <<>> THEN Put(q.headers, q.field, q.value) ELSE q.headers, r, j)
    /\ Told(IF q.field # <<>> THEN Put(q.headers, q.field, q.value) ELSE q.headers, r, j)

\* Between two lines of the headers: field j comes next, or their end.
AtLine(r, j, l) ==
    /\ parser.state \in LineStart /\ mark = NoMark /\ Coming = FromLine(r, j, l)
    /\ InHeaders(r) /\ j \in 1..(Len(r.fields) + 1)
    /\ FlagsInv(CompletedLine, r, j - 1, j - 1, j - 1) /\ LengthInv(CompletedLine, r, j - 1)
    /\ Moves(parser, CompletedLine, parser.state, parser.header_state, CompletedLine.flags,
             parser.content_length)
    /\ SameLine(req, CompletedField) /\ CompletedField.building = 0
    /\ AllTold(CompletedField, r, j - 1)

\* With no mark nothing is handed over.
LEMMA NothingMarked ==
    ASSUME Conn, mark = NoMark PROVE Delivered = req
<1>1. DeliveryIs(mark, req, Delivered)
  BY DeliveredIs DEF Conn
<1> QED
  BY <1>1, NoMarkIs DEF DeliveryIs

\* Behind the request line the first line of the headers starts.
LEMMA FirstLine ==
    ASSUME Conn, NEW r, IsRequest(r), NEW l \in Seq(Symbol), BeforeFields(r, l)
    PROVE  AtLine(r, 1, l)
<1>1. parser.state = "header_field_start" /\ mark = NoMark /\ Bare(r) /\ InHeaders(r)
      /\ Coming = FromLine(r, 1, l)
  BY Zenon DEF BeforeFields
<1>2. CompletedLine = parser /\ CompletedField = req
  BY <1>1 DEF CompletedLine, CompletedField
<1>3. 1 \in 1..(Len(r.fields) + 1)
  <2>1. r.fields \in Seq(FieldKinds)
    BY RequestParts
  <2> QED
    BY <2>1
<1>4. /\ ~Marked(r, 0, "chunked") /\ ~Marked(r, 0, "length") /\ ~Marked(r, 0, "upgrade")
      /\ ~Marked(r, 0, "h2")
  BY NoneMarked
<1>5. parser.flags = {} /\ parser.content_length = Unset
  BY <1>1 DEF Bare
<1>6. FlagsInv(parser, r, 0, 0, 0)
  BY <1>4, <1>5 DEF FlagsInv
<1>7. LengthInv(parser, r, 0)
  BY <1>4, <1>5 DEF LengthInv
<1>8. AllTold(req, r, 0) /\ req.building = 0
  BY <1>1, NoneTold DEF Bare, AllTold
<1>9. Moves(parser, parser, parser.state, parser.header_state, parser.flags,
            parser.content_length)
  BY DEF Conn, Moves
<1>10. SameLine(req, req)
  BY DEF Conn, SameLine
<1>11. PICK z : z = 1 - 1 /\ z = 0
  OBVIOUS
<1>12. /\ FlagsInv(parser, r, z, z, z) /\ LengthInv(parser, r, z) /\ AllTold(req, r, z)
  BY <1>6, <1>7, <1>8, <1>11, Zenon
<1>13. parser.state \in LineStart
  BY <1>1 DEF LineStart
<1> QED
  BY <1>1, <1>2, <1>3, <1>8, <1>9, <1>10, <1>11, <1>12, <1>13, Zenon DEF AtLine

\* A name is not empty.
LEMMA NameThere == ASSUME NEW f \in FieldKinds PROVE NameText(f) # <<>>
<1>1. PICK t \in Seq(Symbol) : t = NameText(f) /\ Len(t) \in 1..2
  BY NameTyped
<1>2. t # <<>>
  BY <1>1
<1> QED
  BY <1>1, <1>2, Zenon

\* How long a value is.
LEMMA ValuePlace ==
    ASSUME NEW r, IsRequest(r), NEW f \in FieldKinds
    PROVE  \E n \in Nat : n = Len(ValueSaid(r, f)) /\ n <= 3
<1>1. PICK t \in Seq(Symbol) : t = ValueSaid(r, f)
  BY ValueTyped
<1>2. Len(t) \in 0..3
  BY <1>1, ValueTyped, Zenon
<1>3. PICK n \in 0..3 : n = Len(t)
  BY <1>2
<1>4. n \in Nat /\ n <= 3
  OBVIOUS
<1> QED
  BY <1>1, <1>3, <1>4, Zenon

\* A whole field held is told, whichever way it is put.
LEMMA HeldIsTold ==
    ASSUME Conn, NEW r, IsRequest(r), NEW j \in 1..Len(r.fields), NEW q,
           Told(q.headers, r, j - 1), q.field = NameText(r.fields[j]),
           q.value = ValueSaid(r, r.fields[j])
    PROVE  AllTold(q, r, j)
<1>1. PICK f \in FieldKinds : f = r.fields[j]
  BY LinesTyped
<1>2. NameText(f) \in Seq(Symbol) /\ Len(NameText(f)) \in 1..2
  BY NameTyped
<1>3. NameText(f) # <<>>
  BY NameThere
<1>4. IF f = "blank" THEN ValueSaid(r, f) = <<>> ELSE ValueSaid(r, f) # <<>>
  BY ValueTyped
<1>5. Told(Put(q.headers, q.field, q.value), r, j)
      /\ (f = "blank" => Told(q.headers, r, j))
  BY <1>1, ToldMore, Zenon
<1> QED
  BY <1>1, <1>3, <1>4, <1>5, Zenon DEF AllTold

\* The line behind a field.
LEMMA NextLine ==
    ASSUME NEW r, IsRequest(r), NEW j \in 1..Len(r.fields)
    PROVE  j + 1 \in 1..(Len(r.fields) + 1) /\ (j + 1) - 1 = j /\ j \in Nat
<1>1. r.fields \in Seq(FieldKinds)
  BY RequestParts
<1> QED
  BY <1>1

\* Behind a field with no value.
LEMMA BlankLine ==
    ASSUME Conn, NEW r, IsRequest(r), NEW l \in Seq(Symbol), AtSpace(r, l),
           parser.state = "discard_lws"
    PROVE  \E j \in 1..(Len(r.fields) + 1) : AtLine(r, j, l)
<1>1. mark = NoMark /\ InHeaders(r)
  BY Zenon DEF AtSpace
<1>2. PICK j \in 1..Len(r.fields) :
        /\ Holds(req, r, j, Len(NameText(r.fields[j])), 0) /\ req.building = 1
        /\ FlagsInv(parser, r, j, j - 1, j - 1) /\ LengthInv(parser, r, j - 1)
        /\ r.fields[j] = "blank" /\ Coming = FromLine(r, j + 1, l)
  BY DEF AtSpace
<1>3. CompletedLine = parser /\ CompletedField = WithValue(req, <<>>)
  BY DEF CompletedLine, CompletedField
<1>4. r.fields[j] \in FieldKinds
  BY LinesTyped
<1>5. PICK q : q = CompletedField
  OBVIOUS
<1>6. SameLine(req, q) /\ Building(q, req.headers, req.field, <<>>, 0)
  <2>1. IsReq(req) /\ <<>> \in Seq(Symbol)
    BY SymbolTexts DEF Conn
  <2>2. q = WithValue(req, <<>>) /\ req.building # 0
    BY <1>2, <1>3, <1>5
  <2> QED
    BY <2>1, <2>2, ValueTaken, Zenon
<1>7. NameText(r.fields[j]) \in Seq(Symbol) /\ ValueSaid(r, r.fields[j]) = <<>>
  BY <1>2, <1>4, NameTyped, ValueTyped
<1>8. AllTold(q, r, j)
  <2>1. q.field = NameText(r.fields[j])
    BY <1>2, <1>6, <1>7, UptoAll DEF Holds, Building
  <2>2. Told(q.headers, r, j - 1)
    BY <1>2, <1>6, Zenon DEF Holds, Building
  <2>3. q.value = ValueSaid(r, r.fields[j])
    BY <1>6, <1>7, Zenon DEF Building
  <2> QED
    BY <2>1, <2>2, <2>3, HeldIsTold
<1>9. FlagsInv(parser, r, j, j, j)
  <2>1. FlagsInv(parser, r, j, j, j - 1)
    BY <1>2, NumFlag
  <2> QED
    BY <1>2, <2>1, ValueFlag
<1>10. LengthInv(parser, r, j)
  BY <1>2, LengthNext
<1>11. Moves(parser, parser, parser.state, parser.header_state, parser.flags,
             parser.content_length)
  BY DEF Conn, Moves
<1>12. PICK i : i = j + 1 /\ i \in 1..(Len(r.fields) + 1) /\ i - 1 = j
  BY NextLine
<1>13. /\ FlagsInv(parser, r, i - 1, i - 1, i - 1) /\ LengthInv(parser, r, i - 1)
       /\ AllTold(q, r, i - 1)
  BY <1>8, <1>9, <1>10, <1>12, Zenon
<1>14. parser.state \in LineStart /\ q.building = 0
  BY <1>6 DEF LineStart, Building
<1>15. AtLine(r, i, l)
  BY <1>1, <1>2, <1>3, <1>5, <1>6, <1>11, <1>12, <1>13, <1>14, Zenon DEF AtLine
<1> QED
  BY <1>12, <1>15, Zenon

\* A space comes.
Space == ch = " "

\* Behind a value that is not folded here.
LEMMA ValueLine ==
    ASSUME Conn, NEW r, IsRequest(r), NEW l \in Seq(Symbol), InValue(r, l),
           parser.state = "header_value_lws", ~Space
    PROVE  \E j \in 1..(Len(r.fields) + 1) : AtLine(r, j, l)
<1>1. InHeaders(r)
  BY Zenon DEF InValue
<1>31. PICK m \in Nat : m = Len(r.fields)
  <2>1. r.fields \in Seq(FieldKinds)
    BY RequestParts
  <2> QED
    BY <2>1
<1>2. PICK j \in 1..m : \E k \in 1..Len(ValueSaid(r, r.fields[j])) :
        /\ Holds(Delivered, r, j, Len(NameText(r.fields[j])), k) /\ Delivered.building = 0
        /\ FlagsInv(parser, r, j, j, j - 1)
        /\ IF r.fields[j] = "length" /\ k = 1 THEN parser.content_length = Len(r.body) \div 10
           ELSE LengthInv(parser, r, j)
        /\ parser.header_state = Read(r.fields[j], k)
        /\ mark = NoMark /\ (k = Len(ValueSaid(r, r.fields[j])) \/ Folds(r.fields[j], k))
        /\ Coming = FromNext(r, j, k, l)
  BY <1>31 DEF InValue, Folds
<1>32. j \in 1..Len(r.fields)
  BY <1>31, Zenon
<1>3. PICK f \in FieldKinds : f = r.fields[j]
  BY <1>32, LinesTyped
<1>30. PICK n \in Nat : n = Len(ValueSaid(r, f)) /\ n <= 3
  BY ValuePlace
<1>4. PICK k \in 1..n :
        /\ Holds(Delivered, r, j, Len(NameText(f)), k) /\ Delivered.building = 0
        /\ FlagsInv(parser, r, j, j, j - 1)
        /\ IF f = "length" /\ k = 1 THEN parser.content_length = Len(r.body) \div 10
           ELSE LengthInv(parser, r, j)
        /\ parser.header_state = Read(f, k)
        /\ mark = NoMark /\ (k = n \/ Folds(f, k))
        /\ Coming = FromNext(r, j, k, l)
  BY <1>2, <1>3, <1>30, Zenon
<1>5. ~Folds(f, k)
  <2>1. SUFFICES ASSUME Folds(f, k) PROVE FALSE
    OBVIOUS
  <2>2. f = "folded" /\ k = 1
    BY <2>1 DEF Folds
  <2>3. Begins(Coming, " ", FromValue(r, j, 2, l))
    BY <1>32, <1>3, <1>4, <2>2, ValueComes, Zenon
  <2> QED
    BY <2>3, NextCome, Zenon DEF Conn, Space
<1>6. k = Len(ValueSaid(r, f)) /\ k \in Nat
  <2>1. k = n /\ k \in Nat
    BY <1>4, <1>5
  <2> QED
    BY <1>30, <2>1, Zenon
<1>7. Coming = FromLine(r, j + 1, l)
  BY <1>32, <1>3, <1>4, <1>5, <1>6, ValueComes, Zenon
<1>8. Delivered = req /\ CompletedField = req
  BY <1>4, NothingMarked DEF CompletedField
<1>9. AllTold(req, r, j)
  <2>1. NameText(f) \in Seq(Symbol) /\ ValueSaid(r, f) \in Seq(Symbol)
    BY NameTyped, ValueTyped
  <2>2. /\ Told(req.headers, r, j - 1) /\ req.field = NameText(f) /\ req.value = ValueSaid(r, f)
    <3>1. /\ Told(req.headers, r, j - 1) /\ req.field = Upto(NameText(f), Len(NameText(f)))
          /\ req.value = Upto(ValueSaid(r, f), Len(ValueSaid(r, f)))
      BY <1>3, <1>4, <1>6, <1>8, Zenon DEF Holds
    <3> QED
      BY <2>1, <3>1, UptoAll
  <2> QED
    BY <1>32, <1>3, <2>2, HeldIsTold
<1>10. f # "length" \/ k = 2
  BY <1>6, ValueSymbols, Zenon
<1>11. LengthInv(parser, r, j)
  <2>1. k = 2 => k # 1
    OBVIOUS
  <2>2. ~(f = "length" /\ k = 1)
    BY <1>10, <2>1, Zenon
  <2> QED
    BY <1>4, <2>2, Zenon
<1>12. CompletedLine = Flagged(parser)
  BY DEF CompletedLine
<1>13. PICK p : p = CompletedLine
  OBVIOUS
<1>14. PICK g : g = IF parser.header_state \in {"chunked", "close", "keep_alive"}
                    THEN parser.flags \cup {parser.header_state} ELSE parser.flags
  OBVIOUS
<1>15. p = [parser EXCEPT !.flags = g]
  BY <1>12, <1>13, <1>14, Zenon DEF Flagged
<1>16. Moves(parser, p, parser.state, parser.header_state, g, parser.content_length)
  <2>0. 0 \in Int
    OBVIOUS
  <2>1. IsParser(parser) /\ 0 \in Int
    BY <2>0, Zenon DEF Conn
  <2> QED
    BY <1>15, <2>1, ParserMoves
<1>17. p.flags = g /\ p.content_length = parser.content_length
  BY <1>16, Zenon DEF Moves
<1>18. /\ f = "chunked" => parser.header_state = "chunked"
       /\ f = "close" => parser.header_state = "close"
       /\ f = "keep" => parser.header_state = "keep_alive"
       /\ f \notin {"chunked", "close", "keep"} =>
            parser.header_state \in {"content_length_num", "general"}
  <2>1. f \in {"chunked", "close", "keep"} => k = 2
    BY <1>6, ValueSymbols
  <2>2. parser.header_state = Read(f, k)
    BY <1>4
  <2> QED
    BY <2>1, <2>2 DEF Read
<1>19. FlagsInv(p, r, j, j, j)
  <2>1. /\ f = "chunked" => p.flags = parser.flags \cup {"chunked"}
        /\ f = "close" => p.flags = parser.flags \cup {"close"}
        /\ f = "keep" => p.flags = parser.flags \cup {"keep_alive"}
        /\ f \notin {"chunked", "close", "keep"} => p.flags = parser.flags
    BY <1>14, <1>17, <1>18
  <2> QED
    BY <1>32, <1>3, <1>4, <2>1, ValueFlag
<1>20. LengthInv(p, r, j)
  BY <1>11, <1>17 DEF LengthInv
<1>21. PICK i : i = j + 1 /\ i \in 1..(Len(r.fields) + 1) /\ i - 1 = j
  BY <1>32, NextLine, Zenon
<1>22. /\ FlagsInv(p, r, i - 1, i - 1, i - 1) /\ LengthInv(p, r, i - 1)
       /\ AllTold(req, r, i - 1)
  BY <1>9, <1>19, <1>20, <1>21, Zenon
<1>23. parser.state \in LineStart /\ req.building = 0 /\ SameLine(req, req)
  BY <1>4, <1>8 DEF LineStart, Conn, SameLine
<1>24. AtLine(r, i, l)
  BY <1>1, <1>4, <1>7, <1>8, <1>13, <1>16, <1>17, <1>21, <1>22, <1>23, Zenon DEF AtLine
<1> QED
  BY <1>21, <1>24, Zenon

\* The request line and the body that are handed over stay.
SameHanded ==
    /\ Delivered'.raw_url = Delivered.raw_url /\ Delivered'.method = Delivered.method
    /\ Delivered'.body = Delivered.body

\* What holds throughout the headers goes on holding.
LEMMA HeadersGoOn ==
    ASSUME NEW r, InHeaders(r), SameHanded, found' = found, code' = code,
           parser'.version = parser.version
    PROVE  InHeaders(r)'
<1>1. Judged(r, code)'
  BY DEF InHeaders, Routed, Judged
<1> QED
  BY <1>1 DEF InHeaders, Routed, SameHanded

\* The first URL of the read lies behind.
LEMMA MarkStays ==
    ASSUME Conn, url_start_mark' = url_start_mark, at' = at + 1
    PROVE  url_start_mark' \in Nat /\ url_start_mark' <= at'
<1>1. at \in Nat /\ url_start_mark \in Nat /\ url_start_mark <= at
  BY DEF Conn
<1>2. \A a, b \in Nat : b <= a => b <= a + 1
  OBVIOUS
<1> QED
  BY <1>1, <1>2

\* The first symbol.
LEMMA UptoOne == ASSUME NEW S, NEW t \in Seq(S), t # <<>> PROVE Upto(t, 1) = <<t[1]>>
<1>1. PICK n \in Nat : n = Len(t) /\ n # 0
  OBVIOUS
<1>2. 1 <= n
  BY <1>1
<1>3. SubSeq(t, 1, 1) \in Seq(S) /\ Len(SubSeq(t, 1, 1)) = 1 /\ SubSeq(t, 1, 1)[1] = t[1]
  BY <1>1, <1>2
<1> QED
  BY <1>3, ShortText DEF Upto

\* What comes where a line may start.
LEMMA LineSymbols ==
    ASSUME NEW r, IsRequest(r), NEW l \in Seq(Symbol), NEW j \in 1..(Len(r.fields) + 1)
    PROVE  /\ j \in 1..Len(r.fields) =>
                /\ Begins(FromLine(r, j, l), NameText(r.fields[j])[1], FromName(r, j, 1, l))
                /\ NameText(r.fields[j])[1] \in DOMAIN Name
           /\ j \notin 1..Len(r.fields) =>
                /\ j - 1 = Len(r.fields)
                /\ \/ Begins(FromLine(r, j, l), "CR", <<"LF">> \o (BodyText(r) \o l))
                   \/ Begins(FromLine(r, j, l), "LF", BodyText(r) \o l)
<1>2. ASSUME j \in 1..Len(r.fields)
      PROVE  /\ Begins(FromLine(r, j, l), NameText(r.fields[j])[1], FromName(r, j, 1, l))
             /\ NameText(r.fields[j])[1] \in DOMAIN Name
  <2>1. PICK f \in FieldKinds : f = r.fields[j]
    BY <1>2, LinesTyped
  <2>2. 0 \in 0..(Len(NameText(f)) - 1)
    BY <2>1, NameSymbols
  <2>3. Begins(FromName(r, j, 0, l), NameText(f)[0 + 1], FromName(r, j, 0 + 1, l))
    BY <1>2, <2>1, <2>2, NameComes
  <2>4. 0 + 1 = 1
    OBVIOUS
  <2>5. FromLine(r, j, l) = FromName(r, j, 0, l)
    BY <1>2, LineBegins
  <2>6. NameText(f)[1] \in DOMAIN Name
    BY NameSymbols
  <2> QED
    BY <2>1, <2>3, <2>4, <2>5, <2>6, Zenon
<1>3. ASSUME j \notin 1..Len(r.fields)
      PROVE  /\ j - 1 = Len(r.fields)
             /\ \/ Begins(FromLine(r, j, l), "CR", <<"LF">> \o (BodyText(r) \o l))
                \/ Begins(FromLine(r, j, l), "LF", BodyText(r) \o l)
  <2>1. j - 1 = Len(r.fields) /\ j = Len(r.fields) + 1
    <3>1. r.fields \in Seq(FieldKinds)
      BY RequestParts
    <3> QED
      BY <1>3, <3>1
  <2>2. PICK x \in Seq(Symbol) : x = BodyText(r) \o l
    BY BodyIs
  <2>3. FromLine(r, j, l) = r.eol \o x
    BY <2>1, <2>2, AfterLines
  <2>4. Begins(FromLine(r, j, l), "CR", <<"LF">> \o x) \/ Begins(FromLine(r, j, l), "LF", x)
    BY <2>3, EolBegins
  <2> QED
    BY <2>1, <2>2, <2>4
<1> QED
  BY <1>2, <1>3

\* So at a line the parser has reached.
LEMMA LineComes ==
    ASSUME Conn, NEW r, IsRequest(r), NEW l \in Seq(Symbol), NEW j, AtLine(r, j, l)
    PROVE  /\ j \in 1..Len(r.fields) =>
                /\ Begins(Coming, NameText(r.fields[j])[1], FromName(r, j, 1, l))
                /\ NameText(r.fields[j])[1] \in DOMAIN Name
           /\ j \notin 1..Len(r.fields) =>
                /\ j - 1 = Len(r.fields)
                /\ \/ Begins(Coming, "CR", <<"LF">> \o (BodyText(r) \o l))
                   \/ Begins(Coming, "LF", BodyText(r) \o l)
<1>1. Coming = FromLine(r, j, l) /\ j \in 1..(Len(r.fields) + 1)
  BY Zenon DEF AtLine
<1> QED
  BY <1>1, LineSymbols

\* A line of the headers begins with a name.
LEMMA FieldStarts ==
    ASSUME Conn, NEW r, IsRequest(r), NEW l \in Seq(Symbol), NEW j, AtLine(r, j, l), FieldStart
    PROVE  Conn' /\ Quiet /\ InRequest(r, l)'
<1>1. /\ Takes(LineStart, DOMAIN Name)
      /\ parser' = [CompletedLine EXCEPT !.state = "header_field", !.header_state = Name[ch]]
      /\ req' = CompletedField /\ Marks("field")
      /\ UNCHANGED <<url_start_mark, found, code, socket, close_connection_, answers, handled>>
  BY DEF FieldStart
<1>2. requests' = requests /\ stream' = stream /\ at' = at + 1 /\ ch \in DOMAIN Name /\ ch \in Symbol
      /\ SentRequests' /\ stream' \in Seq(Symbol) /\ at' \in Nat
  BY <1>1, Taking
<1>3. /\ mark = NoMark /\ InHeaders(r) /\ j \in 1..(Len(r.fields) + 1)
      /\ FlagsInv(CompletedLine, r, j - 1, j - 1, j - 1) /\ LengthInv(CompletedLine, r, j - 1)
      /\ Moves(parser, CompletedLine, parser.state, parser.header_state, CompletedLine.flags,
               parser.content_length)
      /\ SameLine(req, CompletedField) /\ CompletedField.building = 0
      /\ AllTold(CompletedField, r, j - 1)
  BY Zenon DEF AtLine
<1>4. j \in 1..Len(r.fields)
  <2>1. SUFFICES ASSUME j \notin 1..Len(r.fields) PROVE FALSE
    OBVIOUS
  <2>2. ch \in {"CR", "LF"}
    <3>1. Begins(Coming, "CR", <<"LF">> \o (BodyText(r) \o l))
          \/ Begins(Coming, "LF", BodyText(r) \o l)
      BY <2>1, LineComes
    <3> QED
      BY <3>1, NextCome DEF Conn
  <2> QED
    BY <1>2, <2>2 DEF Name
<1>5. PICK f \in FieldKinds : f = r.fields[j]
  BY <1>4, LinesTyped
<1>6. ch = NameText(f)[1] /\ Coming' = FromName(r, j, 1, l)
  <2>1. Begins(Coming, NameText(f)[1], FromName(r, j, 1, l))
    BY <1>4, <1>5, LineComes
  <2> QED
    BY <1>2, <2>1, NextCome DEF Conn
<1>7. IsMark(mark') /\ mark'.of = "field" /\ mark'.text # <<>> /\ mark'.text = <<ch>>
  <2>1. mark.of # "field" /\ IsMark(mark)
    BY <1>3, NoMarkIs
  <2> QED
    BY <1>1, <1>2, <2>1, Marking
<1>8. IsReq(req') /\ req'.building = 0
  BY <1>1, <1>3 DEF SameLine
<1>9. /\ Delivered' = WithField(req', mark'.text) /\ SameLine(req', Delivered')
      /\ Building(Delivered', IF req'.value # <<>> THEN Put(req'.headers, req'.field, req'.value)
                              ELSE req'.headers, mark'.text, <<>>, 1)
  <2>1. DeliveryIs(mark', req', Delivered')
    BY <1>7, <1>8, DeliveredNext
  <2>2. Delivered' = WithField(req', mark'.text) /\ SameLine(req', Delivered')
    BY <1>7, <2>1 DEF DeliveryIs
  <2>3. mark'.text \in Seq(Symbol) /\ req'.building # 1
    BY <1>7, <1>8 DEF IsMark
  <2> QED
    BY <1>8, <2>2, <2>3, FieldTaken, Zenon
<1>10. Delivered = req
  BY <1>3, NothingMarked
<1>11. SameHanded
  BY <1>1, <1>3, <1>9, <1>10, Zenon DEF SameHanded, SameLine
<1>12. Moves(CompletedLine, parser', "header_field", Name[ch], CompletedLine.flags,
             CompletedLine.content_length)
  <2>1. IsParser(CompletedLine) /\ 0 \in Int
    BY <1>3 DEF Moves
  <2> QED
    BY <1>1, <2>1, ParserMoves
<1>13. parser'.version = parser.version
  BY <1>3, <1>12 DEF Moves
<1>14. InHeaders(r)'
  BY <1>1, <1>3, <1>11, <1>13, HeadersGoOn
<1>15. Holds(Delivered', r, j, 1, 0)
  <2>1. Told(Delivered'.headers, r, j - 1)
    BY <1>1, <1>3, <1>9, Zenon DEF AllTold, Building
  <2>2. Delivered'.field = Upto(NameText(f), 1)
    <3>1. PICK t \in Seq(Symbol) : t = NameText(f)
      BY NameTyped
    <3>2. t # <<>>
      BY <3>1, NameThere
    <3>3. Upto(t, 1) = <<t[1]>>
      BY <3>2, UptoOne
    <3> QED
      BY <1>6, <1>7, <1>9, <3>1, <3>3, Zenon DEF Building
  <2>3. Delivered'.value = Upto(ValueSaid(r, f), 0)
    <3>1. ValueSaid(r, f) \in Seq(Symbol)
      BY ValueTyped
    <3> QED
      BY <1>9, <3>1, UptoAll DEF Building
  <2> QED
    BY <1>5, <2>1, <2>2, <2>3, Zenon DEF Holds
<1>16. /\ parser'.state = "header_field" /\ parser'.flags = CompletedLine.flags
       /\ parser'.content_length = CompletedLine.content_length
       /\ parser'.header_state = Name[ch] /\ IsParser(parser')
  BY <1>12 DEF Moves
<1>17. FlagsInv(parser', r, j - 1, j - 1, j - 1) /\ LengthInv(parser', r, j - 1)
  BY <1>3, <1>16 DEF FlagsInv, LengthInv
<1>18. Len(NameText(f)) = 1 => f # "chunked" /\ Known(f) = "general" /\ Name[ch] = "general"
  BY <1>6, NameSymbols DEF Known
<1>19. FlagsInv(parser', r, IF 1 = Len(NameText(f)) THEN j ELSE j - 1, j - 1, j - 1)
  <2>1. Len(NameText(f)) = 1 => FlagsInv(parser', r, j, j - 1, j - 1)
    BY <1>4, <1>5, <1>17, <1>18, NameFlag
  <2> QED
    BY <1>17, <2>1
<1>20. parser'.header_state = IF 1 = Len(NameText(f)) THEN Known(f) ELSE Name[NameText(f)[1]]
  BY <1>6, <1>16, <1>18
<1>21. 1 \in 1..Len(NameText(f))
  <2>1. PICK n \in 1..2 : n = Len(NameText(f))
    BY NameTyped
  <2>2. 1 \in 1..n
    OBVIOUS
  <2> QED
    BY <2>1, <2>2, Zenon
<1>22. Delivered'.building = 1
  BY <1>9 DEF Building
<1>23. InName(r, l)'
  BY <1>4, <1>5, <1>6, <1>7, <1>14, <1>15, <1>16, <1>17, <1>19, <1>20, <1>21, <1>22, Zenon
     DEF InName
<1>24. InRequest(r, l)'
  BY <1>23 DEF InRequest
<1>25. url_start_mark' \in Nat /\ url_start_mark' <= at'
  BY <1>1, <1>2, MarkStays
<1>26. Conn'
  BY <1>2, <1>7, <1>8, <1>16, <1>25 DEF Conn
<1> QED
  BY <1>1, <1>2, <1>24, <1>26 DEF Quiet

\* What is marked is handed over.
LEMMA HandedOver ==
    ASSUME Conn, mark.of # "url", Delivers
    PROVE  /\ IsReq(req') /\ IsMark(mark') /\ mark' = NoMark /\ req' = Delivered
           /\ Delivered' = req' /\ found' = found /\ code' = code /\ SameHanded
<1>1. DeliveryIs(mark, req, Delivered)
  BY DeliveredIs DEF Conn
<1>2. req' = Delivered /\ mark' = NoMark /\ found' = found /\ code' = code
  BY Zenon DEF Delivers, Deliver
<1>3. IsReq(req') /\ IsMark(mark') /\ mark'.of = "none"
  BY <1>1, <1>2, NoMarkIs DEF DeliveryIs
<1>4. DeliveryIs(mark', req', Delivered')
  BY <1>3, DeliveredNext
<1>5. Delivered' = req'
  BY <1>3, <1>4 DEF DeliveryIs
<1> QED
  BY <1>2, <1>3, <1>5, Zenon DEF SameHanded

\* Nothing is marked, and nothing handed over.
LEMMA StillUnmarked ==
    ASSUME Conn, mark = NoMark, Still
    PROVE  /\ IsReq(req') /\ IsMark(mark') /\ mark' = NoMark /\ req' = req
           /\ Delivered' = req' /\ Delivered = req /\ SameHanded
           /\ UNCHANGED <<url_start_mark, found, code, socket, close_connection_, answers, handled>>
<1>1. UNCHANGED <<mark, url_start_mark, req, found, code, socket, close_connection_, answers,
                  handled>>
  BY DEF Still, connection
<1>2. IsMark(mark') /\ mark'.of = "none" /\ IsReq(req') /\ Delivered = req
  BY <1>1, NoMarkIs, NothingMarked DEF Conn
<1>3. DeliveryIs(mark', req', Delivered')
  BY <1>2, DeliveredNext
<1>4. Delivered' = req'
  BY <1>2, <1>3 DEF DeliveryIs
<1> QED
  BY <1>1, <1>2, <1>4, Zenon DEF SameHanded

\* More of a name is marked.
LEMMA NameMarked ==
    ASSUME Conn, mark.of = "field", ch \in Symbol, Marks("field"), UNCHANGED connection,
           Delivered.building = 1
    PROVE  /\ IsMark(mark') /\ mark'.of = "field" /\ mark'.text # <<>> /\ SameHanded
           /\ Building(Delivered', Delivered.headers, Delivered.field \o <<ch>>, Delivered.value, 1)
           /\ UNCHANGED <<req, found, code, socket, close_connection_, answers, handled>>
<1>1. UNCHANGED <<req, found, code, socket, close_connection_, answers, handled>>
  BY DEF connection
<1>2. IsMark(mark) /\ IsReq(req) /\ IsReq(req')
  BY <1>1 DEF Conn
<1>3. IsMark(mark') /\ mark'.of = "field" /\ mark'.text # <<>> /\ mark'.text = mark.text \o <<ch>>
  BY <1>2, Marking
<1>4. Delivered = WithField(req, mark.text) /\ SameLine(req, Delivered)
  <2>1. DeliveryIs(mark, req, Delivered)
    BY <1>2, DeliveredIs
  <2> QED
    BY <2>1 DEF DeliveryIs
<1>5. Delivered' = WithField(req, mark'.text) /\ SameLine(req, Delivered')
  <2>1. DeliveryIs(mark', req', Delivered')
    BY <1>2, <1>3, DeliveredNext
  <2>2. Delivered' = WithField(req', mark'.text) /\ SameLine(req', Delivered')
    BY <1>3, <2>1 DEF DeliveryIs
  <2> QED
    BY <1>1, <2>2
<1>6. mark.text \in Seq(Symbol) /\ mark'.text \in Seq(Symbol) /\ req.field \in Seq(Symbol)
  BY <1>2, <1>3 DEF IsMark, IsReq
<1>7. PICK c \in Seq(Symbol) : c = <<ch>>
  BY ShortTexts, Zenon
<1>8. ASSUME req.building = 1
      PROVE  Building(Delivered', Delivered.headers, Delivered.field \o <<ch>>, Delivered.value, 1)
  <2>1. Building(Delivered, req.headers, req.field \o mark.text, req.value, 1)
    BY <1>2, <1>4, <1>6, <1>8, FieldTaken, Zenon
  <2>2. Building(Delivered', req.headers, req.field \o mark'.text, req.value, 1)
    BY <1>2, <1>5, <1>6, <1>8, FieldTaken, Zenon
  <2>3. Regroups(req.field, mark.text, c)
    BY <1>6, Regrouping
  <2>4. req.field \o mark'.text = (req.field \o mark.text) \o c
    BY <1>3, <1>7, <2>3, Zenon DEF Regroups
  <2> QED
    BY <1>7, <2>1, <2>2, <2>4, Zenon DEF Building
<1>9. ASSUME req.building # 1
      PROVE  Building(Delivered', Delivered.headers, Delivered.field \o <<ch>>, Delivered.value, 1)
  <2>1. PICK h : h = IF req.value # <<>> THEN Put(req.headers, req.field, req.value) ELSE req.headers
    OBVIOUS
  <2>2. Building(Delivered, h, mark.text, <<>>, 1)
    BY <1>2, <1>4, <1>6, <1>9, <2>1, FieldTaken, Zenon
  <2>3. Building(Delivered', h, mark'.text, <<>>, 1)
    BY <1>2, <1>5, <1>6, <1>9, <2>1, FieldTaken, Zenon
  <2> QED
    BY <1>3, <2>2, <2>3, Zenon DEF Building
<1>10. SameHanded
  BY <1>4, <1>5, Zenon DEF SameHanded, SameLine
<1> QED
  BY <1>1, <1>3, <1>8, <1>9, <1>10

\* A name goes on.
LEMMA NameGoesOn ==
    ASSUME Conn, NEW r, IsRequest(r), NEW l \in Seq(Symbol), InName(r, l), Field
    PROVE  Conn' /\ Quiet /\ InRequest(r, l)'
<1>1. /\ Takes({"header_field"}, {"grade", "ection", "Length", "Encoding"})
      /\ parser' = [parser EXCEPT !.header_state = Rest[parser.header_state],
                      !.flags = @ \cup ({Rest[parser.header_state]} \cap {"transfer_encoding"})]
      /\ Marks("field") /\ UNCHANGED <<url_start_mark, connection>>
  BY Zenon DEF Field
<1>2. /\ requests' = requests /\ stream' = stream /\ at' = at + 1 /\ ch \in Symbol
      /\ ch \in {"grade", "ection", "Length", "Encoding"}
      /\ SentRequests' /\ stream' \in Seq(Symbol) /\ at' \in Nat
  BY <1>1, Taking
<1>3. PICK j \in 1..Len(r.fields) : \E k \in 1..Len(NameText(r.fields[j])) :
      /\ parser.state = "header_field" /\ mark.of = "field" /\ InHeaders(r)
      /\ Holds(Delivered, r, j, k, 0) /\ Delivered.building = 1
      /\ FlagsInv(parser, r, IF k = Len(NameText(r.fields[j])) THEN j ELSE j - 1, j - 1, j - 1)
      /\ LengthInv(parser, r, j - 1)
      /\ parser.header_state = IF k = Len(NameText(r.fields[j])) THEN Known(r.fields[j])
                               ELSE Name[NameText(r.fields[j])[1]]
      /\ Coming = FromName(r, j, k, l)
  BY Zenon DEF InName
<1>4. PICK f \in FieldKinds : f = r.fields[j]
  BY LinesTyped
<1>5. PICK n \in 1..2 : n = Len(NameText(f))
  BY NameTyped
<1>6. PICK k \in 1..n :
      /\ parser.state = "header_field" /\ mark.of = "field" /\ InHeaders(r)
      /\ Holds(Delivered, r, j, k, 0) /\ Delivered.building = 1
      /\ FlagsInv(parser, r, IF k = n THEN j ELSE j - 1, j - 1, j - 1)
      /\ LengthInv(parser, r, j - 1)
      /\ parser.header_state = IF k = n THEN Known(f) ELSE Name[NameText(f)[1]]
      /\ Coming = FromName(r, j, k, l)
  BY <1>3, <1>4, <1>5, Zenon
<1>7. k # n
  <2>1. SUFFICES ASSUME k = n PROVE FALSE
    OBVIOUS
  <2>2. Begins(FromName(r, j, n, l), ":", FromSpace(r, j, IF f = "blank" THEN 1 ELSE 0, l))
    BY <1>4, <1>5, NameComes, Zenon
  <2>3. ch = ":"
    BY <1>6, <2>1, <2>2, NextCome, Zenon DEF Conn
  <2> QED
    BY <1>2, <2>3
<1>8. k = 1 /\ n = 2
  BY <1>7
<1>9. ch = NameText(f)[2] /\ Coming' = FromName(r, j, 2, l)
  <2>1. 1 \in 0..(Len(NameText(f)) - 1) /\ 1 + 1 = 2
    BY <1>5, <1>8
  <2>2. Begins(FromName(r, j, 1, l), NameText(f)[1 + 1], FromName(r, j, 1 + 1, l))
    BY <1>4, <2>1, NameComes, Zenon
  <2>3. Begins(Coming, NameText(f)[2], FromName(r, j, 2, l))
    BY <1>6, <1>8, <2>1, <2>2, Zenon
  <2> QED
    BY <1>2, <2>3, NextCome DEF Conn
<1>10. /\ IsMark(mark') /\ mark'.of = "field" /\ mark'.text # <<>> /\ SameHanded
       /\ Building(Delivered', Delivered.headers, Delivered.field \o <<ch>>, Delivered.value, 1)
       /\ UNCHANGED <<req, found, code, socket, close_connection_, answers, handled>>
       /\ url_start_mark' = url_start_mark
  <2>1. url_start_mark' = url_start_mark /\ UNCHANGED connection
    BY <1>1
  <2> QED
    BY <1>1, <1>2, <1>6, <2>1, NameMarked
<1>11. f \notin {"host", "folded", "expect", "blank"}
  <2>1. SUFFICES ASSUME f \in {"host", "folded", "expect", "blank"} PROVE n = 1
    BY <1>8
  <2>2. Len(NameText(f)) = 1
    BY <2>1, NameSymbols, Zenon
  <2> QED
    BY <1>5, <2>2, Zenon
<1>12. Rest[parser.header_state] = Known(f)
  <2>2. parser.header_state = Name[NameText(f)[1]]
    BY <1>6, <1>7, Zenon
  <2> QED
    BY <1>11, <2>2, NameSymbols
<1>13. PICK g : g = parser.flags \cup ({Known(f)} \cap {"transfer_encoding"})
  OBVIOUS
<1>14. Moves(parser, parser', parser.state, Known(f), g, parser.content_length)
  <2>1. IsParser(parser) /\ 0 \in Int
    BY DEF Conn
  <2>2. parser' = [parser EXCEPT !.header_state = Known(f), !.flags = g]
    BY <1>1, <1>12, <1>13
  <2> QED
    BY <2>1, <2>2, ParserMoves
<1>15. g = IF f = "chunked" THEN parser.flags \cup {"transfer_encoding"} ELSE parser.flags
  <2>1. f = "chunked" => Known(f) = "transfer_encoding"
    BY DEF Known
  <2>2. f # "chunked" => Known(f) # "transfer_encoding"
    BY DEF Known
  <2> QED
    BY <1>13, <2>1, <2>2
<1>16. /\ parser'.state = "header_field" /\ parser'.header_state = Known(f) /\ parser'.flags = g
       /\ parser'.content_length = parser.content_length /\ parser'.version = parser.version
       /\ IsParser(parser')
  BY <1>6, <1>14 DEF Moves
<1>17. InHeaders(r)'
  BY <1>6, <1>10, <1>16, HeadersGoOn
<1>18. Holds(Delivered', r, j, 2, 0)
  <2>1. Told(Delivered.headers, r, j - 1) /\ Delivered.field = Upto(NameText(f), 1)
        /\ Delivered.value = Upto(ValueSaid(r, f), 0)
    BY <1>4, <1>6, <1>8, Zenon DEF Holds
  <2>2. Upto(NameText(f), 2) = Upto(NameText(f), 1) \o <<ch>>
    <3>1. PICK t \in Seq(Symbol) : t = NameText(f)
      BY NameTyped
    <3>4. Len(t) = 2
      BY <1>5, <1>8, <3>1, Zenon
    <3>2. 1 \in Nat /\ 1 < Len(t) /\ 1 + 1 = 2
      BY <3>4
    <3>3. Upto(t, 1 + 1) = Upto(t, 1) \o <<t[1 + 1]>>
      BY <3>2, UptoNext
    <3> QED
      BY <1>9, <3>1, <3>2, <3>3, Zenon
  <2> QED
    BY <1>4, <1>10, <2>1, <2>2, Zenon DEF Holds, Building
<1>19. FlagsInv(parser', r, j, j - 1, j - 1) /\ LengthInv(parser', r, j - 1)
  <2>1. FlagsInv(parser, r, j - 1, j - 1, j - 1)
    BY <1>6, <1>7, Zenon
  <2>2. FlagsInv(parser', r, j, j - 1, j - 1)
    BY <1>4, <1>15, <1>16, <2>1, NameFlag
  <2> QED
    BY <1>6, <1>16, <2>2 DEF LengthInv
<1>20. 2 \in 1..Len(NameText(f)) /\ 2 = Len(NameText(f))
  BY <1>5, <1>8
<1>21. Delivered'.building = 1
  BY <1>10 DEF Building
<1>22. InName(r, l)'
  BY <1>4, <1>6, <1>9, <1>10, <1>16, <1>17, <1>18, <1>19, <1>20, <1>21, Zenon DEF InName
<1>23. InRequest(r, l)'
  BY <1>22 DEF InRequest
<1>24. url_start_mark' \in Nat /\ url_start_mark' <= at'
  BY <1>2, <1>10, MarkStays
<1>25. IsReq(req')
  BY <1>10 DEF Conn
<1>26. Conn'
  BY <1>2, <1>10, <1>16, <1>24, <1>25 DEF Conn
<1> QED
  BY <1>2, <1>10, <1>23, <1>26 DEF Quiet

\* What a value may begin with, and go on with.
LEMMA ValueFirst ==
    ASSUME NEW r, IsRequest(r), NEW f \in FieldKinds, f # "blank"
    PROVE  ValueSaid(r, f)[1] # " " /\ ValueSaid(r, f)[1] \notin {"CR", "LF"}
<1>1. Digits(Len(r.body) \div 10) \in Ten
  BY BodyLength, DigitsRead
<1>2. PICK v : v = ValueSaid(r, f)[1]
  OBVIOUS
<1>3. v \in {"here", "websocket", "h", "clo", "keep-", "100-continue", "chun"} \cup Ten
  <2>1. \/ v = "here" \/ v = "websocket" \/ v = "h" \/ v = "clo" \/ v = "keep-"
        \/ v = "100-continue" \/ v = "chun" \/ v = Digits(Len(r.body) \div 10)
    <3>1. f \in {"host", "folded"} => v = "here"
      BY <1>2, ValueSymbols, Zenon
    <3>2. f = "upgrade" => v = "websocket"
      BY <1>2, ValueSymbols, Zenon
    <3>3. f = "h2" => v = "h"
      BY <1>2, ValueSymbols, Zenon
    <3>4. f = "close" => v = "clo"
      BY <1>2, ValueSymbols, Zenon
    <3>5. f = "keep" => v = "keep-"
      BY <1>2, ValueSymbols, Zenon
    <3>6. f = "expect" => v = "100-continue"
      BY <1>2, ValueSymbols, Zenon
    <3>7. f = "chunked" => v = "chun"
      BY <1>2, ValueSymbols, Zenon
    <3>8. f = "length" => v = Digits(Len(r.body) \div 10)
      BY <1>2, ValueSymbols, Zenon
    <3> QED
      BY <3>1, <3>2, <3>3, <3>4, <3>5, <3>6, <3>7, <3>8 DEF FieldKinds
  <2> QED
    BY <1>1, <2>1
<1>4. v # " "
  BY <1>3, Zenon DEF Ten
<1>5. v \notin {"CR", "LF"}
  BY <1>3 DEF Ten
<1> QED
  BY <1>2, <1>4, <1>5, Zenon

\* The name ends.
LEMMA NameEnds ==
    ASSUME Conn, NEW r, IsRequest(r), NEW l \in Seq(Symbol), InName(r, l), FieldEnds
    PROVE  Conn' /\ Quiet /\ InRequest(r, l)'
<1>1. /\ Takes({"header_field"}, {":"}) /\ Goes("header_value_discard_ws") /\ Delivers
      /\ UNCHANGED <<url_start_mark, socket, close_connection_, answers, handled>>
  BY DEF FieldEnds
<1>2. /\ requests' = requests /\ stream' = stream /\ at' = at + 1 /\ ch = ":"
      /\ SentRequests' /\ stream' \in Seq(Symbol) /\ at' \in Nat
  BY <1>1, Taking
<1>3. PICK j \in 1..Len(r.fields) : \E k \in 1..Len(NameText(r.fields[j])) :
      /\ mark.of = "field" /\ InHeaders(r)
      /\ Holds(Delivered, r, j, k, 0) /\ Delivered.building = 1
      /\ FlagsInv(parser, r, IF k = Len(NameText(r.fields[j])) THEN j ELSE j - 1, j - 1, j - 1)
      /\ LengthInv(parser, r, j - 1)
      /\ parser.header_state = IF k = Len(NameText(r.fields[j])) THEN Known(r.fields[j])
                               ELSE Name[NameText(r.fields[j])[1]]
      /\ Coming = FromName(r, j, k, l)
  BY Zenon DEF InName
<1>4. PICK f \in FieldKinds : f = r.fields[j]
  BY LinesTyped
<1>5. PICK n \in 1..2 : n = Len(NameText(f))
  BY NameTyped
<1>6. PICK k \in 1..n :
      /\ mark.of = "field" /\ InHeaders(r)
      /\ Holds(Delivered, r, j, k, 0) /\ Delivered.building = 1
      /\ FlagsInv(parser, r, IF k = n THEN j ELSE j - 1, j - 1, j - 1)
      /\ LengthInv(parser, r, j - 1)
      /\ parser.header_state = IF k = n THEN Known(f) ELSE Name[NameText(f)[1]]
      /\ Coming = FromName(r, j, k, l)
  BY <1>3, <1>4, <1>5, Zenon
<1>7. k = n
  <2>1. SUFFICES ASSUME k # n PROVE FALSE
    OBVIOUS
  <2>2. k = 1 /\ n = 2
    BY <2>1
  <2>3. k \in 0..(Len(NameText(f)) - 1) /\ k + 1 = 2
    <3>1. 1 \in 0..(2 - 1)
      OBVIOUS
    <3>2. 1 + 1 = 2
      OBVIOUS
    <3> QED
      BY <1>5, <2>2, <3>1, <3>2, Zenon
  <2>4. Begins(Coming, NameText(f)[2], FromName(r, j, 2, l))
    BY <1>4, <1>6, <2>3, NameComes, Zenon
  <2>5. ch = NameText(f)[2]
    BY <2>4, NextCome DEF Conn
  <2>6. f \notin {"host", "folded", "expect", "blank"}
    <3>1. SUFFICES ASSUME f \in {"host", "folded", "expect", "blank"} PROVE n = 1
      BY <2>2
    <3>2. Len(NameText(f)) = 1
      BY <3>1, NameSymbols, Zenon
    <3> QED
      BY <1>5, <3>2, Zenon
  <2>7. NameText(f)[2] \in {"grade", "ection", "Length", "Encoding"}
    BY <2>6, NameSymbols, Zenon
  <2> QED
    BY <1>2, <2>5, <2>7
<1>8. Coming' = FromSpace(r, j, IF f = "blank" THEN 1 ELSE 0, l)
  <2>1. Begins(Coming, ":", FromSpace(r, j, IF f = "blank" THEN 1 ELSE 0, l))
    BY <1>4, <1>5, <1>6, <1>7, NameComes, Zenon
  <2> QED
    BY <1>2, <2>1, NextCome DEF Conn
<1>9. /\ IsReq(req') /\ IsMark(mark') /\ mark' = NoMark /\ req' = Delivered
      /\ Delivered' = req' /\ found' = found /\ code' = code /\ SameHanded
  BY <1>1, <1>6, HandedOver
<1>10. Moves(parser, parser', "header_value_discard_ws", parser.header_state, parser.flags,
             parser.content_length)
  <2>1. IsParser(parser) /\ 0 \in Int
    BY DEF Conn
  <2> QED
    BY <1>1, <2>1, ParserMoves DEF Goes
<1>11. /\ parser'.state = "header_value_discard_ws" /\ parser'.header_state = parser.header_state
       /\ parser'.flags = parser.flags /\ parser'.content_length = parser.content_length
       /\ parser'.version = parser.version /\ IsParser(parser')
  BY <1>10 DEF Moves
<1>12. InHeaders(r)'
  BY <1>6, <1>9, <1>11, HeadersGoOn
<1>13. Holds(req', r, j, Len(NameText(f)), 0) /\ req'.building = 1
  BY <1>5, <1>6, <1>7, <1>9, Zenon
<1>14. FlagsInv(parser', r, j, j - 1, j - 1) /\ LengthInv(parser', r, j - 1)
  <2>1. FlagsInv(parser, r, j, j - 1, j - 1)
    BY <1>6, <1>7, Zenon
  <2> QED
    BY <1>6, <1>11, <2>1, Zenon DEF FlagsInv, LengthInv
<1>15. parser'.header_state = Known(f)
  BY <1>6, <1>7, <1>11, Zenon
<1>16. AtSpace(r, l)'
  BY <1>4, <1>8, <1>9, <1>11, <1>12, <1>13, <1>14, <1>15, Zenon DEF AtSpace
<1>17. InRequest(r, l)'
  BY <1>16 DEF InRequest
<1>18. url_start_mark' \in Nat /\ url_start_mark' <= at'
  BY <1>1, <1>2, MarkStays
<1>19. Conn'
  BY <1>2, <1>9, <1>11, <1>18 DEF Conn
<1> QED
  BY <1>1, <1>2, <1>17, <1>19 DEF Quiet

\* The name of field j is known, and nothing of its value.
Named(r, j) ==
    /\ mark = NoMark /\ InHeaders(r)
    /\ Holds(req, r, j, Len(NameText(r.fields[j])), 0) /\ req.building = 1
    /\ FlagsInv(parser, r, j, j - 1, j - 1) /\ LengthInv(parser, r, j - 1)
    /\ parser.header_state = Known(r.fields[j])

\* The parts of the stage before a value.
LEMMA SpaceParts ==
    ASSUME NEW r, NEW l, AtSpace(r, l)
    PROVE  \E j \in 1..Len(r.fields) :
             /\ Named(r, j)
             /\ \/ /\ parser.state = "header_value_discard_ws"
                   /\ \/ Coming = FromSpace(r, j, IF r.fields[j] = "blank" THEN 1 ELSE 0, l)
                      \/ Coming = FromSpace(r, j, 1, l)
                \/ /\ parser.state = "discard_ws_almost_done" /\ r.fields[j] = "blank"
                   /\ Coming = <<"LF">> \o FromLine(r, j + 1, l)
                \/ /\ parser.state = "discard_lws" /\ r.fields[j] = "blank"
                   /\ Coming = FromLine(r, j + 1, l)
BY Zenon DEF AtSpace, Named

\* What comes before a value.
LEMMA SpaceComes ==
    ASSUME Conn, NEW r, IsRequest(r), NEW l \in Seq(Symbol), NEW j \in 1..Len(r.fields),
           \/ Coming = FromSpace(r, j, IF r.fields[j] = "blank" THEN 1 ELSE 0, l)
           \/ Coming = FromSpace(r, j, 1, l)
    PROVE  \/ r.fields[j] = "blank" /\ Coming = r.eol \o FromLine(r, j + 1, l)
           \/ /\ r.fields[j] # "blank" /\ ch = " "
              /\ Begins(Coming, " ", FromSpace(r, j, 1, l))
           \/ /\ r.fields[j] # "blank" /\ ch = ValueSaid(r, r.fields[j])[1]
              /\ Begins(Coming, ValueSaid(r, r.fields[j])[1], FromValue(r, j, 1, l))
<1>1. PICK f \in FieldKinds : f = r.fields[j]
  BY LinesTyped
<1>2. CASE f = "blank"
  <2>1. Coming = FromSpace(r, j, 1, l)
    BY <1>1, <1>2, Zenon
  <2>2. FromSpace(r, j, 1, l) = r.eol \o FromLine(r, j + 1, l)
    BY <1>1, <1>2, ValueComes, Zenon
  <2> QED
    BY <1>1, <1>2, <2>1, <2>2, Zenon
<1>3. CASE f # "blank" /\ Coming = FromSpace(r, j, 0, l)
  <2>1. Begins(Coming, " ", FromSpace(r, j, 1, l))
    BY <1>1, <1>3, NameComes, Zenon
  <2>2. ch = " "
    BY <2>1, NextCome, Zenon DEF Conn
  <2> QED
    BY <1>1, <1>3, <2>1, <2>2, Zenon
<1>4. CASE f # "blank" /\ Coming = FromSpace(r, j, 1, l)
  <2>1. Begins(Coming, ValueSaid(r, f)[1], FromValue(r, j, 1, l))
    BY <1>1, <1>4, ValueComes, Zenon
  <2>2. ch = ValueSaid(r, f)[1]
    BY <2>1, NextCome, Zenon DEF Conn
  <2> QED
    BY <1>1, <1>4, <2>1, <2>2, Zenon
<1> QED
  BY <1>1, <1>2, <1>3, <1>4, Zenon

\* The parser goes to a state.
StateOnly(s) ==
    /\ parser'.state = s /\ parser'.header_state = parser.header_state
    /\ parser'.flags = parser.flags /\ parser'.content_length = parser.content_length
    /\ parser'.version = parser.version /\ IsParser(parser')

\* A step that changes the state of the parser only.
LEMMA ParserGoes ==
    ASSUME Conn, NEW s, (parser' = parser /\ s = parser.state) \/ Goes(s)
    PROVE  StateOnly(s)
<1>1. IsParser(parser) /\ 0 \in Int
  BY DEF Conn
<1>2. CASE Goes(s)
  <2>1. Moves(parser, parser', s, parser.header_state, parser.flags, parser.content_length)
    BY <1>1, <1>2, ParserMoves DEF Goes
  <2> QED
    BY <2>1 DEF Moves, StateOnly
<1>3. CASE parser' = parser /\ s = parser.state
  BY <1>1, <1>3 DEF StateOnly
<1> QED
  BY <1>2, <1>3

\* Only what comes and the parser's state change.
LEMMA StillNamed ==
    ASSUME Conn, NEW r, IsRequest(r), NEW l, NEW j \in 1..Len(r.fields), Named(r, j), Still,
           NEW s,
           \/ parser' = parser /\ s = parser.state
           \/ Goes(s)
    PROVE  /\ Named(r, j)' /\ IsParser(parser') /\ parser'.state = s /\ IsReq(req')
           /\ IsMark(mark')
           /\ UNCHANGED <<url_start_mark, socket, answers, handled>>
<1>1. /\ mark = NoMark /\ InHeaders(r)
      /\ Holds(req, r, j, Len(NameText(r.fields[j])), 0) /\ req.building = 1
      /\ FlagsInv(parser, r, j, j - 1, j - 1) /\ LengthInv(parser, r, j - 1)
      /\ parser.header_state = Known(r.fields[j])
  BY Zenon DEF Named
<1>2. /\ IsReq(req') /\ IsMark(mark') /\ mark' = NoMark /\ req' = req
      /\ Delivered' = req' /\ SameHanded
      /\ UNCHANGED <<url_start_mark, found, code, socket, close_connection_, answers, handled>>
  BY <1>1, StillUnmarked
<1>3. /\ parser'.state = s /\ parser'.header_state = parser.header_state
      /\ parser'.flags = parser.flags /\ parser'.content_length = parser.content_length
      /\ parser'.version = parser.version /\ IsParser(parser')
  BY ParserGoes DEF StateOnly
<1>4. InHeaders(r)'
  BY <1>1, <1>2, <1>3, HeadersGoOn
<1>5. FlagsInv(parser', r, j, j - 1, j - 1) /\ LengthInv(parser', r, j - 1)
  BY <1>1, <1>3, Zenon DEF FlagsInv, LengthInv
<1>6. Named(r, j)'
  BY <1>1, <1>2, <1>3, <1>4, <1>5, Zenon DEF Named
<1> QED
  BY <1>2, <1>3, <1>6

\* White space before a value is dropped, and an empty value is over.
LEMMA DiscardsSpace ==
    ASSUME Conn, NEW r, IsRequest(r), NEW l \in Seq(Symbol), AtSpace(r, l), DiscardSpace
    PROVE  Conn' /\ Quiet /\ InRequest(r, l)'
<1>1. PICK j \in 1..Len(r.fields) :
         /\ Named(r, j)
         /\ \/ /\ parser.state = "header_value_discard_ws"
               /\ \/ Coming = FromSpace(r, j, IF r.fields[j] = "blank" THEN 1 ELSE 0, l)
                  \/ Coming = FromSpace(r, j, 1, l)
            \/ /\ parser.state = "discard_ws_almost_done" /\ r.fields[j] = "blank"
               /\ Coming = <<"LF">> \o FromLine(r, j + 1, l)
            \/ /\ parser.state = "discard_lws" /\ r.fields[j] = "blank"
               /\ Coming = FromLine(r, j + 1, l)
  BY SpaceParts
<1>2. PICK f \in FieldKinds : f = r.fields[j]
  BY LinesTyped
<1>3. PICK x \in Seq(Symbol) : x = FromLine(r, j + 1, l)
  BY LineBehind
<1>4. /\ \/ f = "blank" /\ Coming = r.eol \o x
         \/ /\ f # "blank" /\ Space
            /\ Begins(Coming, " ", FromSpace(r, j, 1, l))
         \/ f # "blank" /\ ~Space /\ ch \notin {"CR", "LF"}
      \/ parser.state # "header_value_discard_ws"
  <2>1. SUFFICES ASSUME parser.state = "header_value_discard_ws"
                 PROVE  \/ f = "blank" /\ Coming = r.eol \o x
                        \/ /\ f # "blank" /\ Space
                           /\ Begins(Coming, " ", FromSpace(r, j, 1, l))
                        \/ f # "blank" /\ ~Space /\ ch \notin {"CR", "LF"}
    BY Zenon
  <2>2. \/ Coming = FromSpace(r, j, IF r.fields[j] = "blank" THEN 1 ELSE 0, l)
        \/ Coming = FromSpace(r, j, 1, l)
    BY <1>1, <2>1, Zenon
  <2>3. \/ f = "blank" /\ Coming = r.eol \o x
        \/ /\ f # "blank" /\ ch = " " /\ Begins(Coming, " ", FromSpace(r, j, 1, l))
        \/ f # "blank" /\ ch = ValueSaid(r, f)[1]
    BY <1>2, <1>3, <2>2, SpaceComes, Zenon
  <2>4. f # "blank" => ValueSaid(r, f)[1] # " " /\ ValueSaid(r, f)[1] \notin {"CR", "LF"}
    BY ValueFirst, Zenon
  <2> QED
    BY <2>3, <2>4, Zenon DEF Space
<1>5. Still
  BY Zenon DEF DiscardSpace
<1>6. SUFFICES ASSUME requests' = requests, stream' = stream, at' = at + 1,
                      SentRequests', stream' \in Seq(Symbol), at' \in Nat,
                      AtSpace(r, l)', Named(r, j)', IsParser(parser'), IsReq(req'), IsMark(mark'),
                      UNCHANGED <<url_start_mark, socket, answers, handled>>
               PROVE  Conn' /\ Quiet /\ InRequest(r, l)'
  <2>1. \/ Takes({"header_value_discard_ws"}, {" "}) /\ UNCHANGED parser
        \/ Takes({"header_value_discard_ws"}, {"CR"}) /\ Goes("discard_ws_almost_done")
        \/ /\ Takes({"header_value_discard_ws", "discard_ws_almost_done"}, {"LF"})
           /\ Goes("discard_lws")
    BY Zenon DEF DiscardSpace
  <2>2. PICK S, C : Takes(S, C)
    BY <2>1, Zenon
  <2>3. /\ requests' = requests /\ stream' = stream /\ at' = at + 1
        /\ SentRequests' /\ stream' \in Seq(Symbol) /\ at' \in Nat
    BY <2>2, Taking
  <2>4. stream \in Seq(Symbol) /\ at \in Nat
    BY DEF Conn
  <2>5. CASE Takes({"header_value_discard_ws"}, {" "}) /\ UNCHANGED parser
    <3>1. parser.state = "header_value_discard_ws" /\ Space
      <4>1. PICK A, D : A = {"header_value_discard_ws"} /\ D = {" "}
        BY Zenon
      <4>2. Takes(A, D)
        BY <2>5, <4>1, Zenon
      <4>3. parser.state \in A /\ ch \in D
        BY <4>2, Taking, Zenon
      <4> QED
        BY <4>1, <4>3, Zenon DEF Space
    <3>2. f # "blank" /\ Begins(Coming, " ", FromSpace(r, j, 1, l))
      <4>1. ~(f = "blank" /\ Coming = r.eol \o x)
        <5>1. SUFFICES ASSUME Coming = r.eol \o x PROVE FALSE
          BY Zenon
        <5>2. Begins(Coming, "CR", <<"LF">> \o x) \/ Begins(Coming, "LF", x)
          BY <5>1, EolBegins, Zenon
        <5>3. ch = "CR" \/ ch = "LF"
          BY <2>4, <5>2, NextCome, Zenon
        <5> QED
          BY <3>1, <5>3, Zenon DEF Space
      <4> QED
        BY <1>4, <3>1, <4>1, Zenon
    <3>3. Coming' = FromSpace(r, j, 1, l)
      BY <2>3, <2>4, <3>2, NextCome, Zenon
    <3>4. /\ Named(r, j)' /\ IsParser(parser') /\ parser'.state = parser.state /\ IsReq(req')
          /\ IsMark(mark') /\ UNCHANGED <<url_start_mark, socket, answers, handled>>
      BY <1>1, <1>5, <2>5, StillNamed, Zenon
    <3>5. AtSpace(r, l)'
      BY <3>1, <3>3, <3>4, Zenon DEF AtSpace, Named
    <3> QED
      BY <1>6, <2>3, <3>4, <3>5, Zenon
  <2>6. CASE Takes({"header_value_discard_ws"}, {"CR"}) /\ Goes("discard_ws_almost_done")
    <3>1. parser.state = "header_value_discard_ws" /\ ch = "CR"
      BY <2>6, Taking
    <3>2. f = "blank" /\ Coming = r.eol \o x
      <4>1. ~Space
        BY <3>1, Zenon DEF Space
      <4> QED
        BY <1>4, <3>1, <4>1, Zenon
    <3>3. Coming' = <<"LF">> \o x
      <4>1. Begins(Coming, "CR", <<"LF">> \o x) \/ Begins(Coming, "LF", x)
        BY <3>2, EolBegins
      <4>2. Begins(Coming, "CR", <<"LF">> \o x)
        BY <2>4, <3>1, <4>1, NextCome
      <4> QED
        BY <2>3, <2>4, <4>2, NextCome
    <3>4. /\ Named(r, j)' /\ IsParser(parser') /\ parser'.state = "discard_ws_almost_done"
          /\ IsReq(req') /\ IsMark(mark')
          /\ UNCHANGED <<url_start_mark, socket, answers, handled>>
      BY <1>1, <1>5, <2>6, StillNamed, Zenon
    <3>5. AtSpace(r, l)'
      BY <1>2, <1>3, <3>2, <3>3, <3>4, Zenon DEF AtSpace, Named
    <3> QED
      BY <1>6, <2>3, <3>4, <3>5, Zenon
  <2>7. CASE /\ Takes({"header_value_discard_ws", "discard_ws_almost_done"}, {"LF"})
             /\ Goes("discard_lws")
    <3>1. parser.state \in {"header_value_discard_ws", "discard_ws_almost_done"} /\ ch = "LF"
      BY <2>7, Taking
    <3>2. f = "blank" /\ (Coming = r.eol \o x \/ Coming = <<"LF">> \o x)
      <4>1. ~Space
        BY <3>1, Zenon DEF Space
      <4>2. CASE parser.state = "header_value_discard_ws"
        BY <1>4, <3>1, <4>1, <4>2, Zenon
      <4>3. CASE parser.state = "discard_ws_almost_done"
        BY <1>1, <1>2, <1>3, <4>3, Zenon
      <4> QED
        BY <3>1, <4>2, <4>3
    <3>3. Coming' = x
      <4>1. Begins(Coming, "CR", <<"LF">> \o x) \/ Begins(Coming, "LF", x)
        BY <3>2, EolBegins
      <4>2. Begins(Coming, "LF", x)
        BY <2>4, <3>1, <4>1, NextCome
      <4> QED
        BY <2>3, <2>4, <4>2, NextCome
    <3>4. /\ Named(r, j)' /\ IsParser(parser') /\ parser'.state = "discard_lws"
          /\ IsReq(req') /\ IsMark(mark')
          /\ UNCHANGED <<url_start_mark, socket, answers, handled>>
      BY <1>1, <1>5, <2>7, StillNamed, Zenon
    <3>5. AtSpace(r, l)'
      BY <1>2, <1>3, <3>2, <3>3, <3>4, Zenon DEF AtSpace, Named
    <3> QED
      BY <1>6, <2>3, <3>4, <3>5, Zenon
  <2> QED
    BY <2>1, <2>5, <2>6, <2>7, Zenon
<1>7. InRequest(r, l)'
  BY <1>6 DEF InRequest
<1>8. url_start_mark' \in Nat /\ url_start_mark' <= at'
  BY <1>6, MarkStays
<1>9. Conn'
  BY <1>6, <1>8 DEF Conn
<1> QED
  BY <1>6, <1>7, <1>9 DEF Quiet

\* k symbols of field j's value are known.
ReadTo(r, j, k) ==
    /\ InHeaders(r) /\ Holds(Delivered, r, j, Len(NameText(r.fields[j])), k)
    /\ Delivered.building = 0 /\ FlagsInv(parser, r, j, j, j - 1)
    /\ IF r.fields[j] = "length" /\ k = 1 THEN parser.content_length = Len(r.body) \div 10
       ELSE LengthInv(parser, r, j)
    /\ parser.header_state = Read(r.fields[j], k)

\* Where in the value, or behind it, the parser is.
ValueStage(r, j, k, l) ==
    \/ /\ parser.state = "header_value" /\ mark.of = "value" /\ Coming = FromValue(r, j, k, l)
       /\ req.building = 1 => mark.text # <<>>
    \/ /\ mark = NoMark /\ (k = Len(ValueSaid(r, r.fields[j])) \/ Folds(r.fields[j], k))
       /\ \/ parser.state = "header_almost_done" /\ Coming = <<"LF">> \o FromNext(r, j, k, l)
          \/ parser.state = "header_value_lws" /\ Coming = FromNext(r, j, k, l)

\* The two make up the stage within a value,
LEMMA ValueParts ==
    ASSUME NEW r, NEW l
    PROVE  InValue(r, l) <=> \E j \in 1..Len(r.fields) : \E k \in 1..Len(ValueSaid(r, r.fields[j])) :
                               ReadTo(r, j, k) /\ ValueStage(r, j, k, l)
BY Zenon DEF InValue, ReadTo, ValueStage, Folds

\* and in the next state.
LEMMA ValuePartsNext ==
    ASSUME NEW r, NEW l, NEW j \in 1..Len(r.fields), NEW k \in 1..Len(ValueSaid(r, r.fields[j])),
           ReadTo(r, j, k)', ValueStage(r, j, k, l)'
    PROVE  InRequest(r, l)'
<1>1. InValue(r, l)'
  BY Zenon DEF InValue, ReadTo, ValueStage, Folds
<1> QED
  BY <1>1 DEF InRequest

\* More of a value is marked; the first of it, where a name was built.
LEMMA ValueMarked ==
    ASSUME Conn, mark.of = "value" \/ mark = NoMark, ch \in Symbol, Marks("value"),
           UNCHANGED connection
    PROVE  /\ IsMark(mark') /\ mark'.of = "value" /\ mark'.text # <<>> /\ SameHanded /\ IsReq(req')
           /\ Delivered.building = 0 =>
                Building(Delivered', Delivered.headers, Delivered.field,
                         Delivered.value \o <<ch>>, 0)
           /\ mark = NoMark /\ req.building # 0 =>
                Building(Delivered', req.headers, req.field, <<ch>>, 0)
           /\ UNCHANGED <<req, found, code, socket, close_connection_, answers, handled>>
<1>1. UNCHANGED <<req, found, code, socket, close_connection_, answers, handled>>
  BY DEF connection
<1>2. IsMark(mark) /\ IsReq(req) /\ IsReq(req')
  BY <1>1 DEF Conn
<1>3. IsMark(mark') /\ mark'.of = "value" /\ mark'.text # <<>>
      /\ mark'.text = IF mark.of = "value" THEN mark.text \o <<ch>> ELSE <<ch>>
  BY <1>2, Marking
<1>4. Delivered' = WithValue(req, mark'.text) /\ SameLine(req, Delivered')
  <2>1. DeliveryIs(mark', req', Delivered')
    BY <1>2, <1>3, DeliveredNext
  <2>2. Delivered' = WithValue(req', mark'.text) /\ SameLine(req', Delivered')
    BY <1>3, <2>1 DEF DeliveryIs
  <2> QED
    BY <1>1, <2>2
<1>5. mark.text \in Seq(Symbol) /\ mark'.text \in Seq(Symbol) /\ req.value \in Seq(Symbol)
  BY <1>2, <1>3 DEF IsMark, IsReq
<1>6. PICK c \in Seq(Symbol) : c = <<ch>>
  BY ShortTexts, Zenon
<1>7. CASE mark.of = "value"
  <2>1. Delivered = WithValue(req, mark.text) /\ SameLine(req, Delivered)
    <3>1. DeliveryIs(mark, req, Delivered)
      BY <1>2, DeliveredIs
    <3> QED
      BY <1>7, <3>1 DEF DeliveryIs
  <2>2. mark'.text = mark.text \o c
    BY <1>3, <1>6, <1>7
  <2>3. ASSUME req.building = 0
        PROVE  Building(Delivered', Delivered.headers, Delivered.field,
                        Delivered.value \o <<ch>>, 0)
    <3>1. Building(Delivered, req.headers, req.field, req.value \o mark.text, 0)
      BY <1>2, <1>5, <2>1, <2>3, ValueTaken, Zenon
    <3>2. Building(Delivered', req.headers, req.field, req.value \o mark'.text, 0)
      BY <1>2, <1>4, <1>5, <2>3, ValueTaken, Zenon
    <3>3. Regroups(req.value, mark.text, c)
      BY <1>5, Regrouping
    <3>4. req.value \o mark'.text = (req.value \o mark.text) \o c
      BY <2>2, <3>3, Zenon DEF Regroups
    <3> QED
      BY <1>6, <3>1, <3>2, <3>4, Zenon DEF Building
  <2>4. ASSUME req.building # 0
        PROVE  Building(Delivered', Delivered.headers, Delivered.field,
                        Delivered.value \o <<ch>>, 0)
    <3>1. Building(Delivered, req.headers, req.field, mark.text, 0)
      BY <1>2, <1>5, <2>1, <2>4, ValueTaken, Zenon
    <3>2. Building(Delivered', req.headers, req.field, mark'.text, 0)
      BY <1>2, <1>4, <1>5, <2>4, ValueTaken, Zenon
    <3> QED
      BY <1>6, <2>2, <3>1, <3>2, Zenon DEF Building
  <2>5. SameHanded
    BY <1>4, <2>1, Zenon DEF SameHanded, SameLine
  <2>6. mark # NoMark
    BY <1>7, NoMarkIs
  <2> QED
    BY <1>1, <1>2, <1>3, <2>3, <2>4, <2>5, <2>6, Zenon
<1>8. CASE mark = NoMark
  <2>1. mark.of # "value" /\ Delivered = req
    BY <1>8, NoMarkIs, NothingMarked
  <2>2. mark'.text = c
    BY <1>3, <1>6, <2>1
  <2>3. ASSUME req.building = 0
        PROVE  Building(Delivered', Delivered.headers, Delivered.field,
                        Delivered.value \o <<ch>>, 0)
    <3>1. Building(Delivered', req.headers, req.field, req.value \o mark'.text, 0)
      BY <1>2, <1>4, <1>5, <2>3, ValueTaken, Zenon
    <3> QED
      BY <1>6, <2>1, <2>2, <3>1, Zenon
  <2>4. ASSUME req.building # 0
        PROVE  Building(Delivered', req.headers, req.field, <<ch>>, 0)
    <3>1. Building(Delivered', req.headers, req.field, mark'.text, 0)
      BY <1>2, <1>4, <1>5, <2>4, ValueTaken, Zenon
    <3> QED
      BY <1>6, <2>2, <3>1, Zenon
  <2>5. SameHanded
    BY <1>4, <2>1, Zenon DEF SameHanded, SameLine
  <2> QED
    BY <1>1, <1>2, <1>3, <2>1, <2>3, <2>4, <2>5, Zenon
<1> QED
  BY <1>7, <1>8

-----------------------------------------------------------------------------
\* The parser looks ahead.
LEMMA PeekMoves ==
    ASSUME NEW p, IsParser(p), NEW hs, NEW b, NEW fl
    PROVE  Moves(p, [p EXCEPT !.header_state = hs, !.peeked = b, !.flags = fl],
                 p.state, hs, fl, p.content_length)
<1>1. PICK q : q = [p EXCEPT !.header_state = hs, !.peeked = b, !.flags = fl]
  OBVIOUS
<1>2. q = [state |-> p.state, header_state |-> hs, flags |-> fl, content_length |-> p.content_length,
           version |-> p.version, qs_point |-> p.qs_point, peeked |-> b]
  BY <1>1 DEF IsParser
<1>3. Moves(p, q, p.state, hs, fl, p.content_length)
  BY <1>2 DEF IsParser, Moves
<1> QED
  BY <1>1, <1>3, Zenon

\* What the parser makes of the first symbol of a value of field f.
ValueBegun(r, f) ==
    /\ parser'.state = "header_value" /\ parser'.version = parser.version /\ IsParser(parser')
    /\ parser'.header_state = Read(f, 1)
    /\ f = "length" => /\ "content_length" \notin parser.flags
                       /\ parser'.flags = parser.flags \cup {"content_length"}
                       /\ parser'.content_length = Len(r.body) \div 10
    /\ f # "length" => parser'.content_length = parser.content_length
    /\ f = "upgrade" => parser'.flags = parser.flags \cup {"upgrade"}
    /\ f = "h2" => parser'.flags = parser.flags \cup {"upgrade"} \/ parser'.flags = parser.flags
    /\ f \notin {"length", "upgrade", "h2"} => parser'.flags = parser.flags

\* A value begins.
LEMMA ValueStarts ==
    ASSUME Conn, NEW r, IsRequest(r), NEW l \in Seq(Symbol), AtSpace(r, l), ValueStart
    PROVE  Conn' /\ Quiet /\ InRequest(r, l)'
<1>1. PICK j \in 1..Len(r.fields) :
         /\ Named(r, j)
         /\ \/ /\ parser.state = "header_value_discard_ws"
               /\ \/ Coming = FromSpace(r, j, IF r.fields[j] = "blank" THEN 1 ELSE 0, l)
                  \/ Coming = FromSpace(r, j, 1, l)
            \/ /\ parser.state = "discard_ws_almost_done" /\ r.fields[j] = "blank"
               /\ Coming = <<"LF">> \o FromLine(r, j + 1, l)
            \/ /\ parser.state = "discard_lws" /\ r.fields[j] = "blank"
               /\ Coming = FromLine(r, j + 1, l)
  BY SpaceParts
<1>2. PICK f \in FieldKinds : f = r.fields[j]
  BY LinesTyped
<1>30. PICK C : C = ValueSymbol \ {" "}
  BY Zenon
<1>3. C = ValueSymbol \ {" "} /\ C \subseteq ValueSymbol /\ " " \notin C
  BY <1>30, Zenon
<1>4. Takes({"header_value_discard_ws"}, C)
  BY <1>3, Zenon DEF ValueStart
<1>5. /\ requests' = requests /\ stream' = stream /\ at' = at + 1 /\ ch \in Symbol
      /\ ch \in C /\ parser.state = "header_value_discard_ws"
      /\ SentRequests' /\ stream' \in Seq(Symbol) /\ at' \in Nat
  BY <1>4, Taking
<1>6. ch \notin {"CR", "LF"}
  <2>1. "CR" \notin ValueSymbol /\ "LF" \notin ValueSymbol
    BY DigitDomain, Zenon DEF ValueSymbol, Ten
  <2> QED
    BY <1>3, <1>5, <2>1, Zenon
<1>7. f # "blank" /\ ch = ValueSaid(r, f)[1] /\ Coming' = FromValue(r, j, 1, l)
  <2>1. \/ Coming = FromSpace(r, j, IF r.fields[j] = "blank" THEN 1 ELSE 0, l)
        \/ Coming = FromSpace(r, j, 1, l)
    BY <1>1, <1>5
  <2>2. \/ r.fields[j] = "blank" /\ Coming = r.eol \o FromLine(r, j + 1, l)
        \/ /\ r.fields[j] # "blank" /\ ch = " "
           /\ Begins(Coming, " ", FromSpace(r, j, 1, l))
        \/ /\ r.fields[j] # "blank" /\ ch = ValueSaid(r, r.fields[j])[1]
           /\ Begins(Coming, ValueSaid(r, r.fields[j])[1], FromValue(r, j, 1, l))
    BY <2>1, SpaceComes, Zenon
  <2>3. PICK x \in Seq(Symbol) : x = FromLine(r, j + 1, l)
    BY LineBehind
  <2>4. Coming # r.eol \o x
    <3>1. SUFFICES ASSUME Coming = r.eol \o x PROVE FALSE
      OBVIOUS
    <3>2. Begins(Coming, "CR", <<"LF">> \o x) \/ Begins(Coming, "LF", x)
      BY <3>1, EolBegins
    <3>3. ch = "CR" \/ ch = "LF"
      BY <3>2, NextCome DEF Conn
    <3> QED
      BY <1>6, <3>3
  <2>5. ch # " "
    BY <1>3, <1>5, Zenon
  <2>6. f # "blank" /\ ch = ValueSaid(r, f)[1]
        /\ Begins(Coming, ValueSaid(r, f)[1], FromValue(r, j, 1, l))
    BY <1>2, <2>2, <2>3, <2>4, <2>5, Zenon
  <2> QED
    BY <1>5, <2>6, NextCome DEF Conn
<1>8. /\ mark = NoMark /\ InHeaders(r)
      /\ Holds(req, r, j, Len(NameText(r.fields[j])), 0) /\ req.building = 1
      /\ FlagsInv(parser, r, j, j - 1, j - 1) /\ LengthInv(parser, r, j - 1)
      /\ parser.header_state = Known(f)
  BY <1>1, <1>2, Zenon DEF Named
<1>9. Marks("value") /\ UNCHANGED connection /\ url_start_mark' = url_start_mark
  BY Zenon DEF ValueStart
<1>10. /\ IsMark(mark') /\ mark'.of = "value" /\ mark'.text # <<>> /\ SameHanded /\ IsReq(req')
       /\ Building(Delivered', req.headers, req.field, <<ch>>, 0)
       /\ UNCHANGED <<req, found, code, socket, close_connection_, answers, handled>>
  <2>1. req.building # 0
    BY <1>8
  <2> QED
    BY <1>5, <1>8, <1>9, <2>1, ValueMarked, Zenon
<1>11. Holds(Delivered', r, j, Len(NameText(r.fields[j])), 1)
  <2>1. PICK v \in Seq(Symbol) : v = ValueSaid(r, f)
    BY ValueTyped
  <2>2. v # <<>>
    <3>1. PICK n \in Nat : n = Len(v)
      OBVIOUS
    <3>2. n > 0
      BY <1>7, <2>1, <3>1, ValueTyped, Zenon
    <3> QED
      BY <3>1, <3>2
  <2>3. Upto(ValueSaid(r, f), 1) = <<ch>>
    BY <1>7, <2>1, <2>2, UptoOne, Zenon
  <2> QED
    BY <1>2, <1>8, <1>10, <2>3, Zenon DEF Holds, Building
<1>12. PICK p : p = [parser EXCEPT !.state = "header_value"]
  OBVIOUS
<1>13. Moves(parser, p, "header_value", Known(f), parser.flags, parser.content_length)
  <2>1. IsParser(parser) /\ 0 \in Int
    BY DEF Conn
  <2> QED
    BY <1>8, <1>12, <2>1, ParserMoves
<1>14. /\ p.header_state = Known(f) /\ p.flags = parser.flags /\ p.state = "header_value"
       /\ p.content_length = parser.content_length /\ p.version = parser.version /\ IsParser(p)
  BY <1>13 DEF Moves
<1>15. \/ /\ p.header_state = "upgrade"
          /\ \E ahead \in IF ch = "h" THEN BOOLEAN ELSE {FALSE} :
               parser' = [p EXCEPT !.header_state = "general", !.peeked = ahead,
                                   !.flags = IF ahead THEN @ ELSE @ \cup {"upgrade"}]
       \/ /\ p.header_state = "content_length"
          /\ parser' = [p EXCEPT !.header_state = "content_length_num",
                                 !.content_length = Digit[ch], !.flags = @ \cup {"content_length"}]
          /\ "content_length" \notin p.flags
       \/ /\ p.header_state \in {"connection", "transfer_encoding"}
          /\ parser' = [p EXCEPT !.header_state = Value[ch]]
       \/ p.header_state = "general" /\ parser' = p
  BY <1>12, Zenon DEF ValueStart
<1>16. ValueBegun(r, f)
  <2>1. f \in {"upgrade", "h2"} <=> Known(f) = "upgrade"
    BY DEF Known
  <2>2. f = "length" <=> Known(f) = "content_length"
    BY DEF Known
  <2>3. f \in {"close", "keep", "chunked"} <=> Known(f) \in {"connection", "transfer_encoding"}
    BY DEF Known
  <2>4. f \in {"host", "folded", "expect", "blank"} => Known(f) = "general"
    BY DEF Known
  <2>5. CASE p.header_state = "upgrade"
    <3>1. f \in {"upgrade", "h2"} /\ Read(f, 1) = "general"
      BY <1>14, <2>1, <2>5 DEF Read
    <3>2. PICK ahead \in IF ch = "h" THEN BOOLEAN ELSE {FALSE} :
            parser' = [p EXCEPT !.header_state = "general", !.peeked = ahead,
                                !.flags = IF ahead THEN @ ELSE @ \cup {"upgrade"}]
      BY <1>15, <2>5, Zenon
    <3>3. PICK fl : fl = IF ahead THEN p.flags ELSE p.flags \cup {"upgrade"}
      OBVIOUS
    <3>4. parser' = [p EXCEPT !.header_state = "general", !.peeked = ahead, !.flags = fl]
      BY <3>2, <3>3, Zenon
    <3>5. Moves(p, parser', p.state, "general", fl, p.content_length)
      BY <1>14, <3>4, PeekMoves, Zenon
    <3>6. /\ parser'.state = "header_value" /\ parser'.header_state = "general"
          /\ parser'.flags = fl /\ parser'.content_length = parser.content_length
          /\ parser'.version = parser.version /\ IsParser(parser')
      BY <1>14, <3>5, Zenon DEF Moves
    <3>7. f = "upgrade" => ~ahead
      <4>1. f = "upgrade" => ch = "websocket"
        BY <1>7, ValueSymbols, Zenon
      <4> QED
        BY <3>2, <4>1
    <3> QED
      BY <1>14, <3>1, <3>3, <3>6, <3>7 DEF ValueBegun
  <2>6. CASE p.header_state = "content_length"
    <3>1. f = "length" /\ Read(f, 1) = "content_length_num"
      BY <1>14, <2>2, <2>6 DEF Read
    <3>2. /\ parser' = [p EXCEPT !.header_state = "content_length_num",
                           !.content_length = Digit[ch], !.flags = @ \cup {"content_length"}]
          /\ "content_length" \notin p.flags
      BY <1>15, <2>6
    <3>3. PICK n \in Nat : n = Digit[ch] /\ n = Len(r.body) \div 10
      <4>1. PICK d \in 0..9 : d = Len(r.body) \div 10
        BY BodyLength
      <4>2. ch = Digits(d)
        BY <1>7, <3>1, <4>1, ValueSymbols, Zenon
      <4>3. d \in Nat
        OBVIOUS
      <4>4. Digit[ch] = d
        BY <4>2, DigitsRead
      <4> QED
        BY <4>1, <4>3, <4>4, Zenon
    <3>4. PICK fl : fl = p.flags \cup {"content_length"}
      OBVIOUS
    <3>5. parser' = [p EXCEPT !.header_state = "content_length_num", !.content_length = n,
                              !.flags = fl]
      BY <3>2, <3>3, <3>4, Zenon
    <3>6. n \in Int
      OBVIOUS
    <3>7. Moves(p, parser', p.state, "content_length_num", fl, n)
      BY <1>14, <3>5, <3>6, ParserMoves, Zenon
    <3>8. /\ parser'.state = "header_value" /\ parser'.header_state = "content_length_num"
          /\ parser'.flags = fl /\ parser'.content_length = n
          /\ parser'.version = parser.version /\ IsParser(parser')
      BY <1>14, <3>7, Zenon DEF Moves
    <3> QED
      BY <1>14, <3>1, <3>2, <3>3, <3>4, <3>8 DEF ValueBegun
  <2>7. CASE p.header_state \in {"connection", "transfer_encoding"}
    <3>1. f \in {"close", "keep", "chunked"}
      BY <1>14, <2>3, <2>7
    <3>2. parser' = [p EXCEPT !.header_state = Value[ch]]
      BY <1>15, <2>7
    <3>3. Moves(p, parser', p.state, Value[ch], p.flags, p.content_length)
      <4>1. 0 \in Int
        OBVIOUS
      <4> QED
        BY <1>14, <3>2, <4>1, ParserMoves
    <3>4. Value[ch] = Read(f, 1)
      <4>1. /\ f = "close" => ch = "clo"
            /\ f = "keep" => ch = "keep-"
            /\ f = "chunked" => ch = "chun"
        BY <1>7, ValueSymbols, Zenon
      <4> QED
        BY <3>1, <4>1 DEF Read, Value
    <3>5. /\ parser'.state = "header_value" /\ parser'.header_state = Read(f, 1)
          /\ parser'.flags = parser.flags /\ parser'.content_length = parser.content_length
          /\ parser'.version = parser.version /\ IsParser(parser')
      BY <1>14, <3>3, <3>4, Zenon DEF Moves
    <3> QED
      BY <3>1, <3>5 DEF ValueBegun
  <2>8. CASE p.header_state = "general"
    <3>1. f \in {"host", "folded", "expect"} /\ Read(f, 1) = "general"
      BY <1>7, <1>14, <2>1, <2>2, <2>3, <2>8 DEF FieldKinds, Read
    <3>2. parser' = p
      BY <1>15, <2>8
    <3>3. parser'.header_state = "general"
      BY <2>8, <3>2
    <3> QED
      BY <1>14, <3>1, <3>2, <3>3 DEF ValueBegun
  <2> QED
    BY <1>15, <2>5, <2>6, <2>7, <2>8, Zenon
<1>17. /\ parser'.state = "header_value" /\ parser'.version = parser.version /\ IsParser(parser')
       /\ parser'.header_state = Read(f, 1)
  BY <1>16 DEF ValueBegun
<1>18. FlagsInv(parser', r, j, j, j - 1)
  BY <1>2, <1>8, <1>16, NumFlag DEF ValueBegun
<1>19. IF f = "length" THEN parser'.content_length = Len(r.body) \div 10
       ELSE LengthInv(parser', r, j)
  <2>1. CASE f = "length"
    BY <1>16, <2>1 DEF ValueBegun
  <2>2. CASE f # "length"
    <3>1. parser'.content_length = parser.content_length
      BY <1>16, <2>2 DEF ValueBegun
    <3>2. LengthInv(parser', r, j)
      BY <1>2, <1>8, <2>2, <3>1, LengthNext
    <3> QED
      BY <2>2, <3>2
  <2> QED
    BY <2>1, <2>2
<1>20. InHeaders(r)'
  BY <1>8, <1>10, <1>17, HeadersGoOn
<1>21. ReadTo(r, j, 1)'
  <2>1. Delivered'.building = 0
    BY <1>10 DEF Building
  <2>2. 1 = 1
    OBVIOUS
  <2> QED
    BY <1>2, <1>11, <1>17, <1>18, <1>19, <1>20, <2>1, <2>2, Zenon DEF ReadTo
<1>22. ValueStage(r, j, 1, l)'
  BY <1>7, <1>10, <1>17, Zenon DEF ValueStage
<1>23. 1 \in 1..Len(ValueSaid(r, r.fields[j]))
  <2>1. PICK n \in Nat : n = Len(ValueSaid(r, f)) /\ n <= 3
    BY ValuePlace
  <2>2. n > 0
    BY <1>7, <2>1, ValueTyped, Zenon
  <2>3. 1 \in 1..n
    BY <2>2
  <2> QED
    BY <1>2, <2>1, <2>3, Zenon
<1>24. InRequest(r, l)'
  BY <1>21, <1>22, <1>23, ValuePartsNext
<1>25. url_start_mark' \in Nat /\ url_start_mark' <= at'
  BY <1>5, <1>9, MarkStays
<1>26. Conn'
  BY <1>5, <1>10, <1>17, <1>25 DEF Conn
<1> QED
  BY <1>5, <1>10, <1>24, <1>26 DEF Quiet

\* Where in its value field j is, and what comes then.
LEMMA ValuePicked ==
    ASSUME NEW r, IsRequest(r), NEW l, InValue(r, l)
    PROVE  \E j \in 1..Len(r.fields) : \E f \in FieldKinds : \E n \in Nat : \E k \in 1..n :
             /\ f = r.fields[j] /\ n = Len(ValueSaid(r, f)) /\ n <= 3
             /\ ReadTo(r, j, k) /\ ValueStage(r, j, k, l)
<1>1. PICK j \in 1..Len(r.fields) : \E k \in 1..Len(ValueSaid(r, r.fields[j])) :
                               ReadTo(r, j, k) /\ ValueStage(r, j, k, l)
  BY ValueParts
<1>2. PICK f \in FieldKinds : f = r.fields[j]
  BY LinesTyped
<1>3. PICK n \in Nat : n = Len(ValueSaid(r, f)) /\ n <= 3
  BY ValuePlace
<1>4. PICK k \in 1..n : ReadTo(r, j, k) /\ ValueStage(r, j, k, l)
  BY <1>1, <1>2, <1>3, Zenon
<1> QED
  BY <1>2, <1>3, <1>4, Zenon

\* The value goes on, or its line ends.
LEMMA ValueFollows ==
    ASSUME Conn, NEW r, IsRequest(r), NEW l \in Seq(Symbol), NEW j \in 1..Len(r.fields),
           NEW f \in FieldKinds, f = r.fields[j], NEW n \in Nat, n = Len(ValueSaid(r, f)),
           NEW k \in 1..n, Coming = FromValue(r, j, k, l)
    PROVE  /\ k < n /\ ~Folds(f, k) =>
                Begins(Coming, ValueSaid(r, f)[k + 1], FromValue(r, j, k + 1, l))
           /\ k = n \/ Folds(f, k) =>
                /\ FromNext(r, j, k, l) \in Seq(Symbol)
                /\ \/ Begins(Coming, "CR", <<"LF">> \o FromNext(r, j, k, l))
                   \/ Begins(Coming, "LF", FromNext(r, j, k, l))
<1>1. ASSUME k < n, ~Folds(f, k)
      PROVE  Begins(Coming, ValueSaid(r, f)[k + 1], FromValue(r, j, k + 1, l))
  <2>1. k \in 1..(n - 1)
    BY <1>1
  <2>2. k \in 1..(Len(ValueSaid(r, f)) - 1)
    BY <2>1, Zenon
  <2> QED
    BY <1>1, <2>2, ValueComes, Zenon
<1>2. ASSUME k = n \/ Folds(f, k)
      PROVE  /\ FromNext(r, j, k, l) \in Seq(Symbol)
             /\ \/ Begins(Coming, "CR", <<"LF">> \o FromNext(r, j, k, l))
                \/ Begins(Coming, "LF", FromNext(r, j, k, l))
  <2>1. /\ FromValue(r, j, k, l) = r.eol \o FromNext(r, j, k, l)
        /\ FromNext(r, j, k, l) \in Seq(Symbol)
    BY <1>2, ValueComes, Zenon
  <2>2. PICK x \in Seq(Symbol) : x = FromNext(r, j, k, l)
    BY <2>1
  <2>3. Coming = r.eol \o x
    BY <2>1, <2>2, Zenon
  <2>4. Begins(Coming, "CR", <<"LF">> \o x) \/ Begins(Coming, "LF", x)
    BY <2>3, EolBegins, Zenon
  <2> QED
    BY <2>2, <2>4, Zenon
<1> QED
  BY <1>1, <1>2

\* What the parser makes of symbol k + 1 of a value of field f.
ValueRead(r, f, k) ==
    /\ parser'.state = parser.state /\ parser'.version = parser.version /\ IsParser(parser')
    /\ parser'.header_state = Read(f, k + 1) /\ parser'.flags = parser.flags
    /\ parser'.content_length = IF f = "length" THEN Len(r.body) ELSE parser.content_length

\* The values that have more than one symbol.
LEMMA LongValue ==
    ASSUME NEW r, NEW f \in FieldKinds, NEW n \in Nat, n = Len(ValueSaid(r, f)),
           NEW k \in 1..n, k < n, ~Folds(f, k)
    PROVE  \/ k = 1 /\ f \in {"h2", "close", "keep", "length", "chunked"}
           \/ k = 2 /\ f = "folded"
<1>1. f \in {"host", "upgrade", "expect"} => n = 1
  BY ValueSymbols, Zenon
<1>2. f \in {"h2", "close", "keep", "length", "chunked"} => n = 2
  BY ValueSymbols, Zenon
<1>3. f = "folded" => n = 3
  BY ValueSymbols, Zenon
<1>4. f = "blank" => n = 0
  BY ValueSymbols, Zenon
<1>5. ~(f = "folded" /\ k = 1)
  BY DEF Folds
<1>6. CASE f \in {"host", "upgrade", "expect"}
  BY <1>1, <1>6
<1>7. CASE f \in {"h2", "close", "keep", "length", "chunked"}
  <2>1. k \in 1..2 /\ k < 2
    BY <1>2, <1>7
  <2>2. k = 1
    BY <2>1
  <2> QED
    BY <1>7, <2>2, Zenon
<1>8. CASE f = "folded"
  <2>1. k \in 1..3 /\ k < 3 /\ k # 1
    BY <1>3, <1>5, <1>8
  <2>2. k = 2
    BY <2>1
  <2> QED
    BY <1>8, <2>2
<1>9. CASE f = "blank"
  BY <1>4, <1>9
<1> QED
  BY <1>6, <1>7, <1>8, <1>9 DEF FieldKinds

\* A value goes on.
LEMMA ValueIsMore ==
    ASSUME Conn, NEW r, IsRequest(r), NEW l \in Seq(Symbol), InValue(r, l), ValueGoesOn
    PROVE  Conn' /\ Quiet /\ InRequest(r, l)'
<1>1. PICK j \in 1..Len(r.fields) : \E f \in FieldKinds : \E n \in Nat : \E k \in 1..n :
             /\ f = r.fields[j] /\ n = Len(ValueSaid(r, f)) /\ n <= 3
             /\ ReadTo(r, j, k) /\ ValueStage(r, j, k, l)
  BY ValuePicked
<1>2. PICK f \in FieldKinds : \E n \in Nat : \E k \in 1..n :
             /\ f = r.fields[j] /\ n = Len(ValueSaid(r, f)) /\ n <= 3
             /\ ReadTo(r, j, k) /\ ValueStage(r, j, k, l)
  BY <1>1
<1>3. PICK n \in Nat : \E k \in 1..n :
             /\ f = r.fields[j] /\ n = Len(ValueSaid(r, f)) /\ n <= 3
             /\ ReadTo(r, j, k) /\ ValueStage(r, j, k, l)
  BY <1>2
<1>4. PICK k \in 1..n :
             /\ f = r.fields[j] /\ n = Len(ValueSaid(r, f)) /\ n <= 3
             /\ ReadTo(r, j, k) /\ ValueStage(r, j, k, l)
  BY <1>3
<1>5. PICK C : C = ValueSymbol
  BY Zenon
<1>6. /\ Takes({"header_value"}, C) /\ Marks("value") /\ UNCHANGED <<url_start_mark, connection>>
  BY <1>5, Zenon DEF ValueGoesOn
<1>7. /\ requests' = requests /\ stream' = stream /\ at' = at + 1 /\ ch \in Symbol
      /\ ch \in C /\ parser.state = "header_value"
      /\ SentRequests' /\ stream' \in Seq(Symbol) /\ at' \in Nat
  BY <1>6, Taking
<1>8. ch \notin {"CR", "LF"}
  <2>1. "CR" \notin ValueSymbol /\ "LF" \notin ValueSymbol
    BY DigitDomain, Zenon DEF ValueSymbol, Ten
  <2> QED
    BY <1>5, <1>7, <2>1, Zenon
<1>9. mark.of = "value" /\ Coming = FromValue(r, j, k, l)
  BY <1>4, <1>7 DEF ValueStage
<1>10. k < n /\ ~Folds(f, k)
  <2>1. SUFFICES ASSUME k = n \/ Folds(f, k) PROVE FALSE
    OBVIOUS
  <2>2. \/ Begins(Coming, "CR", <<"LF">> \o FromNext(r, j, k, l))
        \/ Begins(Coming, "LF", FromNext(r, j, k, l))
    BY <1>4, <1>9, <2>1, ValueFollows, Zenon
  <2>3. ch = "CR" \/ ch = "LF"
    BY <2>2, NextCome, Zenon DEF Conn
  <2> QED
    BY <1>8, <2>3
<1>11. ch = ValueSaid(r, f)[k + 1] /\ Coming' = FromValue(r, j, k + 1, l)
  <2>1. Begins(Coming, ValueSaid(r, f)[k + 1], FromValue(r, j, k + 1, l))
    BY <1>4, <1>9, <1>10, ValueFollows, Zenon
  <2> QED
    BY <1>7, <2>1, NextCome, Zenon DEF Conn
<1>12. /\ InHeaders(r) /\ Holds(Delivered, r, j, Len(NameText(r.fields[j])), k)
       /\ Delivered.building = 0 /\ FlagsInv(parser, r, j, j, j - 1)
       /\ IF f = "length" /\ k = 1 THEN parser.content_length = Len(r.body) \div 10
          ELSE LengthInv(parser, r, j)
       /\ parser.header_state = Read(f, k)
  BY <1>4, Zenon DEF ReadTo
<1>13. /\ IsMark(mark') /\ mark'.of = "value" /\ mark'.text # <<>> /\ SameHanded /\ IsReq(req')
       /\ Building(Delivered', Delivered.headers, Delivered.field, Delivered.value \o <<ch>>, 0)
       /\ UNCHANGED <<req, found, code, socket, close_connection_, answers, handled>>
       /\ url_start_mark' = url_start_mark
  <2>1. url_start_mark' = url_start_mark /\ UNCHANGED connection
    BY <1>6
  <2> QED
    BY <1>6, <1>7, <1>9, <1>12, <2>1, ValueMarked, Zenon
<1>14. Holds(Delivered', r, j, Len(NameText(r.fields[j])), k + 1)
  <2>1. PICK v \in Seq(Symbol) : v = ValueSaid(r, f)
    BY ValueTyped
  <2>2. k \in Nat /\ k < Len(v)
    <3>1. k \in Nat
      OBVIOUS
    <3> QED
      BY <1>4, <1>10, <2>1, <3>1, Zenon
  <2>3. Upto(v, k + 1) = Upto(v, k) \o <<v[k + 1]>>
    BY <2>2, UptoNext
  <2>4. Upto(ValueSaid(r, f), k + 1) = Upto(ValueSaid(r, f), k) \o <<ch>>
    BY <1>11, <2>1, <2>3, Zenon
  <2> QED
    BY <1>4, <1>12, <1>13, <2>4, Zenon DEF Holds, Building
<1>15. \/ k = 1 /\ f \in {"h2", "close", "keep", "length", "chunked"}
       \/ k = 2 /\ f = "folded"
  BY <1>4, <1>10, LongValue
<1>16. PICK p : p = [parser EXCEPT !.peeked = FALSE]
  OBVIOUS
<1>17. Moves(parser, p, parser.state, parser.header_state, parser.flags, parser.content_length)
  <2>1. IsParser(parser) /\ 0 \in Int
    BY DEF Conn
  <2> QED
    BY <1>16, <2>1, ParserMoves
<1>18. /\ p.header_state = Read(f, k) /\ p.flags = parser.flags /\ p.state = parser.state
       /\ p.content_length = parser.content_length /\ p.version = parser.version /\ IsParser(p)
  BY <1>12, <1>17 DEF Moves
<1>19. parser' = CASE p.header_state = "content_length_num" -> NextDigit(p)
                   [] p.header_state \in DOMAIN ValueRest ->
                        [p EXCEPT !.header_state = ValueRest[p.header_state]]
                   [] OTHER -> p
  BY <1>16, Zenon DEF ValueGoesOn
<1>20. ValueRead(r, f, k)
  <2>1. /\ DOMAIN ValueRest = {"matching_chunked", "matching_close", "matching_keep"}
        /\ ValueRest["matching_chunked"] = "chunked" /\ ValueRest["matching_close"] = "close"
        /\ ValueRest["matching_keep"] = "keep_alive"
    BY DEF ValueRest
  <2>2. CASE f = "length"
    <3>1. k = 1 /\ Read(f, 1) = "content_length_num" /\ Read(f, 2) = "content_length_num"
      BY <1>15, <2>2 DEF Read
    <3>2. parser' = NextDigit(p)
      <4>1. p.header_state = "content_length_num"
        BY <1>4, <1>18, <2>2, <3>1, Zenon
      <4> QED
        BY <1>19, <4>1, <2>1, SMTT(30)
    <3>3. PICK d \in 0..9, e \in 0..9 : d = Len(r.body) \div 10 /\ e = Len(r.body) % 10
      BY BodyLength
    <3>4. 1 + 1 = 2
      OBVIOUS
    <3>5. ch = Digits(e)
      BY <1>11, <2>2, <3>1, <3>3, <3>4, ValueSymbols, Zenon
    <3>6. Digit[ch] = e
      BY <3>5, DigitsRead
    <3>7. p.content_length = d
      BY <1>12, <1>18, <2>2, <3>1, <3>3, Zenon
    <3>8. PICK x \in Nat : x = d * 10 + e
      OBVIOUS
    <3>9. x = Len(r.body)
      <4>1. Len(r.body) = 10 * d + e
        BY <3>3, BodyLength, Zenon
      <4>2. 10 * d + e = d * 10 + e
        OBVIOUS
      <4> QED
        BY <3>8, <4>1, <4>2, Zenon
    <3>10. parser' = [p EXCEPT !.content_length = x]
      <4>1. parser' = [p EXCEPT !.content_length = @ * 10 + Digit[ch]]
        BY <3>2, Zenon DEF NextDigit
      <4> QED
        BY <3>6, <3>7, <3>8, <4>1
    <3>11. x \in Int
      OBVIOUS
    <3>12. Moves(p, parser', p.state, p.header_state, p.flags, x)
      BY <1>18, <3>10, <3>11, ParserMoves
    <3>13. /\ parser'.state = parser.state /\ parser'.header_state = Read(f, k)
           /\ parser'.flags = parser.flags /\ parser'.content_length = x
           /\ parser'.version = parser.version /\ IsParser(parser')
      BY <1>18, <3>12, Zenon DEF Moves
    <3> QED
      BY <2>2, <3>1, <3>4, <3>9, <3>13, Zenon DEF ValueRead
  <2>3. CASE f \in {"close", "keep", "chunked"}
    <3>1. k = 1
      BY <1>15, <2>3
    <3>2. /\ Read(f, 1) \in DOMAIN ValueRest /\ Read(f, 1) # "content_length_num"
          /\ ValueRest[Read(f, 1)] = Read(f, 2)
      BY <2>1, <2>3 DEF Read
    <3>3. parser' = [p EXCEPT !.header_state = Read(f, 2)]
      BY <1>18, <1>19, <3>1, <3>2
    <3>4. Moves(p, parser', p.state, Read(f, 2), p.flags, p.content_length)
      <4>1. 0 \in Int
        OBVIOUS
      <4> QED
        BY <1>18, <3>3, <4>1, ParserMoves
    <3>5. /\ parser'.state = parser.state /\ parser'.header_state = Read(f, 2)
          /\ parser'.flags = parser.flags /\ parser'.content_length = parser.content_length
          /\ parser'.version = parser.version /\ IsParser(parser')
      BY <1>18, <3>4, Zenon DEF Moves
    <3>6. 1 + 1 = 2 /\ f # "length"
      BY <2>3
    <3> QED
      BY <3>1, <3>5, <3>6, Zenon DEF ValueRead
  <2>4. CASE f \in {"h2", "folded"}
    <3>1. \A m : Read(f, m) = "general"
      BY <2>4 DEF Read
    <3>2. parser' = p
      BY <1>18, <1>19, <2>1, <3>1
    <3>3. f # "length"
      BY <2>4
    <3> QED
      BY <1>18, <3>1, <3>2, <3>3 DEF ValueRead
  <2> QED
    BY <1>15, <2>2, <2>3, <2>4
<1>21. /\ parser'.state = parser.state /\ parser'.version = parser.version /\ IsParser(parser')
       /\ parser'.header_state = Read(f, k + 1) /\ parser'.flags = parser.flags
       /\ parser'.content_length = IF f = "length" THEN Len(r.body) ELSE parser.content_length
  BY <1>20 DEF ValueRead
<1>22. FlagsInv(parser', r, j, j, j - 1)
  BY <1>12, <1>21, Zenon DEF FlagsInv
<1>23. LengthInv(parser', r, j)
  <2>1. CASE f = "length"
    BY <1>4, <1>21, <2>1, LengthNext
  <2>2. CASE f # "length"
    BY <1>12, <1>21, <2>2 DEF LengthInv
  <2> QED
    BY <2>1, <2>2
<1>24. InHeaders(r)'
  BY <1>12, <1>13, <1>21, HeadersGoOn
<1>25. PICK i \in 1..n : i = k + 1 /\ i # 1
  BY <1>10
<1>26. ReadTo(r, j, i)'
  <2>1. Delivered'.building = 0
    BY <1>13 DEF Building
  <2> QED
    BY <1>4, <1>14, <1>21, <1>22, <1>23, <1>24, <1>25, <2>1, Zenon DEF ReadTo
<1>27. ValueStage(r, j, i, l)'
  BY <1>7, <1>11, <1>13, <1>21, <1>25, Zenon DEF ValueStage
<1>28. i \in 1..Len(ValueSaid(r, r.fields[j]))
  BY <1>4, <1>25, Zenon
<1>29. InRequest(r, l)'
  BY <1>26, <1>27, <1>28, ValuePartsNext
<1>30. url_start_mark' \in Nat /\ url_start_mark' <= at'
  BY <1>7, <1>13, MarkStays
<1>31. Conn'
  BY <1>7, <1>13, <1>21, <1>30 DEF Conn
<1> QED
  BY <1>7, <1>13, <1>29, <1>31 DEF Quiet

\* What is known of a value stays when only the parser's state changes.
LEMMA ReadStays ==
    ASSUME NEW r, NEW j, NEW k, ReadTo(r, j, k), NEW s, StateOnly(s), Delivered' = Delivered,
           found' = found, code' = code
    PROVE  ReadTo(r, j, k)'
<1>1. /\ parser'.state = s /\ parser'.header_state = parser.header_state
      /\ parser'.flags = parser.flags /\ parser'.content_length = parser.content_length
      /\ parser'.version = parser.version
  BY DEF StateOnly
<1>2. SameHanded
  BY Zenon DEF SameHanded
<1>3. InHeaders(r)'
  BY <1>1, <1>2, HeadersGoOn, Zenon DEF ReadTo
<1>4. FlagsInv(parser', r, j, j, j - 1)
  BY <1>1, Zenon DEF ReadTo, FlagsInv
<1>5. Holds(Delivered', r, j, Len(NameText(r.fields[j])), k) /\ Delivered'.building = 0
  BY Zenon DEF ReadTo
<1>6. IF r.fields[j] = "length" /\ k = 1 THEN parser'.content_length = Len(r.body) \div 10
      ELSE LengthInv(parser', r, j)
  BY <1>1, Zenon DEF ReadTo, LengthInv
<1>7. parser'.header_state = Read(r.fields[j], k)
  BY <1>1, Zenon DEF ReadTo
<1> QED
  BY <1>3, <1>4, <1>5, <1>6, <1>7, Zenon DEF ReadTo

\* The line of a value ends.
LEMMA ValueIsOver ==
    ASSUME Conn, NEW r, IsRequest(r), NEW l \in Seq(Symbol), InValue(r, l), ValueEnds
    PROVE  Conn' /\ Quiet /\ InRequest(r, l)'
<1>1. PICK j \in 1..Len(r.fields) : \E f \in FieldKinds : \E n \in Nat : \E k \in 1..n :
             /\ f = r.fields[j] /\ n = Len(ValueSaid(r, f)) /\ n <= 3
             /\ ReadTo(r, j, k) /\ ValueStage(r, j, k, l)
  BY ValuePicked
<1>2. PICK f \in FieldKinds : \E n \in Nat : \E k \in 1..n :
             /\ f = r.fields[j] /\ n = Len(ValueSaid(r, f)) /\ n <= 3
             /\ ReadTo(r, j, k) /\ ValueStage(r, j, k, l)
  BY <1>1
<1>3. PICK n \in Nat : \E k \in 1..n :
             /\ f = r.fields[j] /\ n = Len(ValueSaid(r, f)) /\ n <= 3
             /\ ReadTo(r, j, k) /\ ValueStage(r, j, k, l)
  BY <1>2
<1>4. PICK k \in 1..n :
             /\ f = r.fields[j] /\ n = Len(ValueSaid(r, f)) /\ n <= 3
             /\ ReadTo(r, j, k) /\ ValueStage(r, j, k, l)
  BY <1>3
<1>5. PICK s : s = IF ch = "CR" THEN "header_almost_done" ELSE "header_value_lws"
  OBVIOUS
<1>6. /\ Takes({"header_value"}, {"CR", "LF"}) /\ Goes(s) /\ Delivers
      /\ UNCHANGED <<url_start_mark, socket, close_connection_, answers, handled>>
  BY <1>5, Zenon DEF ValueEnds
<1>7. /\ requests' = requests /\ stream' = stream /\ at' = at + 1
      /\ ch \in {"CR", "LF"} /\ parser.state = "header_value"
      /\ SentRequests' /\ stream' \in Seq(Symbol) /\ at' \in Nat
  BY <1>6, Taking
<1>8. mark.of = "value" /\ Coming = FromValue(r, j, k, l)
  <2>1. mark.of = "value" \/ parser.state = "header_almost_done" \/ parser.state = "header_value_lws"
    BY <1>4, Zenon DEF ValueStage
  <2> QED
    BY <1>4, <1>7 DEF ValueStage
<1>9. k = n \/ Folds(f, k)
  <2>1. SUFFICES ASSUME k # n, ~Folds(f, k) PROVE FALSE
    BY Zenon
  <2>2. k < n
    BY <2>1
  <2>3. Begins(Coming, ValueSaid(r, f)[k + 1], FromValue(r, j, k + 1, l))
    BY <1>4, <1>8, <2>1, <2>2, ValueFollows, Zenon
  <2>4. ch = ValueSaid(r, f)[k + 1]
    BY <2>3, NextCome, Zenon DEF Conn
  <2>5. \/ k = 1 /\ f \in {"h2", "close", "keep", "length", "chunked"}
        \/ k = 2 /\ f = "folded"
    BY <1>4, <2>1, <2>2, LongValue
  <2>6. 1 + 1 = 2 /\ 2 + 1 = 3
    OBVIOUS
  <2>7. CASE k = 1 /\ f \in {"h2", "close", "keep", "chunked"}
    <3>0. ch = ValueSaid(r, f)[2]
      BY <2>4, <2>6, <2>7, Zenon
    <3>2. f # "h2" => f \in {"close", "keep", "chunked"}
      BY <2>7, Zenon
    <3>1. ch \in {"2", "se", "alive", "ked"}
      BY <3>0, <3>2, ValueSymbols, Zenon
    <3> QED
      BY <1>7, <3>1
  <2>8. CASE k = 1 /\ f = "length"
    <3>1. ch = Digits(Len(r.body) % 10)
      BY <2>4, <2>6, <2>8, ValueSymbols, Zenon
    <3>2. ch \in Ten
      BY <3>1, BodyLength, DigitsRead
    <3> QED
      BY <1>7, <3>2 DEF Ten
  <2>9. CASE k = 2 /\ f = "folded"
    <3>0. ch = ValueSaid(r, f)[3]
      BY <2>4, <2>6, <2>9, Zenon
    <3>1. ch = "there"
      BY <2>9, <3>0, ValueSymbols, Zenon
    <3> QED
      BY <1>7, <3>1
  <2> QED
    BY <2>5, <2>7, <2>8, <2>9, Zenon
<1>10. PICK x \in Seq(Symbol) : x = FromNext(r, j, k, l)
                     /\ (Begins(Coming, "CR", <<"LF">> \o x) \/ Begins(Coming, "LF", x))
  BY <1>4, <1>8, <1>9, ValueFollows, Zenon
<1>11. IF ch = "CR" THEN Coming' = <<"LF">> \o x ELSE Coming' = x
  <2>1. CASE Begins(Coming, "CR", <<"LF">> \o x)
    BY <1>7, <2>1, NextCome DEF Conn
  <2>2. CASE Begins(Coming, "LF", x)
    <3>1. ch = "LF" /\ Coming' = x
      BY <1>7, <2>2, NextCome DEF Conn
    <3> QED
      BY <3>1
  <2> QED
    BY <1>10, <2>1, <2>2, Zenon
<1>12. /\ IsReq(req') /\ IsMark(mark') /\ mark' = NoMark /\ req' = Delivered
       /\ Delivered' = req' /\ found' = found /\ code' = code
  <2>1. mark.of # "url"
    BY <1>8
  <2> QED
    BY <1>6, <2>1, HandedOver
<1>13. StateOnly(s)
  BY <1>6, ParserGoes
<1>14. ReadTo(r, j, k)'
  BY <1>4, <1>12, <1>13, ReadStays
<1>15. ValueStage(r, j, k, l)'
  <2>1. parser'.state = s
    BY <1>13 DEF StateOnly
  <2>2. k = Len(ValueSaid(r, r.fields[j])) \/ Folds(r.fields[j], k)
    BY <1>4, <1>9, Zenon
  <2> QED
    BY <1>5, <1>10, <1>11, <1>12, <2>1, <2>2, Zenon DEF ValueStage
<1>16. k \in 1..Len(ValueSaid(r, r.fields[j]))
  BY <1>4, Zenon
<1>17. InRequest(r, l)'
  BY <1>14, <1>15, <1>16, ValuePartsNext
<1>18. url_start_mark' \in Nat /\ url_start_mark' <= at'
  BY <1>6, <1>7, MarkStays
<1>19. IsParser(parser')
  BY <1>13 DEF StateOnly
<1>20. Conn'
  BY <1>7, <1>12, <1>18, <1>19 DEF Conn
<1>21. Quiet
  BY <1>6, <1>7, QuietConnection
<1> QED
  BY <1>17, <1>20, <1>21

\* So does the line, when the end of it was in two symbols.
LEMMA ValueLineEnds ==
    ASSUME Conn, NEW r, IsRequest(r), NEW l \in Seq(Symbol), InValue(r, l),
           Takes({"header_almost_done"}, {"LF"}), Goes("header_value_lws"), Still
    PROVE  Conn' /\ Quiet /\ InRequest(r, l)'
<1>1. PICK j \in 1..Len(r.fields) : \E f \in FieldKinds : \E n \in Nat : \E k \in 1..n :
             /\ f = r.fields[j] /\ n = Len(ValueSaid(r, f)) /\ n <= 3
             /\ ReadTo(r, j, k) /\ ValueStage(r, j, k, l)
  BY ValuePicked
<1>2. PICK f \in FieldKinds : \E n \in Nat : \E k \in 1..n :
             /\ f = r.fields[j] /\ n = Len(ValueSaid(r, f)) /\ n <= 3
             /\ ReadTo(r, j, k) /\ ValueStage(r, j, k, l)
  BY <1>1
<1>3. PICK n \in Nat : \E k \in 1..n :
             /\ f = r.fields[j] /\ n = Len(ValueSaid(r, f)) /\ n <= 3
             /\ ReadTo(r, j, k) /\ ValueStage(r, j, k, l)
  BY <1>2
<1>4. PICK k \in 1..n :
             /\ f = r.fields[j] /\ n = Len(ValueSaid(r, f)) /\ n <= 3
             /\ ReadTo(r, j, k) /\ ValueStage(r, j, k, l)
  BY <1>3
<1>7. /\ requests' = requests /\ stream' = stream /\ at' = at + 1
      /\ parser.state = "header_almost_done"
      /\ SentRequests' /\ stream' \in Seq(Symbol) /\ at' \in Nat
  BY Taking
<1>8. /\ mark = NoMark /\ (k = n \/ Folds(f, k)) /\ Coming = <<"LF">> \o FromNext(r, j, k, l)
  <2>1. parser.state # "header_value" /\ parser.state # "header_value_lws"
    BY <1>7
  <2>2. ValueStage(r, j, k, l) /\ f = r.fields[j] /\ n = Len(ValueSaid(r, f))
    BY <1>4
  <2> QED
    BY <2>1, <2>2, Zenon DEF ValueStage
<1>9. PICK x \in Seq(Symbol) : x = FromNext(r, j, k, l)
  <2>1. k \in 1..Len(ValueSaid(r, f))
    BY <1>4, Zenon
  <2>2. FromNext(r, j, k, l) \in Seq(Symbol)
    BY <1>4, <1>8, <2>1, ValueComes, Zenon
  <2> QED
    BY <2>2
<1>10. Coming' = x
  <2>1. Begins(Coming, "LF", x)
    BY <1>8, <1>9, EmptyComes, Zenon
  <2> QED
    BY <1>7, <2>1, NextCome DEF Conn
<1>12. /\ IsReq(req') /\ IsMark(mark') /\ mark' = NoMark /\ req' = req
       /\ Delivered' = req' /\ Delivered = req
       /\ UNCHANGED <<url_start_mark, found, code, socket, close_connection_, answers, handled>>
  BY <1>8, StillUnmarked
<1>13. StateOnly("header_value_lws")
  BY ParserGoes
<1>14. ReadTo(r, j, k)'
  <2>1. Delivered' = Delivered /\ found' = found /\ code' = code
    BY <1>12
  <2> QED
    BY <1>4, <1>13, <2>1, ReadStays
<1>15. ValueStage(r, j, k, l)'
  <2>1. parser'.state = "header_value_lws"
    BY <1>13 DEF StateOnly
  <2>2. k = Len(ValueSaid(r, r.fields[j])) \/ Folds(r.fields[j], k)
    BY <1>4, <1>8, Zenon
  <2> QED
    BY <1>9, <1>10, <1>12, <2>1, <2>2, Zenon DEF ValueStage
<1>16. k \in 1..Len(ValueSaid(r, r.fields[j]))
  BY <1>4, Zenon
<1>17. InRequest(r, l)'
  BY <1>14, <1>15, <1>16, ValuePartsNext
<1>18. url_start_mark' \in Nat /\ url_start_mark' <= at'
  BY <1>7, <1>12, MarkStays
<1>19. IsParser(parser')
  BY <1>13 DEF StateOnly
<1>20. Conn'
  BY <1>7, <1>12, <1>18, <1>19 DEF Conn
<1>21. Quiet
  BY <1>7, <1>12, QuietConnection
<1> QED
  BY <1>17, <1>20, <1>21

\* No line of the headers begins with a space.
LEMMA LineNoSpace ==
    ASSUME Conn, NEW r, IsRequest(r), NEW l \in Seq(Symbol), NEW i \in 1..(Len(r.fields) + 1),
           Coming = FromLine(r, i, l)
    PROVE  ~Space
<1>1. CASE i \in 1..Len(r.fields)
  <2>1. /\ Begins(Coming, NameText(r.fields[i])[1], FromName(r, i, 1, l))
        /\ NameText(r.fields[i])[1] \in DOMAIN Name
    BY <1>1, LineSymbols, Zenon
  <2>2. ch \in DOMAIN Name
    BY <2>1, NextCome, Zenon DEF Conn
  <2>3. " " \notin DOMAIN Name
    BY Zenon DEF Name
  <2> QED
    BY <2>2, <2>3, Zenon DEF Space
<1>2. CASE i \notin 1..Len(r.fields)
  <2>1. \/ Begins(Coming, "CR", <<"LF">> \o (BodyText(r) \o l))
        \/ Begins(Coming, "LF", BodyText(r) \o l)
    BY <1>2, LineSymbols, Zenon
  <2>2. ch = "CR" \/ ch = "LF"
    BY <2>1, NextCome, Zenon DEF Conn
  <2> QED
    BY <2>2, Zenon DEF Space
<1> QED
  BY <1>1, <1>2, Zenon

\* What space is taken, for provers that cannot see the symbol.
LEMMA FoldedTakes ==
    ASSUME Folded
    PROVE  \E C : /\ Takes({"header_value_lws"}, C) /\ \A c \in C : c = " "
                  /\ Goes("header_value") /\ Marks("value")
                  /\ url_start_mark' = url_start_mark /\ UNCHANGED connection
<1>1. PICK C : C = {" "}
  BY Zenon
<1>2. \A c \in C : c = " "
  BY <1>1, Zenon
<1>3. /\ Takes({"header_value_lws"}, C)
      /\ Goes("header_value") /\ Marks("value")
      /\ url_start_mark' = url_start_mark /\ UNCHANGED connection
  BY <1>1, Zenon DEF Folded
<1> QED
  BY <1>2, <1>3, Zenon

\* A value goes on in a second line.
LEMMA ValueIsFolded ==
    ASSUME Conn, NEW r, IsRequest(r), NEW l \in Seq(Symbol), InValue(r, l), Folded
    PROVE  Conn' /\ Quiet /\ InRequest(r, l)'
<1>1. PICK j \in 1..Len(r.fields) : \E f \in FieldKinds : \E n \in Nat : \E k \in 1..n :
             /\ f = r.fields[j] /\ n = Len(ValueSaid(r, f)) /\ n <= 3
             /\ ReadTo(r, j, k) /\ ValueStage(r, j, k, l)
  BY ValuePicked
<1>2. PICK f \in FieldKinds : \E n \in Nat : \E k \in 1..n :
             /\ f = r.fields[j] /\ n = Len(ValueSaid(r, f)) /\ n <= 3
             /\ ReadTo(r, j, k) /\ ValueStage(r, j, k, l)
  BY <1>1
<1>3. PICK n \in Nat : \E k \in 1..n :
             /\ f = r.fields[j] /\ n = Len(ValueSaid(r, f)) /\ n <= 3
             /\ ReadTo(r, j, k) /\ ValueStage(r, j, k, l)
  BY <1>2
<1>4. PICK k \in 1..n :
             /\ f = r.fields[j] /\ n = Len(ValueSaid(r, f)) /\ n <= 3
             /\ ReadTo(r, j, k) /\ ValueStage(r, j, k, l)
  BY <1>3
<1>5. PICK C : /\ Takes({"header_value_lws"}, C) /\ \A c \in C : c = " "
               /\ Goes("header_value") /\ Marks("value")
               /\ url_start_mark' = url_start_mark /\ UNCHANGED connection
  BY FoldedTakes, Zenon
<1>6. /\ Takes({"header_value_lws"}, C) /\ Goes("header_value") /\ Marks("value")
      /\ url_start_mark' = url_start_mark /\ UNCHANGED connection /\ ch = " "
  <2>1. Takes({"header_value_lws"}, C)
    BY <1>5, Zenon
  <2>2. ch \in C
    BY <2>1, Zenon DEF Takes
  <2> QED
    BY <1>5, <2>2, Zenon
<1>7. /\ requests' = requests /\ stream' = stream /\ at' = at + 1 /\ ch \in Symbol
      /\ parser.state = "header_value_lws"
      /\ SentRequests' /\ stream' \in Seq(Symbol) /\ at' \in Nat
  <2>1. Takes({"header_value_lws"}, C)
    BY <1>5, Zenon
  <2>2. /\ socket = "open" /\ parser.state \in {"header_value_lws"} /\ ch \in C /\ ch \in Symbol
        /\ SentRequests' /\ stream' \in Seq(Symbol) /\ at' \in Nat
        /\ requests' = requests /\ stream' = stream /\ at' = at + 1
    BY <2>1, Taking, Zenon
  <2> QED
    BY <2>2, Zenon
<1>8. mark = NoMark /\ Coming = FromNext(r, j, k, l)
  <2>1. parser.state # "header_value" /\ parser.state # "header_almost_done"
    BY <1>7, Zenon
  <2>2. ValueStage(r, j, k, l)
    BY <1>4, Zenon
  <2> QED
    BY <2>1, <2>2, Zenon DEF ValueStage
<1>9. Folds(f, k)
  <2>1. SUFFICES ASSUME ~Folds(f, k) PROVE FALSE
    BY Zenon
  <2>2. k \in Nat
    OBVIOUS
  <2>3. Coming = FromLine(r, j + 1, l)
    BY <1>4, <1>8, <2>1, <2>2, ValueComes, Zenon
  <2>4. j + 1 \in 1..(Len(r.fields) + 1)
    BY NextLine
  <2>5. ~Space
    BY <2>3, <2>4, LineNoSpace, Zenon
  <2> QED
    BY <1>6, <2>5, Zenon DEF Space
<1>10. f = "folded" /\ k = 1
  BY <1>9, Zenon DEF Folds
<1>11. Coming' = FromValue(r, j, 2, l)
  <2>1. Begins(Coming, " ", FromValue(r, j, 2, l))
    BY <1>4, <1>8, <1>10, ValueComes, Zenon
  <2> QED
    BY <1>7, <2>1, NextCome, Zenon DEF Conn
<1>12. /\ InHeaders(r) /\ Holds(Delivered, r, j, Len(NameText(r.fields[j])), k)
       /\ Delivered.building = 0 /\ FlagsInv(parser, r, j, j, j - 1)
       /\ LengthInv(parser, r, j) /\ parser.header_state = Read(f, k)
  <2>1. f # "length"
    BY <1>10, Zenon
  <2> QED
    BY <1>4, <2>1, Zenon DEF ReadTo
<1>13. /\ IsMark(mark') /\ mark'.of = "value" /\ mark'.text # <<>> /\ SameHanded /\ IsReq(req')
       /\ Building(Delivered', Delivered.headers, Delivered.field, Delivered.value \o <<ch>>, 0)
       /\ UNCHANGED <<req, found, code, socket, close_connection_, answers, handled>>
  BY <1>6, <1>7, <1>8, <1>12, ValueMarked, Zenon
<1>14. Holds(Delivered', r, j, Len(NameText(r.fields[j])), 2)
  <2>1. PICK v \in Seq(Symbol) : v = ValueSaid(r, f)
    BY ValueTyped, Zenon
  <2>2. n = 3
    BY <1>4, <1>10, ValueSymbols, Zenon
  <2>3. n = Len(v)
    BY <1>4, <2>1, Zenon
  <2>4. Upto(v, 2) = Upto(v, 1) \o <<v[2]>>
    <3>1. 1 < n
      BY <2>2
    <3>2. 1 \in Nat /\ 1 + 1 = 2
      OBVIOUS
    <3>3. 1 < Len(v)
      BY <2>3, <3>1, Zenon
    <3>4. Upto(v, 1 + 1) = Upto(v, 1) \o <<v[1 + 1]>>
      BY <3>2, <3>3, UptoNext, Zenon
    <3> QED
      BY <3>2, <3>4, Zenon
  <2>5. v[2] = ch
    BY <1>6, <1>10, <2>1, ValueSymbols, Zenon
  <2> QED
    BY <1>4, <1>10, <1>12, <1>13, <2>1, <2>4, <2>5, Zenon DEF Holds, Building
<1>15. StateOnly("header_value")
  BY <1>6, ParserGoes, Zenon
<1>16. /\ parser'.state = "header_value" /\ parser'.header_state = parser.header_state
       /\ parser'.flags = parser.flags /\ parser'.content_length = parser.content_length
       /\ parser'.version = parser.version /\ IsParser(parser')
  BY <1>15, Zenon DEF StateOnly
<1>17. ReadTo(r, j, 2)'
  <2>1. InHeaders(r)'
    BY <1>12, <1>13, <1>16, HeadersGoOn, Zenon
  <2>2. FlagsInv(parser', r, j, j, j - 1)
    BY <1>12, <1>16, Zenon DEF FlagsInv
  <2>3. LengthInv(parser', r, j)
    BY <1>12, <1>16, Zenon DEF LengthInv
  <2>4. Read(f, 1) = "general" /\ Read(f, 2) = "general"
    <3>1. f = "folded"
      BY <1>10, Zenon
    <3> QED
      BY <3>1 DEF Read
  <2>5. Delivered'.building = 0
    BY <1>13, Zenon DEF Building
  <2>6. r.fields[j] # "length"
    BY <1>4, <1>10, Zenon
  <2> QED
    BY <1>4, <1>10, <1>12, <1>14, <1>16, <2>1, <2>2, <2>3, <2>4, <2>5, <2>6, Zenon DEF ReadTo
<1>18. ValueStage(r, j, 2, l)'
  BY <1>11, <1>13, <1>16, Zenon DEF ValueStage
<1>19. 2 \in 1..Len(ValueSaid(r, r.fields[j]))
  <2>1. n = 3
    BY <1>4, <1>10, ValueSymbols, Zenon
  <2>2. 2 \in 1..n
    BY <2>1
  <2> QED
    BY <1>4, <2>2, Zenon
<1>20. InRequest(r, l)'
  BY <1>17, <1>18, <1>19, ValuePartsNext, Zenon
<1>21. url_start_mark' \in Nat /\ url_start_mark' <= at'
  BY <1>6, <1>7, MarkStays, Zenon
<1>22. Conn'
  BY <1>7, <1>13, <1>16, <1>21, Zenon DEF Conn
<1>23. Quiet
  BY <1>7, <1>13, Zenon DEF Quiet
<1> QED
  BY <1>20, <1>22, <1>23, Zenon

\* Where a line of the headers may start, they do, or the chunks are over.
LEMMA LineReached ==
    ASSUME Conn, NEW r, IsRequest(r), NEW l \in Seq(Symbol), InRequest(r, l),
           parser.state \in LineStart, ~Space
    PROVE  \/ \E j \in 1..(Len(r.fields) + 1) : AtLine(r, j, l)
           \/ AtLast(r, l) /\ parser.state = "header_field_start"
<1>1. CASE parser.state = "header_field_start"
  <2>1. BeforeFields(r, l) \/ AtLast(r, l)
    BY <1>1, StatesOf DEF InRequest
  <2>2. CASE BeforeFields(r, l)
    <3>1. AtLine(r, 1, l)
      BY <2>2, FirstLine
    <3>2. 1 \in 1..(Len(r.fields) + 1)
      <4>1. r.fields \in Seq(FieldKinds)
        BY RequestParts
      <4> QED
        BY <4>1
    <3> QED
      BY <3>1, <3>2, Zenon
  <2> QED
    BY <1>1, <2>1, <2>2, Zenon
<1>2. CASE parser.state = "header_value_lws"
  <2>1. InValue(r, l)
    BY <1>2, StatesOf DEF InRequest
  <2> QED
    BY <1>2, <2>1, ValueLine, Zenon
<1>3. CASE parser.state = "discard_lws"
  <2>1. AtSpace(r, l)
    BY <1>3, StatesOf DEF InRequest
  <2> QED
    BY <1>3, <2>1, BlankLine, Zenon
<1> QED
  BY <1>1, <1>2, <1>3 DEF LineStart

\* What is taken stays.
LEMMA TakenStays ==
    ASSUME NEW r, Taken(r), Delivered' = Delivered, found' = found, code' = code
    PROVE  Taken(r)'
<1>1. Routed(r)'
  BY Zenon DEF Taken, Routed, Judged
<1> QED
  BY <1>1, Zenon DEF Taken

\* Behind the last chunk the line before the empty one.
LEMMA LastLine ==
    ASSUME Conn, NEW r, IsRequest(r), NEW l \in Seq(Symbol), AtLast(r, l),
           parser.state = "header_field_start"
    PROVE  /\ Begins(Coming, "CR", <<"LF">> \o l) /\ ch = "CR" /\ ~Space
           /\ mark = NoMark /\ Taken(r) /\ req.body = r.body /\ "trailing" \in parser.flags
<1>1. /\ mark = NoMark /\ Taken(r) /\ req.body = r.body /\ "trailing" \in parser.flags
      /\ Coming = EmptyLine(l)
  BY DEF AtLast
<1>2. Begins(Coming, "CR", <<"LF">> \o l)
  BY <1>1, EmptyComes, Zenon
<1>3. ch = "CR"
  BY <1>2, NextCome DEF Conn
<1>4. ~Space
  BY <1>3, Zenon DEF Space
<1> QED
  BY <1>1, <1>2, <1>3, <1>4, Zenon

\* Nothing is marked, and still nothing.
LEMMA NoneDelivered ==
    ASSUME Conn, mark = NoMark, mark' = mark, IsReq(req')
    PROVE  Delivered = req /\ Delivered' = req' /\ IsMark(mark')
<1>1. mark'.of = "none" /\ IsMark(mark')
  BY NoMarkIs
<1>2. DeliveryIs(mark', req', Delivered')
  BY <1>1, DeliveredNext
<1>3. Delivered' = req'
  BY <1>1, <1>2 DEF DeliveryIs
<1> QED
  BY <1>1, <1>3, NothingMarked, Zenon

\* The empty line behind the headers begins.
LEMMA HeadersNearEnd ==
    ASSUME Conn, NEW r, IsRequest(r), NEW l \in Seq(Symbol), NEW j, AtLine(r, j, l),
           Takes(LineStart, {"CR"}), parser' = [CompletedLine EXCEPT !.state = "headers_almost_done"],
           req' = CompletedField,
           UNCHANGED <<mark, url_start_mark, found, code, socket, close_connection_, answers,
                       handled>>
    PROVE  Conn' /\ Quiet /\ InRequest(r, l)'
<1>1. /\ requests' = requests /\ stream' = stream /\ at' = at + 1 /\ ch = "CR"
      /\ SentRequests' /\ stream' \in Seq(Symbol) /\ at' \in Nat
  BY Taking
<1>2. PICK n : n = Len(r.fields)
  OBVIOUS
<1>3. j - 1 = n /\ Coming' = <<"LF">> \o (BodyText(r) \o l)
  <2>1. j \notin 1..Len(r.fields)
    <3>1. SUFFICES ASSUME j \in 1..Len(r.fields) PROVE FALSE
      BY Zenon
    <3>4. /\ Begins(Coming, NameText(r.fields[j])[1], FromName(r, j, 1, l))
          /\ NameText(r.fields[j])[1] \in DOMAIN Name
      BY <3>1, LineComes, Zenon
    <3>2. ch \in DOMAIN Name
      BY <3>4, NextCome, Zenon DEF Conn
    <3>3. "CR" \notin DOMAIN Name
      BY Zenon DEF Name
    <3> QED
      BY <1>1, <3>2, <3>3
  <2>2. /\ j - 1 = Len(r.fields)
        /\ \/ Begins(Coming, "CR", <<"LF">> \o (BodyText(r) \o l))
           \/ Begins(Coming, "LF", BodyText(r) \o l)
    BY <2>1, LineComes, Zenon
  <2>3. ~Begins(Coming, "LF", BodyText(r) \o l)
    <3>1. SUFFICES ASSUME Begins(Coming, "LF", BodyText(r) \o l) PROVE FALSE
      BY Zenon
    <3>2. ch = "LF"
      BY <3>1, NextCome, Zenon DEF Conn
    <3> QED
      BY <1>1, <3>2
  <2>4. Coming' = <<"LF">> \o (BodyText(r) \o l)
    BY <1>1, <2>2, <2>3, NextCome, Zenon DEF Conn
  <2> QED
    BY <1>2, <2>2, <2>4, Zenon
<1>4. /\ mark = NoMark /\ InHeaders(r)
      /\ FlagsInv(CompletedLine, r, n, n, n) /\ LengthInv(CompletedLine, r, n)
      /\ Moves(parser, CompletedLine, parser.state, parser.header_state, CompletedLine.flags,
               parser.content_length)
      /\ SameLine(req, CompletedField) /\ AllTold(CompletedField, r, n)
  BY <1>3, Zenon DEF AtLine
<1>5. PICK p : p = CompletedLine
  OBVIOUS
<1>6. IsParser(p) /\ p.version = parser.version
  BY <1>4, <1>5 DEF Moves
<1>7. Moves(p, parser', "headers_almost_done", p.header_state, p.flags, p.content_length)
  <2>1. IsParser(p) /\ 0 \in Int
    BY <1>6
  <2>2. Moves(p, [p EXCEPT !.state = "headers_almost_done"], "headers_almost_done",
              p.header_state, p.flags, p.content_length)
    BY <2>1, ParserMoves
  <2> QED
    BY <1>5, <2>2, Zenon
<1>8. /\ IsParser(parser') /\ parser'.state = "headers_almost_done" /\ parser'.flags = p.flags
      /\ parser'.content_length = p.content_length /\ parser'.version = parser.version
  BY <1>6, <1>7 DEF Moves
<1>9. SameLine(req, req') /\ AllTold(req', r, n) /\ IsReq(req')
  BY <1>4, Zenon DEF SameLine
<1>10. Delivered = req /\ Delivered' = req' /\ IsMark(mark')
  BY <1>4, <1>9, NoneDelivered
<1>11. SameHanded
  BY <1>9, <1>10 DEF SameHanded, SameLine
<1>12. InHeaders(r)'
  BY <1>4, <1>8, <1>11, HeadersGoOn
<1>13. FlagsInv(parser', r, n, n, n)
  BY <1>4, <1>5, <1>8, Zenon DEF FlagsInv
<1>14. LengthInv(parser', r, n)
  BY <1>4, <1>5, <1>8, Zenon DEF LengthInv
<1>15. Told(WithConnection(req', parser').headers, r, n)
  <2>1. PICK u : u = WithConnection(req', parser')
    OBVIOUS
  <2>3. PICK q : q = req'
    OBVIOUS
  <2>4. PICK z : z = parser'
    OBVIOUS
  <2>5. IsReq(q) /\ u = WithConnection(q, z)
    BY <1>9, <2>1, <2>3, <2>4
  <2>6. HeadIs(q, u, z)
    BY <2>5, HeadTaken, Zenon
  <2>2. u.headers = IF req'.field # <<>> THEN Put(req'.headers, req'.field, req'.value)
                    ELSE req'.headers
    BY <2>3, <2>6, Zenon DEF HeadIs
  <2> QED
    BY <1>9, <2>1, <2>2, Zenon DEF AllTold
<1>16. AtHeadersEnd(r, l)'
  BY <1>2, <1>3, <1>4, <1>8, <1>12, <1>13, <1>14, <1>15, Zenon DEF AtHeadersEnd
<1>17. InRequest(r, l)'
  BY <1>16 DEF InRequest
<1>18. url_start_mark' \in Nat /\ url_start_mark' <= at'
  BY <1>1, MarkStays
<1>19. Conn'
  BY <1>1, <1>8, <1>9, <1>10, <1>18 DEF Conn
<1>20. Quiet
  BY <1>1, QuietConnection
<1> QED
  BY <1>17, <1>19, <1>20

\* So does the one behind the last chunk.
LEMMA ChunksNearEnd ==
    ASSUME Conn, NEW r, IsRequest(r), NEW l \in Seq(Symbol), AtLast(r, l),
           parser.state = "header_field_start",
           Takes(LineStart, {"CR"}), parser' = [CompletedLine EXCEPT !.state = "headers_almost_done"],
           req' = CompletedField,
           UNCHANGED <<mark, url_start_mark, found, code, socket, close_connection_, answers,
                       handled>>
    PROVE  Conn' /\ Quiet /\ InRequest(r, l)'
<1>1. /\ requests' = requests /\ stream' = stream /\ at' = at + 1 /\ ch = "CR"
      /\ SentRequests' /\ stream' \in Seq(Symbol) /\ at' \in Nat
  BY Taking
<1>2. CompletedLine = parser /\ CompletedField = req
  BY DEF CompletedLine, CompletedField
<1>3. /\ Begins(Coming, "CR", <<"LF">> \o l)
      /\ mark = NoMark /\ Taken(r) /\ req.body = r.body /\ "trailing" \in parser.flags
  BY LastLine
<1>4. Coming' = <<"LF">> \o l
  BY <1>1, <1>3, NextCome, Zenon DEF Conn
<1>5. /\ IsParser(parser') /\ parser'.state = "headers_almost_done"
      /\ parser'.flags = parser.flags
  <2>1. Goes("headers_almost_done")
    BY <1>2 DEF Goes
  <2>2. StateOnly("headers_almost_done")
    BY <2>1, ParserGoes
  <2> QED
    BY <2>2 DEF StateOnly
<1>6. req' = req /\ IsReq(req')
  BY <1>2 DEF Conn
<1>7. Delivered = req /\ Delivered' = req' /\ IsMark(mark')
  BY <1>3, <1>6, NoneDelivered
<1>8. Taken(r)'
  <2>1. Delivered' = Delivered /\ found' = found /\ code' = code
    BY <1>6, <1>7
  <2> QED
    BY <1>3, <2>1, TakenStays
<1>9. AtLast(r, l)'
  BY <1>3, <1>4, <1>5, <1>6, <1>8, Zenon DEF AtLast
<1>10. InRequest(r, l)'
  BY <1>9 DEF InRequest
<1>11. url_start_mark' \in Nat /\ url_start_mark' <= at'
  BY <1>1, MarkStays
<1>12. Conn'
  BY <1>1, <1>5, <1>6, <1>7, <1>11 DEF Conn
<1>13. Quiet
  BY <1>1, QuietConnection
<1> QED
  BY <1>10, <1>12, <1>13

\* All the fields of a request.
LEMMA AllMarked ==
    ASSUME NEW r, NEW f PROVE Marked(r, Len(r.fields), f) <=> Has(r, f)
BY DEF Marked, Has, Contains

\* Fields that share a name.
LEMMA NamesAre ==
    ASSUME NEW f \in FieldKinds
    PROVE  /\ NameText(f) = <<"Host">> <=> f \in {"host", "folded"}
           /\ NameText(f) = <<"Expect">> <=> f = "expect"
           /\ NameText(f) = <<"Up", "grade">> <=> f \in {"upgrade", "h2"}
<1>1. CASE f \in {"host", "folded"}
  <2>1. NameText(f) = <<"Host">>
    BY <1>1, Zenon DEF NameText
  <2> QED
    BY <1>1, <2>1
<1>2. CASE f \in {"upgrade", "h2"}
  <2>1. NameText(f) = <<"Up", "grade">>
    BY <1>2 DEF NameText
  <2> QED
    BY <1>2, <2>1
<1>3. CASE f = "expect"
  <2>1. NameText(f) = <<"Expect">>
    BY <1>3 DEF NameText
  <2> QED
    BY <1>3, <2>1
<1>4. CASE f \in {"close", "keep", "length", "chunked", "blank"}
  <2>1. NameText(f)[1] \notin {"Host", "Expect", "Up"}
    BY <1>4, NameSymbols
  <2>2. <<"Host">>[1] = "Host" /\ <<"Expect">>[1] = "Expect" /\ <<"Up", "grade">>[1] = "Up"
    OBVIOUS
  <2>3. NameText(f) # <<"Host">> /\ NameText(f) # <<"Expect">> /\ NameText(f) # <<"Up", "grade">>
    BY <2>1, <2>2, Zenon
  <2> QED
    BY <1>4, <2>3
<1> QED
  BY <1>1, <1>2, <1>3, <1>4 DEF FieldKinds

\* Which field a header comes from.
LEMMA ToldBy ==
    ASSUME NEW r, IsRequest(r), NEW h, Told(h, r, Len(r.fields)), NEW n \in DOMAIN h
    PROVE  \E f \in FieldKinds : Has(r, f) /\ NameText(f) = n /\ h[n] = ValueSaid(r, f)
<1>1. PICK m \in 1..Len(r.fields) : NameText(r.fields[m]) = n /\ h[n] = ValueSaid(r, r.fields[m])
  BY DEF Told
<1>2. r.fields[m] \in FieldKinds
  BY LinesTyped
<1>3. Has(r, r.fields[m])
  BY DEF Has, Contains
<1> QED
  BY <1>1, <1>2, <1>3, Zenon

\* A field that has a value is told.
LEMMA FieldTold ==
    ASSUME NEW r, NEW h, Told(h, r, Len(r.fields)), NEW f, Has(r, f), f # "blank"
    PROVE  NameText(f) \in DOMAIN h
<1>1. PICK m \in 1..Len(r.fields) : r.fields[m] = f
  BY DEF Has, Contains
<1> QED
  BY <1>1, Zenon DEF Told

\* The host, and what else the answer depends on.
LEMMA HostTold ==
    ASSUME NEW r, IsRequest(r), NEW h, Told(h, r, Len(r.fields))
    PROVE  /\ <<"Host">> \in DOMAIN h <=> Hosted(r)
           /\ Has(r, "host") => h[<<"Host">>] = <<"here">>
           /\ Has(r, "folded") => h[<<"Host">>] = <<"here", " ", "there">>
<1>0. "host" \in FieldKinds /\ "folded" \in FieldKinds /\ "host" # "blank" /\ "folded" # "blank"
  BY DEF FieldKinds
<1>1. NameText("host") = <<"Host">> /\ NameText("folded") = <<"Host">>
  BY <1>0, NamesAre
<1>2. Hosted(r) => <<"Host">> \in DOMAIN h
  BY <1>0, <1>1, FieldTold, Zenon DEF Hosted
<1>3. ASSUME <<"Host">> \in DOMAIN h
      PROVE  \/ Has(r, "host") /\ h[<<"Host">>] = ValueSaid(r, "host")
             \/ Has(r, "folded") /\ h[<<"Host">>] = ValueSaid(r, "folded")
  <2>1. PICK f \in FieldKinds : /\ Has(r, f) /\ NameText(f) = <<"Host">>
                                /\ h[<<"Host">>] = ValueSaid(r, f)
    BY <1>3, ToldBy
  <2>2. f = "host" \/ f = "folded"
    BY <2>1, NamesAre
  <2> QED
    BY <2>1, <2>2, Zenon
<1>4. ~(Has(r, "host") /\ Has(r, "folded"))
  BY Zenon DEF IsRequest
<1>5. ValueSaid(r, "host") = <<"here">> /\ ValueSaid(r, "folded") = <<"here", " ", "there">>
  BY <1>0, ValueIs, Zenon
<1>6. <<"Host">> \in DOMAIN h => Hosted(r)
  BY <1>3, Zenon DEF Hosted
<1>7. Has(r, "host") => h[<<"Host">>] = <<"here">>
  BY <1>2, <1>3, <1>4, <1>5, Zenon DEF Hosted
<1>8. Has(r, "folded") => h[<<"Host">>] = <<"here", " ", "there">>
  BY <1>2, <1>3, <1>4, <1>5, Zenon DEF Hosted
<1> QED
  BY <1>2, <1>6, <1>7, <1>8, Zenon

\* Only that field expects an answer.
LEMMA ExpectTold ==
    ASSUME NEW r, IsRequest(r), NEW h, Told(h, r, Len(r.fields)), <<"Expect">> \in DOMAIN h
    PROVE  Has(r, "expect")
<1>1. PICK f \in FieldKinds : Has(r, f) /\ NameText(f) = <<"Expect">>
  BY ToldBy, Zenon
<1>2. f = "expect"
  BY <1>1, NamesAre
<1> QED
  BY <1>1, <1>2, Zenon

\* Only that value asks for an upgrade that is supported.
LEMMA UpgradeTold ==
    ASSUME NEW r, IsRequest(r), NEW q, Told(q.headers, r, Len(r.fields))
    PROVE  Asks(q) <=> Has(r, "upgrade")
<1>0. "upgrade" \in FieldKinds /\ "upgrade" # "blank" /\ "h2" \in FieldKinds
  BY DEF FieldKinds
<1>1. NameText("upgrade") = <<"Up", "grade">>
  BY <1>0, NamesAre
<1>2. /\ Has(r, "upgrade") => <<"Up", "grade">> \in DOMAIN q.headers
      /\ ~(Has(r, "upgrade") /\ Has(r, "h2"))
  <2>1. Has(r, "upgrade") => <<"Up", "grade">> \in DOMAIN q.headers
    BY <1>0, <1>1, FieldTold, Zenon
  <2>2. ~(Has(r, "upgrade") /\ Has(r, "h2"))
    BY Zenon DEF IsRequest
  <2> QED
    BY <2>1, <2>2, Zenon
<1>3. ASSUME <<"Up", "grade">> \in DOMAIN q.headers
      PROVE  \/ Has(r, "upgrade") /\ q.headers[<<"Up", "grade">>] = <<"websocket">>
             \/ Has(r, "h2") /\ q.headers[<<"Up", "grade">>] = <<"h", "2">>
  <2>1. PICK f \in FieldKinds : /\ Has(r, f) /\ NameText(f) = <<"Up", "grade">>
                                /\ q.headers[<<"Up", "grade">>] = ValueSaid(r, f)
    BY <1>3, ToldBy
  <2>2. f = "upgrade" \/ f = "h2"
    BY <2>1, NamesAre
  <2>3. ValueSaid(r, "upgrade") = <<"websocket">> /\ ValueSaid(r, "h2") = <<"h", "2">>
    BY <1>0, ValueIs, Zenon
  <2> QED
    BY <2>1, <2>2, <2>3, Zenon
<1>4. Head(<<"websocket">>) = "websocket" /\ Head(<<"h", "2">>) = "h"
  OBVIOUS
<1>5. "websocket" # "h"
  OBVIOUS
<1> QED
  BY <1>2, <1>3, <1>4, <1>5, Zenon DEF Asks

\* The interim answer clears the response; what is known of the route is still known.
LEMMA ContinuedJudged ==
    ASSUME NEW r, IsRequest(r), NEW q, Told(q.headers, r, Len(r.fields)), q.version = r.version,
           Judged(r, code)
    PROVE  Judged(r, Continued(q))
<1>1. CASE Continued(q) = code
  BY <1>1, Zenon
<1>2. CASE Continued(q) # code
  <2>1. r.version = "1.1" /\ <<"Expect">> \in DOMAIN q.headers
    BY <1>2, Zenon DEF Continued
  <2>2. Has(r, "expect")
    BY <2>1, ExpectTold, Zenon
  <2>3. ~found => ~(r.url = <<"/">> /\ r.method = "GET")
    BY Zenon DEF Judged
  <2>4. ~found => Misjudged(r)
    BY <2>1, <2>2, <2>3, Zenon DEF Misjudged
  <2> QED
    BY <2>4, Zenon DEF Judged
<1> QED
  BY <1>1, <1>2, Zenon

\* What the flags say of the whole request.
LEMMA FlagsSay ==
    ASSUME NEW r, IsRequest(r), NEW p, FlagsInv(p, r, Len(r.fields), Len(r.fields), Len(r.fields)),
           LengthInv(p, r, Len(r.fields))
    PROVE  /\ Misframed(p) <=> ~Framed(r)
           /\ "chunked" \in p.flags <=> Has(r, "chunked")
           /\ Has(r, "upgrade") => "upgrade" \in p.flags
           /\ "upgrade" \in p.flags => Has(r, "upgrade") \/ Has(r, "h2")
           /\ "trailing" \notin p.flags
           /\ p.content_length = IF Has(r, "length") THEN Len(r.body) ELSE Unset
<1>1. /\ "trailing" \notin p.flags
      /\ "transfer_encoding" \in p.flags <=> Has(r, "chunked")
      /\ "content_length" \in p.flags <=> Has(r, "length")
      /\ \A m, n \in 1..Len(r.fields) : r.fields[m] = "length" /\ r.fields[n] = "length" => m = n
      /\ Has(r, "upgrade") => "upgrade" \in p.flags
      /\ "upgrade" \in p.flags => Has(r, "upgrade") \/ Has(r, "h2")
      /\ "chunked" \in p.flags <=> Has(r, "chunked")
  BY AllMarked, Zenon DEF FlagsInv
<1>2. Misframed(p) <=> ~Framed(r)
  BY <1>1, Zenon DEF Misframed, Framed
<1>3. p.content_length = IF Has(r, "length") THEN Len(r.body) ELSE Unset
  BY AllMarked, Zenon DEF LengthInv
<1> QED
  BY <1>1, <1>2, <1>3, Zenon

\* What was written is a sequence, and so is what was handled.
Written == (\E S : answers \in Seq(S)) /\ (\E S : handled \in Seq(S))

\* A sequence grown by one.
LEMMA AppendIs ==
    ASSUME NEW S, NEW s \in Seq(S), NEW e
    PROVE  /\ Append(s, e) \in Seq(S \cup {e}) /\ Len(Append(s, e)) = Len(s) + 1
           /\ \A i \in 1..Len(s) : Append(s, e)[i] = s[i]
           /\ Append(s, e)[Len(s) + 1] = e
OBVIOUS

\* Request q is r as it was sent.
Whole(q, r) ==
    /\ IsReq(q) /\ q.raw_url = r.url /\ q.body = r.body /\ q.version = r.version
    /\ Told(q.headers, r, Len(r.fields)) /\ (Has(r, "upgrade") => q.upgrade) /\ Framed(r)

\* One more answer is in order when it is due.
LEMMA AnswersGrow ==
    ASSUME AnswersInOrder, Written, requests \in Seq(Request), requests' = requests,
           Len(answers) < Len(requests),
           NEW a, answers' = Append(answers, a),
           a = Due(requests[Len(answers) + 1]) \/ Misjudged(requests[Len(answers) + 1])
    PROVE  /\ AnswersInOrder' /\ Len(answers') = Len(answers) + 1 /\ Len(answers) \in Nat
           /\ \E S : answers' \in Seq(S)
<1>1. PICK S : answers \in Seq(S)
  BY DEF Written
<1>2. PICK m \in Nat : m = Len(answers)
  BY <1>1
<1>3. /\ answers' \in Seq(S \cup {a}) /\ Len(answers') = m + 1
      /\ \A i \in 1..m : answers'[i] = answers[i]
      /\ answers'[m + 1] = a
  BY <1>1, <1>2, AppendIs
<1>4. \A i \in 1..m : answers'[i] = Due(requests[i]) \/ Misjudged(requests[i])
  BY <1>2, <1>3 DEF AnswersInOrder
<1>5. \A i \in 1..(m + 1) : i \in 1..m \/ i = m + 1
  OBVIOUS
<1>6. \A i \in 1..(m + 1) : answers'[i] = Due(requests[i]) \/ Misjudged(requests[i])
  BY <1>2, <1>3, <1>4, <1>5, Zenon
<1>7. m + 1 <= Len(requests)
  BY <1>2
<1>8. AnswersInOrder'
  BY <1>3, <1>6, <1>7 DEF AnswersInOrder
<1> QED
  BY <1>2, <1>3, <1>8

\* What RequestsArriveWhole says of one request.
Arrived(q, r) ==
    /\ q.raw_url = r.url
    /\ q.body = r.body
    /\ (<<"Host">> \in DOMAIN q.headers) = Hosted(r)
    /\ Has(r, "host") => q.headers[<<"Host">>] = <<"here">>
    /\ Has(r, "folded") => q.headers[<<"Host">>] = <<"here", " ", "there">>

\* Equal truth values.
LEMMA SameTruth == ASSUME NEW x, NEW S, NEW H \in BOOLEAN, (x \in S) <=> H PROVE (x \in S) = H
OBVIOUS

\* What is whole arrived.
LEMMA WholeArrives ==
    ASSUME NEW r, IsRequest(r), NEW q, Whole(q, r) PROVE Arrived(q, r)
<1>1. /\ <<"Host">> \in DOMAIN q.headers <=> Hosted(r)
      /\ Has(r, "host") => q.headers[<<"Host">>] = <<"here">>
      /\ Has(r, "folded") => q.headers[<<"Host">>] = <<"here", " ", "there">>
  BY HostTold, Zenon DEF Whole
<1>2. Hosted(r) \in BOOLEAN
  BY Zenon DEF Hosted, Has, Contains
<1>3. (<<"Host">> \in DOMAIN q.headers) = Hosted(r)
  BY <1>1, <1>2, SameTruth, Zenon
<1> QED
  BY <1>1, <1>3, Zenon DEF Arrived, Whole

\* RequestsArriveWhole, request by request.
LEMMA AllArrived ==
    /\ RequestsArriveWhole <=> /\ Len(handled) <= Len(requests)
                               /\ \A i \in 1..Len(handled) : Arrived(handled[i], requests[i])
    /\ RequestsArriveWhole' <=> /\ Len(handled') <= Len(requests')
                                /\ \A i \in 1..Len(handled') : Arrived(handled'[i], requests'[i])
<1>1. RequestsArriveWhole <=> /\ Len(handled) <= Len(requests)
                              /\ \A i \in 1..Len(handled) : Arrived(handled[i], requests[i])
  BY Zenon DEF RequestsArriveWhole, Arrived
<1>2. RequestsArriveWhole' <=> /\ Len(handled') <= Len(requests')
                               /\ \A i \in 1..Len(handled') : Arrived(handled'[i], requests'[i])
  BY Zenon DEF RequestsArriveWhole, Arrived
<1> QED
  BY <1>1, <1>2, Zenon

\* One more request arrives whole.
LEMMA ArrivalsGrow ==
    ASSUME RequestsArriveWhole, Written, requests \in Seq(Request), requests' = requests,
           Len(handled) < Len(requests), NEW q, handled' = Append(handled, q),
           NEW r, r = requests[Len(handled) + 1], IsRequest(r), Whole(q, r)
    PROVE  /\ RequestsArriveWhole' /\ Len(handled') = Len(handled) + 1 /\ Len(handled) \in Nat
           /\ \E S : handled' \in Seq(S)
<1>1. PICK S : handled \in Seq(S)
  BY DEF Written
<1>2. PICK m \in Nat : m = Len(handled)
  BY <1>1
<1>3. /\ handled' \in Seq(S \cup {q}) /\ Len(handled') = m + 1
      /\ \A i \in 1..m : handled'[i] = handled[i]
      /\ handled'[m + 1] = q
  BY <1>1, <1>2, AppendIs
<1>4. \A i \in 1..m : Arrived(handled'[i], requests[i])
  BY <1>2, <1>3, AllArrived, Zenon
<1>5. Arrived(q, r)
  BY WholeArrives
<1>6. \A i \in 1..(m + 1) : i \in 1..m \/ i = m + 1
  OBVIOUS
<1>7. \A i \in 1..(m + 1) : Arrived(handled'[i], requests[i])
  BY <1>2, <1>3, <1>4, <1>5, <1>6, Zenon
<1>8. m + 1 <= Len(requests)
  BY <1>2
<1>9. RequestsArriveWhole'
  BY <1>3, <1>7, <1>8, AllArrived, Zenon
<1> QED
  BY <1>2, <1>3, <1>9

\* The answer is the one that is due.
LEMMA AnswerIsDue ==
    ASSUME NEW r, IsRequest(r), NEW q, Whole(q, r), NEW status, Judged(r, status)
    PROVE  /\ Upgrades(q) /\ found => Due(r) = "101"
           /\ Invalid(q) => Due(r) = "400"
           /\ ~Upgrades(q) /\ ~Invalid(q) /\ found => Due(r) = "404"
           /\ ~Upgrades(q) /\ ~Invalid(q) /\ ~found => Due(r) = status \/ Misjudged(r)
<1>1. PICK a \in BOOLEAN : a <=> Hosted(r)
  OBVIOUS
<1>2. PICK b \in BOOLEAN : b <=> Has(r, "upgrade")
  OBVIOUS
<1>3. PICK c \in BOOLEAN : c <=> Path(r) = <<"/">>
  OBVIOUS
<1>4. PICK v \in BOOLEAN : v <=> r.version = "1.1"
  OBVIOUS
<1>5. Framed(r)
  BY DEF Whole
<1>6. Due(r) = IF v /\ ~a THEN "400"
               ELSE IF v /\ b THEN (IF c /\ r.method = "GET" THEN "101" ELSE "closed")
               ELSE IF c /\ r.method = "POST" THEN "405" ELSE "404"
  <2>1. CASE v /\ ~a
    BY <1>1, <1>2, <1>3, <1>4, <1>5, <2>1, Zenon DEF Due
  <2>2. CASE v /\ a /\ b
    BY <1>1, <1>2, <1>3, <1>4, <1>5, <2>2, Zenon DEF Due
  <2>3. CASE ~v \/ (a /\ ~b)
    <3>1. ~(r.version = "1.1" /\ ~Hosted(r)) /\ ~(r.version = "1.1" /\ Hosted(r) /\ Has(r, "upgrade"))
      BY <1>1, <1>2, <1>4, <2>3, Zenon
    <3>2. Due(r) = IF Path(r) = <<"/">> /\ r.method = "POST" THEN "405" ELSE "404"
      BY <1>5, <3>1, Zenon DEF Due
    <3> QED
      BY <1>3, <2>3, <3>2, Zenon
  <2> QED
    BY <2>1, <2>2, <2>3
<1>7. Invalid(q) <=> v /\ ~a
  <2>1. <<"Host">> \in DOMAIN q.headers <=> Hosted(r)
    BY HostTold, Zenon DEF Whole
  <2> QED
    BY <1>1, <1>4, <2>1, Zenon DEF Invalid, Whole
<1>8. Upgrades(q) <=> v /\ a /\ b
  <2>1. Asks(q) <=> Has(r, "upgrade")
    BY UpgradeTold, Zenon DEF Whole
  <2>2. q.version = "1.1" <=> v
    BY <1>4, Zenon DEF Whole
  <2>3. Has(r, "upgrade") => q.upgrade
    BY Zenon DEF Whole
  <2> QED
    BY <1>1, <1>2, <1>7, <2>1, <2>2, <2>3, Zenon DEF Upgrades
<1>9. /\ found => r.method = "GET" /\ c
      /\ ~found => status = (IF c /\ r.method = "POST" THEN "405" ELSE "404") \/ Misjudged(r)
  BY <1>3, Zenon DEF Judged, Answer
<1>10. ASSUME Upgrades(q), found PROVE Due(r) = "101"
  BY <1>6, <1>8, <1>9, <1>10
<1>11. ASSUME Invalid(q) PROVE Due(r) = "400"
  BY <1>6, <1>7, <1>11
<1>12. ASSUME ~Upgrades(q), ~Invalid(q), found PROVE Due(r) = "404"
  <2>1. r.method # "POST"
    BY <1>9, <1>12
  <2> QED
    BY <1>6, <1>7, <1>8, <1>12, <2>1
<1>13. ASSUME ~Upgrades(q), ~Invalid(q), ~found PROVE Due(r) = status \/ Misjudged(r)
  BY <1>6, <1>7, <1>8, <1>9, <1>13
<1> QED
  BY <1>10, <1>11, <1>12, <1>13

\* The invariant, with m requests handled.
LEMMA InvNext ==
    ASSUME NEW m, m = Len(handled'), AnswersInOrder', RequestsArriveWhole', Len(answers') <= m,
           socket' = "open" => Len(answers') = m /\ (Idle(m)' \/ InNext(m)'),
           socket' = "returned" => close_connection_' \/ (Len(answers') = m /\ Idle(m)')
    PROVE  ParseInv'
BY Zenon DEF ParseInv

\* Behind a request the next one comes.
LEMMA IdleNext ==
    ASSUME SentRequests, requests' = requests, NEW m \in Nat, m <= Len(requests),
           parser'.state = "start_req", parser'.qs_point = 0, mark' = NoMark, req' = Fresh,
           Coming' = Later(m)
    PROVE  Idle(m)'
<1>1. requests' \in Seq(Request) /\ requests \in Seq(Request)
  BY DEF SentRequests
<1>2. CASE m = Len(requests)
  <2>1. Coming' = <<>>
    BY <1>2, LaterTyped
  <2>2. m = Len(requests')
    BY <1>2
  <2> QED
    BY <2>1, <2>2, Zenon DEF Idle
<1>3. CASE m # Len(requests)
  <2>1. m \in 0..(Len(requests) - 1)
    BY <1>1, <1>3
  <2>2. /\ IsRequest(requests[m + 1])
        /\ Coming' = requests[m + 1].lead \o FromMethod(requests[m + 1], Later(m + 1))
    BY <2>1, LaterTyped
  <2>3. requests[m + 1].lead \in Seq({"CR", "LF"})
    BY <2>2, RequestParts
  <2>4. Drop(requests[m + 1].lead, 0) = requests[m + 1].lead
    BY <2>3, DropNone
  <2>5. 0 \in 0..Len(requests[m + 1].lead)
    BY <2>3
  <2>6. Later(m + 1)' = Later(m + 1)
    BY DEF Later
  <2>7. m # Len(requests')
    BY <1>3
  <2>8. \E k \in 0..Len(requests'[m + 1].lead) :
          Coming' = Drop(requests'[m + 1].lead, k) \o FromMethod(requests'[m + 1], Later(m + 1)')
    BY <2>2, <2>4, <2>5, <2>6, Zenon
  <2> QED
    BY <2>7, <2>8, Zenon DEF Idle
<1> QED
  BY <1>2, <1>3

\* A cleared parser.
LEMMA ClearedIs ==
    ASSUME NEW p, IsParser(p)
    PROVE  /\ IsParser(Cleared(p)) /\ Cleared(p).state = "start_req" /\ Cleared(p).qs_point = 0
<1>1. PICK q : q = Cleared(p)
  OBVIOUS
<1>2. q = [state |-> "start_req", header_state |-> p.header_state, flags |-> p.flags,
           content_length |-> p.content_length, version |-> p.version, qs_point |-> 0,
           peeked |-> p.peeked]
  BY <1>1 DEF Cleared, IsParser
<1>3. IsParser(q) /\ q.state = "start_req" /\ q.qs_point = 0
  BY <1>2 DEF IsParser
<1> QED
  BY <1>1, <1>3, Zenon

\* A request is complete: it is answered as it is due, and the next one expected.
LEMMA Completes ==
    ASSUME Conn, Written, AnswersInOrder, RequestsArriveWhole, NEW n \in Nat, n < Len(requests),
           n = Len(handled), n = Len(answers), socket = "open", NEW r, r = requests[n + 1],
           NEW q, Whole(q, r), NEW status, Judged(r, status), NEW p, IsParser(p),
           Handle(p, q, status), requests' = requests, stream' \in Seq(Symbol), at' = at + 1,
           Coming' = Later(n + 1)
    PROVE  Conn' /\ Written' /\ ParseInv'
<1>1. requests \in Seq(Request) /\ SentRequests' /\ SentRequests
  BY DEF Conn, SentRequests
<1>2. IsRequest(r)
  <2>1. n \in 0..(Len(requests) - 1)
    BY <1>1
  <2> QED
    BY <1>1, <2>1, LaterTyped
<1>3. PICK m \in Nat : m = n + 1
  OBVIOUS
<1>4. m <= Len(requests)
  BY <1>1, <1>3
<1>5. handled' = Append(handled, q) /\ mark' = NoMark /\ url_start_mark' = url_start_mark
  BY DEF Handle
<1>6. /\ RequestsArriveWhole' /\ Len(handled') = m /\ \E S : handled' \in Seq(S)
  BY <1>1, <1>2, <1>3, <1>5, ArrivalsGrow, Zenon
<1>7. IsMark(mark')
  BY <1>5, NoMarkIs
<1>8. url_start_mark' \in Nat /\ url_start_mark' <= at' /\ at' \in Nat
  BY <1>5, MarkStays DEF Conn
<1>9. CASE Upgrades(q)
  <2>1. /\ close_connection_' = TRUE
        /\ socket' = IF found THEN "upgraded" ELSE "returned"
        /\ answers' = IF found THEN Append(answers, "101") ELSE answers
        /\ parser' = p /\ req' = q
    BY <1>9, Zenon DEF Handle
  <2>2. /\ AnswersInOrder' /\ Len(answers') <= m /\ \E S : answers' \in Seq(S)
    <3>1. CASE found
      <4>1. Due(r) = "101"
        BY <1>2, <1>9, <3>1, AnswerIsDue, Zenon
      <4>2. answers' = Append(answers, "101")
        BY <2>1, <3>1
      <4>3. "101" = Due(requests[Len(answers) + 1])
        BY <4>1, Zenon
      <4>4. AnswersInOrder' /\ Len(answers') = Len(answers) + 1 /\ \E S : answers' \in Seq(S)
        BY <1>1, <4>2, <4>3, AnswersGrow, Zenon
      <4> QED
        BY <1>3, <4>4
    <3>2. CASE ~found
      <4>1. answers' = answers
        BY <2>1, <3>2
      <4> QED
        BY <1>3, <4>1 DEF AnswersInOrder, Written
    <3> QED
      BY <3>1, <3>2
  <2>3. socket' # "open"
    BY <2>1
  <2>4. ParseInv'
    BY <1>6, <2>1, <2>2, <2>3, InvNext, Zenon
  <2>5. IsReq(req') /\ IsParser(parser')
    BY <2>1 DEF Whole
  <2>6. Conn'
    BY <1>1, <1>7, <1>8, <2>5 DEF Conn
  <2>7. Written'
    BY <1>6, <2>2 DEF Written
  <2> QED
    BY <2>4, <2>6, <2>7
<1>10. CASE ~Upgrades(q)
  <2>1. PICK a : a = CASE Invalid(q) -> "400" [] ~Invalid(q) /\ found -> "404"
                       [] ~Invalid(q) /\ ~found -> status
    OBVIOUS
  <2>2. /\ socket' = (IF q.upgrade THEN "returned" ELSE socket)
        /\ answers' = Append(answers, a)
        /\ parser' = Cleared(p) /\ req' = Fresh
    BY <1>10, <2>1, Zenon DEF Handle
  <2>3. a = Due(r) \/ Misjudged(r)
    <3>1. CASE Invalid(q)
      <4>1. a = "400"
        BY <2>1, <3>1
      <4> QED
        BY <1>2, <3>1, <4>1, AnswerIsDue, Zenon
    <3>2. CASE ~Invalid(q) /\ found
      <4>1. a = "404"
        BY <2>1, <3>2
      <4> QED
        BY <1>2, <1>10, <3>2, <4>1, AnswerIsDue, Zenon
    <3>3. CASE ~Invalid(q) /\ ~found
      <4>1. a = status
        BY <2>1, <3>3
      <4> QED
        BY <1>2, <1>10, <3>3, <4>1, AnswerIsDue, Zenon
    <3> QED
      BY <3>1, <3>2, <3>3
  <2>4. AnswersInOrder' /\ Len(answers') = m /\ \E S : answers' \in Seq(S)
    <3>1. a = Due(requests[Len(answers) + 1]) \/ Misjudged(requests[Len(answers) + 1])
      BY <2>3, Zenon
    <3>2. AnswersInOrder' /\ Len(answers') = Len(answers) + 1 /\ \E S : answers' \in Seq(S)
      BY <1>1, <2>2, <3>1, AnswersGrow, Zenon
    <3> QED
      BY <1>3, <3>2
  <2>5. /\ parser'.state = "start_req" /\ parser'.qs_point = 0 /\ IsParser(parser')
    BY <2>2, ClearedIs, Zenon
  <2>6. Idle(m)'
    BY <1>1, <1>3, <1>4, <1>5, <2>2, <2>5, IdleNext, Zenon
  <2>7. Len(answers') <= m
    BY <2>4
  <2>8. ParseInv'
    BY <1>6, <2>4, <2>6, <2>7, InvNext, Zenon
  <2>9. Conn'
    BY <1>1, <1>7, <1>8, <2>2, <2>5, FreshIs DEF Conn
  <2>10. Written'
    BY <1>6, <2>4 DEF Written
  <2> QED
    BY <2>8, <2>9, <2>10
<1> QED
  BY <1>9, <1>10

\* The headers of r are complete: p is the parser, q the request.
HeadEnd(r, p, q) ==
    /\ IsParser(p) /\ FlagsInv(p, r, Len(r.fields), Len(r.fields), Len(r.fields))
    /\ LengthInv(p, r, Len(r.fields))
    /\ IsReq(q) /\ q.raw_url = r.url /\ q.method = r.method /\ q.body = <<>>
    /\ q.version = r.version /\ q.upgrade = ("upgrade" \in p.flags)
    /\ Told(q.headers, r, Len(r.fields)) /\ Judged(r, code) /\ mark = NoMark

\* A request with its last header.
LEMMA LastHeader ==
    ASSUME NEW r, InHeaders(r), mark = NoMark, IsReq(req), Delivered = req, NEW p, IsParser(p),
           p.version = parser.version, FlagsInv(p, r, Len(r.fields), Len(r.fields), Len(r.fields)),
           LengthInv(p, r, Len(r.fields)), NEW u, IsReq(u), SameLine(req, u), NEW q,
           q = WithConnection(u, p), Told(q.headers, r, Len(r.fields))
    PROVE  HeadEnd(r, p, q)
<1>1. /\ IsReq(q) /\ q.method = u.method /\ q.raw_url = u.raw_url /\ q.body = u.body
      /\ q.version = p.version /\ q.upgrade = ("upgrade" \in p.flags)
  <2>1. HeadIs(u, q, p)
    BY HeadTaken, Zenon
  <2> QED
    BY <2>1, Zenon DEF HeadIs
<1>2. /\ Judged(r, code) /\ req.raw_url = r.url /\ req.method = r.method /\ req.body = <<>>
      /\ parser.version = r.version
  BY Zenon DEF InHeaders, Routed
<1>3. u.method = req.method /\ u.raw_url = req.raw_url /\ u.body = req.body
  BY DEF SameLine
<1> QED
  BY <1>1, <1>2, <1>3, Zenon DEF HeadEnd

\* The empty line behind the headers is complete, all of it.
LEMMA EndReached ==
    ASSUME Conn, NEW r, IsRequest(r), NEW l \in Seq(Symbol), AtHeadersEnd(r, l),
           Takes({"headers_almost_done"}, {"LF"}), NEW p, p = CompletedLine,
           NEW q, q = WithConnection(CompletedField, p)
    PROVE  HeadEnd(r, p, q) /\ Coming' = BodyText(r) \o l
<1>1. requests' = requests /\ stream' = stream /\ at' = at + 1 /\ parser.state = "headers_almost_done"
  BY Taking
<1>2. p = parser /\ CompletedField = req
  BY <1>1 DEF CompletedLine, CompletedField
<1>3. /\ mark = NoMark /\ InHeaders(r)
      /\ FlagsInv(parser, r, Len(r.fields), Len(r.fields), Len(r.fields))
      /\ LengthInv(parser, r, Len(r.fields))
      /\ Told(WithConnection(req, parser).headers, r, Len(r.fields))
      /\ Coming = <<"LF">> \o (BodyText(r) \o l)
  BY Zenon DEF AtHeadersEnd
<1>4. Coming' = BodyText(r) \o l
  <2>1. PICK x \in Seq(Symbol) : x = BodyText(r) \o l
    BY BodyIs, Behind
  <2>2. Begins(Coming, "LF", x)
    BY <1>3, <2>1, EmptyComes, Zenon
  <2> QED
    BY <1>1, <2>1, <2>2, NextCome DEF Conn
<1>5. IsReq(req) /\ IsParser(parser) /\ Delivered = req
  BY <1>3, NothingMarked DEF Conn
<1>6. SameLine(req, req)
  BY <1>5 DEF SameLine
<1>7. HeadEnd(r, p, q)
  BY <1>2, <1>3, <1>5, <1>6, LastHeader, Zenon
<1> QED
  BY <1>4, <1>7

\* So it is where it is one symbol.
LEMMA EndAtLine ==
    ASSUME Conn, NEW r, IsRequest(r), NEW l \in Seq(Symbol), NEW j, AtLine(r, j, l),
           Takes(LineStart, {"LF"}), NEW p, p = CompletedLine,
           NEW q, q = WithConnection(CompletedField, p)
    PROVE  HeadEnd(r, p, q) /\ Coming' = BodyText(r) \o l
<1>1. requests' = requests /\ stream' = stream /\ at' = at + 1 /\ ch = "LF"
  BY Taking
<1>2. PICK n : n = Len(r.fields)
  OBVIOUS
<1>3. j - 1 = n /\ Coming' = BodyText(r) \o l
  <2>1. j \notin 1..Len(r.fields)
    <3>1. SUFFICES ASSUME j \in 1..Len(r.fields) PROVE FALSE
      BY Zenon
    <3>2. /\ Begins(Coming, NameText(r.fields[j])[1], FromName(r, j, 1, l))
          /\ NameText(r.fields[j])[1] \in DOMAIN Name
      BY <3>1, LineComes, Zenon
    <3>3. ch \in DOMAIN Name
      BY <3>2, NextCome, Zenon DEF Conn
    <3>4. "LF" \notin DOMAIN Name
      BY Zenon DEF Name
    <3> QED
      BY <1>1, <3>3, <3>4
  <2>2. /\ j - 1 = Len(r.fields)
        /\ \/ Begins(Coming, "CR", <<"LF">> \o (BodyText(r) \o l))
           \/ Begins(Coming, "LF", BodyText(r) \o l)
    BY <2>1, LineComes, Zenon
  <2>3. ~Begins(Coming, "CR", <<"LF">> \o (BodyText(r) \o l))
    <3>1. SUFFICES ASSUME Begins(Coming, "CR", <<"LF">> \o (BodyText(r) \o l)) PROVE FALSE
      BY Zenon
    <3>2. ch = "CR"
      BY <3>1, NextCome, Zenon DEF Conn
    <3> QED
      BY <1>1, <3>2
  <2>4. Coming' = BodyText(r) \o l
    BY <1>1, <2>2, <2>3, NextCome, Zenon DEF Conn
  <2> QED
    BY <1>2, <2>2, <2>4, Zenon
<1>4. /\ mark = NoMark /\ InHeaders(r)
      /\ FlagsInv(p, r, n, n, n) /\ LengthInv(p, r, n)
      /\ Moves(parser, p, parser.state, parser.header_state, p.flags, parser.content_length)
      /\ SameLine(req, CompletedField) /\ AllTold(CompletedField, r, n)
  BY <1>3, Zenon DEF AtLine
<1>5. IsParser(p) /\ p.version = parser.version
  BY <1>4 DEF Moves
<1>6. PICK u : u = CompletedField
  OBVIOUS
<1>7. IsReq(u) /\ SameLine(req, u) /\ q = WithConnection(u, p) /\ AllTold(u, r, n)
  BY <1>4, <1>6 DEF SameLine
<1>8. Told(q.headers, r, n)
  <2>1. q.headers = IF u.field # <<>> THEN Put(u.headers, u.field, u.value) ELSE u.headers
    <3>1. HeadIs(u, q, p)
      BY <1>7, HeadTaken, Zenon
    <3> QED
      BY <3>1, Zenon DEF HeadIs
  <2> QED
    BY <1>7, <2>1, Zenon DEF AllTold
<1>9. IsReq(req) /\ Delivered = req
  BY <1>4, NothingMarked DEF Conn
<1>10. HeadEnd(r, p, q)
  BY <1>2, <1>4, <1>5, <1>7, <1>8, <1>9, LastHeader, Zenon
<1> QED
  BY <1>3, <1>10

\* Wherever the empty line ends, the headers are complete.
LEMMA HeadersOver ==
    ASSUME Conn, NEW r, IsRequest(r), NEW l \in Seq(Symbol), InRequest(r, l),
           \/ Takes({"headers_almost_done"}, {"LF"}) /\ "trailing" \notin parser.flags
           \/ Takes(LineStart, {"LF"}),
           NEW p, p = CompletedLine, NEW q, q = WithConnection(CompletedField, p)
    PROVE  HeadEnd(r, p, q) /\ Coming' = BodyText(r) \o l
<1>1. CASE Takes({"headers_almost_done"}, {"LF"}) /\ "trailing" \notin parser.flags
  <2>1. parser.state = "headers_almost_done"
    BY <1>1, Taking
  <2>2. AtHeadersEnd(r, l) \/ AtLast(r, l)
    BY <2>1, StatesOf DEF InRequest
  <2>3. ~AtLast(r, l)
    <3>1. SUFFICES ASSUME AtLast(r, l) PROVE "trailing" \in parser.flags
      BY <1>1, Zenon
    <3> QED
      BY <2>1, <3>1 DEF AtLast
  <2> QED
    BY <1>1, <2>2, <2>3, EndReached
<1>2. CASE Takes(LineStart, {"LF"})
  <2>1. parser.state \in LineStart /\ ch = "LF"
    BY <1>2, Taking
  <2>2. ~Space
    BY <2>1, Zenon DEF Space
  <2>3. ~(AtLast(r, l) /\ parser.state = "header_field_start")
    <3>1. SUFFICES ASSUME AtLast(r, l), parser.state = "header_field_start" PROVE FALSE
      BY Zenon
    <3>2. ch = "CR"
      BY <3>1, LastLine, Zenon
    <3> QED
      BY <2>1, <3>2
  <2>4. PICK j \in 1..(Len(r.fields) + 1) : AtLine(r, j, l)
    BY <2>1, <2>2, <2>3, LineReached, Zenon
  <2> QED
    BY <1>2, <2>4, EndAtLine, Zenon
<1> QED
  BY <1>1, <1>2

\* Request r is the one being taken, and the n before it are answered.
Ready(n, r) ==
    /\ Written /\ AnswersInOrder /\ RequestsArriveWhole /\ n \in Nat /\ n < Len(requests)
    /\ n = Len(handled) /\ n = Len(answers) /\ socket = "open" /\ r = requests[n + 1]

\* Nothing is answered, and the request still being taken.
LEMMA InStays ==
    ASSUME Conn, NEW n, NEW r, Ready(n, r), Quiet, NEW l, l = Later(n + 1), InRequest(r, l)'
    PROVE  Written' /\ ParseInv'
<1>1. UNCHANGED <<requests, socket, answers, handled>>
  BY DEF Quiet
<1>2. AnswersInOrder' /\ RequestsArriveWhole'
  BY <1>1, Zenon DEF Ready, AnswersInOrder, RequestsArriveWhole
<1>3. Written'
  BY <1>1, Zenon DEF Ready, Written
<1>4. InNext(n)'
  <2>1. Later(n + 1)' = l
    BY <1>1, Zenon DEF Later
  <2>2. n < Len(requests') /\ r = requests'[n + 1]
    BY <1>1 DEF Ready
  <2> QED
    BY <2>1, <2>2, Zenon DEF InNext
<1>5. /\ n = Len(handled') /\ n = Len(answers') /\ Len(answers') <= n /\ socket' = "open"
  <2>1. n \in Nat
    BY DEF Ready
  <2>2. n <= n
    BY <2>1
  <2> QED
    BY <1>1, <2>2, Zenon DEF Ready
<1> QED
  BY <1>2, <1>3, <1>4, <1>5, InvNext, Zenon

\* The connection is closed without an answer.
LEMMA Closes ==
    ASSUME Conn, NEW n, NEW r, Ready(n, r), Refuses, requests' = requests,
           stream' \in Seq(Symbol), at' = at + 1
    PROVE  Conn' /\ Written' /\ ParseInv'
<1>1. /\ socket' = "closed" /\ mark' = NoMark
      /\ UNCHANGED <<parser, url_start_mark, req, found, code, close_connection_, answers, handled>>
  BY DEF Refuses
<1>2. AnswersInOrder' /\ RequestsArriveWhole'
  BY <1>1, Zenon DEF Ready, AnswersInOrder, RequestsArriveWhole
<1>3. Written'
  BY <1>1, Zenon DEF Ready, Written
<1>4. n = Len(handled') /\ Len(answers') <= n /\ socket' # "open" /\ socket' # "returned"
  <2>1. n \in Nat
    BY DEF Ready
  <2>2. n <= n
    BY <2>1
  <2>3. socket' # "open" /\ socket' # "returned"
    BY <1>1
  <2> QED
    BY <1>1, <2>2, <2>3, Zenon DEF Ready
<1>5. ParseInv'
  BY <1>2, <1>4, InvNext, Zenon
<1>6. IsMark(mark')
  BY <1>1, NoMarkIs
<1>7. url_start_mark' \in Nat /\ url_start_mark' <= at' /\ at' \in Nat
  BY <1>1, MarkStays DEF Conn
<1>8. Conn'
  BY <1>1, <1>6, <1>7 DEF Conn, SentRequests
<1> QED
  BY <1>3, <1>5, <1>8

\* The body of a request with none, and of one whose length is said.
LEMMA BodySaid ==
    ASSUME NEW r, IsRequest(r), NEW p, FlagsInv(p, r, Len(r.fields), Len(r.fields), Len(r.fields)),
           LengthInv(p, r, Len(r.fields)), NEW l \in Seq(Symbol)
    PROVE  /\ "upgrade" \in p.flags \/ ("chunked" \notin p.flags /\ ~(p.content_length > 0)) =>
                r.body = <<>> /\ BodyText(r) \o l = l
           /\ "chunked" \notin p.flags /\ p.content_length > 0 =>
                /\ p.content_length = Len(r.body) /\ Len(r.body) > 0
                /\ BodyText(r) = r.body
<1>1. /\ "chunked" \in p.flags <=> Has(r, "chunked")
      /\ "upgrade" \in p.flags => Has(r, "upgrade") \/ Has(r, "h2")
      /\ p.content_length = IF Has(r, "length") THEN Len(r.body) ELSE Unset
  BY FlagsSay, Zenon
<1>2. /\ Has(r, "upgrade") \/ Has(r, "h2") => r.body = <<>> /\ ~Has(r, "chunked")
      /\ ~Has(r, "chunked") /\ r.body # <<>> => Has(r, "length")
      /\ r.body \in Seq(Octet)
  BY Zenon DEF IsRequest
<1>3. ~Has(r, "chunked") => BodyText(r) = r.body
  BY Zenon DEF BodyText
<1>4. ASSUME "upgrade" \in p.flags \/ ("chunked" \notin p.flags /\ ~(p.content_length > 0))
      PROVE  r.body = <<>> /\ BodyText(r) \o l = l
  <2>1. r.body = <<>> /\ ~Has(r, "chunked")
    <3>1. CASE "upgrade" \in p.flags
      BY <1>1, <1>2, <3>1, Zenon
    <3>2. CASE "chunked" \notin p.flags /\ ~(p.content_length > 0)
      <4>1. Has(r, "length") => ~(Len(r.body) > 0)
        BY <1>1, <3>2, Zenon
      <4>2. ~(Len(r.body) > 0) => r.body = <<>>
        BY <1>2
      <4> QED
        BY <1>1, <1>2, <3>2, <4>1, <4>2, Zenon
    <3> QED
      BY <1>4, <3>1, <3>2, Zenon
  <2>2. <<>> \o l = l
    OBVIOUS
  <2> QED
    BY <1>3, <2>1, <2>2, Zenon
<1>5. ASSUME "chunked" \notin p.flags, p.content_length > 0
      PROVE  /\ p.content_length = Len(r.body) /\ Len(r.body) > 0
             /\ BodyText(r) = r.body
  <2>1. ~(Unset > 0)
    BY DEF Unset
  <2>2. p.content_length = Len(r.body)
    BY <1>1, <1>5, <2>1, Zenon
  <2>3. Len(r.body) > 0
    BY <1>5, <2>2, Zenon
  <2> QED
    BY <1>1, <1>3, <1>5, <2>2, <2>3, Zenon
<1> QED
  BY <1>4, <1>5, Zenon

\* What is taken of a request whose body comes.
LEMMA HeadIsTaken ==
    ASSUME Conn, NEW r, IsRequest(r), NEW p, NEW q, HeadEnd(r, p, q), ~Misframed(p), ~q.upgrade,
           mark' = mark, req' = q, found' = found, code' = Continued(q)
    PROVE  Taken(r)' /\ Delivered' = req' /\ Delivered'.body = <<>> /\ IsMark(mark') /\ mark' = NoMark
<1>1. /\ IsReq(q) /\ q.raw_url = r.url /\ q.method = r.method /\ q.body = <<>>
      /\ q.version = r.version /\ q.upgrade = ("upgrade" \in p.flags)
      /\ Told(q.headers, r, Len(r.fields)) /\ Judged(r, code) /\ mark = NoMark
      /\ FlagsInv(p, r, Len(r.fields), Len(r.fields), Len(r.fields))
      /\ LengthInv(p, r, Len(r.fields))
  BY Zenon DEF HeadEnd
<1>2. Delivered' = req' /\ IsMark(mark')
  BY <1>1, NoneDelivered
<1>3. Judged(r, Continued(q))
  BY <1>1, ContinuedJudged, Zenon
<1>4. Judged(r, code)'
  BY <1>3, Zenon DEF Judged
<1>5. Framed(r) /\ (Has(r, "upgrade") => "upgrade" \in p.flags)
  BY <1>1, FlagsSay, Zenon
<1>6. ~Has(r, "upgrade")
  BY <1>1, <1>5, Zenon
<1>7. Routed(r)'
  BY <1>1, <1>2, <1>4, Zenon DEF Routed
<1>8. Taken(r)'
  BY <1>1, <1>2, <1>5, <1>6, <1>7, Zenon DEF Taken
<1> QED
  BY <1>1, <1>2, <1>8, Zenon

\* The headers are complete: the body comes, or the request is.
LEMMA HeadersAreDone ==
    ASSUME Conn, NEW n, NEW r, Ready(n, r), IsRequest(r), NEW l \in Seq(Symbol), l = Later(n + 1),
           InRequest(r, l), HeadersDone
    PROVE  Conn' /\ Written' /\ ParseInv'
<1>1. PICK p : p = CompletedLine
  OBVIOUS
<1>2. PICK q : q = WithConnection(CompletedField, p)
  OBVIOUS
<1>3. /\ \/ Takes({"headers_almost_done"}, {"LF"}) /\ "trailing" \notin parser.flags
         \/ Takes(LineStart, {"LF"})
      /\ IF Misframed(p) THEN Refuses
         ELSE IF ~q.upgrade /\ ("chunked" \in p.flags \/ p.content_length > 0)
         THEN /\ parser' = [p EXCEPT !.state = IF "chunked" \in p.flags THEN "chunk_size_start"
                                               ELSE "body_identity"]
              /\ req' = q /\ code' = Continued(q)
              /\ UNCHANGED <<mark, url_start_mark, found, socket, close_connection_, answers, handled>>
         ELSE Handle(p, q, Continued(q))
  BY <1>1, <1>2, Zenon DEF HeadersDone
<1>4. /\ requests' = requests /\ stream' = stream /\ at' = at + 1
      /\ SentRequests' /\ stream' \in Seq(Symbol) /\ at' \in Nat
  <2>1. PICK S, C : Takes(S, C)
    BY <1>3, Zenon
  <2> QED
    BY <2>1, Taking
<1>5. HeadEnd(r, p, q) /\ Coming' = BodyText(r) \o l
  BY <1>1, <1>2, <1>3, HeadersOver
<1>6. /\ IsParser(p) /\ FlagsInv(p, r, Len(r.fields), Len(r.fields), Len(r.fields))
      /\ LengthInv(p, r, Len(r.fields))
      /\ IsReq(q) /\ q.raw_url = r.url /\ q.method = r.method /\ q.body = <<>>
      /\ q.version = r.version /\ q.upgrade = ("upgrade" \in p.flags)
      /\ Told(q.headers, r, Len(r.fields)) /\ Judged(r, code) /\ mark = NoMark
  BY <1>5, Zenon DEF HeadEnd
<1>7. /\ Misframed(p) <=> ~Framed(r)
      /\ "chunked" \in p.flags <=> Has(r, "chunked")
      /\ Has(r, "upgrade") => "upgrade" \in p.flags
  BY <1>6, FlagsSay, Zenon
<1>8. CASE Misframed(p)
  <2>1. Refuses
    BY <1>3, <1>8
  <2> QED
    BY <1>4, <2>1, Closes
<1>9. CASE ~Misframed(p) /\ ~q.upgrade /\ ("chunked" \in p.flags \/ p.content_length > 0)
  <2>1. /\ parser' = [p EXCEPT !.state = IF "chunked" \in p.flags THEN "chunk_size_start"
                                         ELSE "body_identity"]
        /\ req' = q /\ code' = Continued(q)
        /\ UNCHANGED <<mark, url_start_mark, found, socket, close_connection_, answers, handled>>
    BY <1>3, <1>9, Zenon
  <2>2. PICK s : s = IF "chunked" \in p.flags THEN "chunk_size_start" ELSE "body_identity"
    OBVIOUS
  <2>3. IsParser(parser') /\ parser'.state = s /\ parser'.content_length = p.content_length
    <3>1. IsParser(p) /\ 0 \in Int
      BY <1>6
    <3>2. Moves(p, [p EXCEPT !.state = s], s, p.header_state, p.flags, p.content_length)
      BY <3>1, ParserMoves
    <3>3. Moves(p, parser', s, p.header_state, p.flags, p.content_length)
      BY <2>1, <2>2, <3>2, Zenon
    <3> QED
      BY <3>3 DEF Moves
  <2>4. /\ Taken(r)' /\ Delivered' = req' /\ Delivered'.body = <<>> /\ IsMark(mark')
        /\ mark' = NoMark
    <3>1. mark' = mark /\ found' = found
      BY <2>1
    <3> QED
      BY <1>5, <1>9, <2>1, <3>1, HeadIsTaken, Zenon
  <2>5. InRequest(r, l)'
    <3>1. CASE "chunked" \in p.flags
      <4>1. AtChunk(r, l)'
        BY <1>5, <1>7, <2>2, <2>3, <2>4, <3>1, Zenon DEF AtChunk
      <4> QED
        BY <4>1 DEF InRequest
    <3>2. CASE "chunked" \notin p.flags
      <4>1. p.content_length = Len(r.body) /\ Len(r.body) > 0 /\ BodyText(r) = r.body
        BY <1>6, <1>9, <3>2, BodySaid, Zenon
      <4>2. r.body \in Seq(Symbol)
        BY BodySymbols
      <4>3. 0 \in 0..(Len(r.body) - 1) /\ Len(r.body) = Len(r.body) - 0
        BY <4>1, <4>2
      <4>4. Upto(r.body, 0) = <<>> /\ Drop(r.body, 0) = r.body
        BY <4>2, UptoAll, DropNone
      <4>5. \E k \in 0..(Len(r.body) - 1) :
              /\ parser'.content_length = Len(r.body) - k
              /\ Delivered'.body = Upto(r.body, k) /\ Coming' = Drop(r.body, k) \o l
        BY <1>5, <2>3, <2>4, <4>1, <4>3, <4>4, Zenon
      <4>6. mark'.of = "none" /\ mark'.text = <<>>
        BY <2>4, NoMarkIs
      <4>7. mark'.of \in {"none", "body"}
        BY <4>6
      <4>8. parser'.state = "body_identity"
        BY <2>2, <2>3, <3>2
      <4>9. InBody(r, l)'
        BY <2>4, <4>5, <4>6, <4>7, <4>8, Zenon DEF InBody
      <4> QED
        BY <4>9 DEF InRequest
    <3> QED
      BY <3>1, <3>2
  <2>6. url_start_mark' \in Nat /\ url_start_mark' <= at'
    BY <1>4, <2>1, MarkStays
  <2>7. IsReq(req')
    BY <1>6, <2>1
  <2>8. Conn'
    BY <1>4, <2>3, <2>4, <2>6, <2>7 DEF Conn
  <2>9. Quiet
    BY <1>4, <2>1 DEF Quiet
  <2>10. Written' /\ ParseInv'
    BY <2>5, <2>9, InStays, Zenon
  <2> QED
    BY <2>8, <2>10
<1>10. CASE ~Misframed(p) /\ ~(~q.upgrade /\ ("chunked" \in p.flags \/ p.content_length > 0))
  <2>1. Handle(p, q, Continued(q))
    BY <1>3, <1>10, Zenon
  <2>2. r.body = <<>> /\ BodyText(r) \o l = l
    <3>1. "upgrade" \in p.flags \/ ("chunked" \notin p.flags /\ ~(p.content_length > 0))
      BY <1>6, <1>10, Zenon
    <3> QED
      BY <1>6, <3>1, BodySaid, Zenon
  <2>3. Whole(q, r)
    <3>1. Has(r, "upgrade") => q.upgrade
      BY <1>6, <1>7, Zenon
    <3>2. Framed(r)
      BY <1>7, <1>10, Zenon
    <3> QED
      BY <1>6, <2>2, <3>1, <3>2, Zenon DEF Whole
  <2>4. Judged(r, Continued(q))
    BY <1>6, ContinuedJudged, Zenon
  <2>5. Coming' = Later(n + 1)
    BY <1>5, <2>2, Zenon
  <2>6. /\ Written /\ AnswersInOrder /\ RequestsArriveWhole /\ n \in Nat /\ n < Len(requests)
        /\ n = Len(handled) /\ n = Len(answers) /\ socket = "open" /\ r = requests[n + 1]
    BY Zenon DEF Ready
  <2> QED
    BY <1>4, <1>6, <2>1, <2>3, <2>4, <2>5, <2>6, Completes, Zenon
<1> QED
  BY <1>8, <1>9, <1>10, Zenon

\* A second length.
LEMMA LengthIsTwice ==
    ASSUME Conn, NEW n, NEW r, Ready(n, r), LengthTwice
    PROVE  Conn' /\ Written' /\ ParseInv'
<1>1. Takes({"header_value_discard_ws"}, DOMAIN Digit) /\ Refuses
  BY DEF LengthTwice
<1>2. requests' = requests /\ stream' \in Seq(Symbol) /\ at' = at + 1
  BY <1>1, Taking
<1> QED
  BY <1>1, <1>2, Closes

\* One more symbol of a body.
LEMMA BodyGrows ==
    ASSUME Conn, mark.of \in {"none", "body"}, mark.of = "none" => mark.text = <<>>,
           ch \in Symbol, NEW u, u = WithBody(req, Append(mark.text, ch))
    PROVE  /\ SameHead(Delivered, u) /\ u.body = Delivered.body \o <<ch>>
           /\ Marks("body") /\ UNCHANGED connection =>
                /\ Delivered' = u /\ IsMark(mark') /\ mark'.of = "body"
                /\ UNCHANGED <<req, found, code, socket, close_connection_, answers, handled>>
<1>1. IsMark(mark) /\ IsReq(req)
  BY DEF Conn
<1>2. mark.text \in Seq(Symbol) /\ req.body \in Seq(Symbol)
  BY <1>1 DEF IsMark, IsReq
<1>3. PICK c \in Seq(Symbol) : c = <<ch>>
  BY ShortTexts, Zenon
<1>14. PICK s \in Seq(Symbol) : s = mark.text
  BY <1>2
<1>15. Append(s, ch) = s \o <<ch>> /\ Append(s, ch) \in Seq(Symbol)
  OBVIOUS
<1>4. PICK t \in Seq(Symbol) : t = Append(mark.text, ch) /\ t = mark.text \o c
  BY <1>3, <1>14, <1>15, Zenon
<1>5. SameHead(req, u) /\ u.body = req.body \o t
  BY <1>1, <1>4, BodyTaken, Zenon
<1>6. DeliveryIs(mark, req, Delivered)
  BY <1>1, DeliveredIs
<1>7. SameHead(Delivered, u) /\ u.body = Delivered.body \o <<ch>>
  <2>1. CASE mark.of = "none"
    <3>1. Delivered = req
      BY <1>6, <2>1 DEF DeliveryIs
    <3>3. <<>> \o c = c
      OBVIOUS
    <3>2. t = c
      BY <1>4, <2>1, <3>3, Zenon
    <3> QED
      BY <1>3, <1>5, <3>1, <3>2, Zenon
  <2>2. CASE mark.of = "body"
    <3>1. SameHead(req, Delivered) /\ Delivered.body = req.body \o mark.text
      BY <1>6, <2>2 DEF DeliveryIs
    <3>2. Regroups(req.body, mark.text, c)
      BY <1>2, Regrouping
    <3>3. u.body = Delivered.body \o c
      BY <1>4, <1>5, <3>1, <3>2, Zenon DEF Regroups
    <3>4. SameHead(Delivered, u)
      BY <1>5, <3>1 DEF SameHead
    <3> QED
      BY <1>3, <3>3, <3>4, Zenon
  <2> QED
    BY <2>1, <2>2
<1>8. ASSUME Marks("body"), UNCHANGED connection
      PROVE  /\ Delivered' = u /\ IsMark(mark') /\ mark'.of = "body"
             /\ UNCHANGED <<req, found, code, socket, close_connection_, answers, handled>>
  <2>1. UNCHANGED <<req, found, code, socket, close_connection_, answers, handled>>
    BY <1>8 DEF connection
  <2>2. IsMark(mark') /\ mark'.of = "body"
        /\ mark'.text = IF mark.of = "body" THEN mark.text \o <<ch>> ELSE <<ch>>
    BY <1>1, <1>8, Marking
  <2>3. mark'.text = t
    <3>1. CASE mark.of = "none"
      BY <1>3, <1>4, <2>2, <3>1
    <3>2. CASE mark.of = "body"
      BY <1>3, <1>4, <2>2, <3>2
    <3> QED
      BY <3>1, <3>2
  <2>4. Delivered' = WithBody(req', mark'.text)
    <3>1. DeliveryIs(mark', req', Delivered')
      BY <1>1, <2>1, <2>2, DeliveredNext
    <3> QED
      BY <2>2, <3>1 DEF DeliveryIs
  <2>5. Delivered' = u
    BY <1>4, <2>1, <2>3, <2>4, Zenon
  <2> QED
    BY <2>1, <2>2, <2>5
<1> QED
  BY <1>7, <1>8

\* What is taken stays when the body goes on.
LEMMA TakenOn ==
    ASSUME NEW r, Taken(r), SameHead(Delivered, Delivered'), found' = found, code' = code
    PROVE  Taken(r)'
<1>1. /\ Delivered'.raw_url = Delivered.raw_url /\ Delivered'.method = Delivered.method
      /\ Delivered'.version = Delivered.version /\ Delivered'.headers = Delivered.headers
      /\ Delivered'.upgrade = Delivered.upgrade
  BY DEF SameHead
<1>2. Routed(r)'
  BY <1>1, Zenon DEF Taken, Routed, Judged
<1> QED
  BY <1>1, <1>2, Zenon DEF Taken

\* A request whose body is complete is whole.
LEMMA TakenWhole ==
    ASSUME NEW r, Taken(r), NEW u, SameHead(Delivered, u), u.body = r.body
    PROVE  Whole(u, r) /\ Judged(r, code)
<1>1. /\ u.raw_url = Delivered.raw_url /\ u.version = Delivered.version /\ IsReq(u)
      /\ u.headers = Delivered.headers
  BY DEF SameHead
<1> QED
  BY <1>1, Zenon DEF Taken, Routed, Whole

\* A symbol of a body whose length was said.
LEMMA BodyIsTaken ==
    ASSUME Conn, NEW n, NEW r, Ready(n, r), IsRequest(r), NEW l \in Seq(Symbol), l = Later(n + 1),
           InBody(r, l), BodyByte
    PROVE  Conn' /\ Written' /\ ParseInv'
<1>1. /\ Takes({"body_identity"}, Range(stream))
      /\ IF parser.content_length > 1
         THEN /\ parser' = [parser EXCEPT !.content_length = @ - 1]
              /\ Marks("body") /\ UNCHANGED <<url_start_mark, connection>>
         ELSE Handle(parser, WithBody(req, Append(mark.text, ch)), code)
  BY DEF BodyByte
<1>2. /\ requests' = requests /\ stream' = stream /\ at' = at + 1 /\ ch \in Symbol
      /\ SentRequests' /\ stream' \in Seq(Symbol) /\ at' \in Nat
  BY <1>1, Taking
<1>3. /\ parser.state = "body_identity" /\ mark.of \in {"none", "body"} /\ Taken(r)
      /\ mark.of = "none" => mark.text = <<>>
  BY Zenon DEF InBody
<1>4. r.body \in Seq(Symbol)
  BY BodySymbols
<1>5. PICK m \in Nat : m = Len(r.body)
  BY <1>4
<1>6. PICK k \in 0..(m - 1) :
         /\ parser.content_length = m - k
         /\ Delivered.body = Upto(r.body, k) /\ Coming = Drop(r.body, k) \o l
  BY <1>5, Zenon DEF InBody
<1>7. k \in Nat /\ k < m /\ k + 1 \in Nat
  OBVIOUS
<1>8. ch = r.body[k + 1] /\ Coming' = Drop(r.body, k + 1) \o l
  <2>1. Begins(Drop(r.body, k) \o l, r.body[k + 1], Drop(r.body, k + 1) \o l)
    BY <1>5, <1>6, BodyComes, Zenon
  <2> QED
    BY <1>2, <1>6, <2>1, NextCome, Zenon DEF Conn
<1>9. Upto(r.body, k + 1) = Upto(r.body, k) \o <<ch>>
  BY <1>4, <1>5, <1>7, <1>8, UptoNext
<1>10. PICK u : u = WithBody(req, Append(mark.text, ch))
  OBVIOUS
<1>11. /\ SameHead(Delivered, u) /\ u.body = Upto(r.body, k + 1)
       /\ Marks("body") /\ UNCHANGED connection =>
                /\ Delivered' = u /\ IsMark(mark') /\ mark'.of = "body"
                /\ UNCHANGED <<req, found, code, socket, close_connection_, answers, handled>>
  <2>1. /\ SameHead(Delivered, u) /\ u.body = Delivered.body \o <<ch>>
        /\ Marks("body") /\ UNCHANGED connection =>
                /\ Delivered' = u /\ IsMark(mark') /\ mark'.of = "body"
                /\ UNCHANGED <<req, found, code, socket, close_connection_, answers, handled>>
    BY <1>2, <1>3, <1>10, BodyGrows, Zenon
  <2> QED
    BY <1>6, <1>9, <2>1, Zenon
<1>12. CASE parser.content_length > 1
  <2>1. /\ parser' = [parser EXCEPT !.content_length = @ - 1]
        /\ Marks("body") /\ UNCHANGED <<url_start_mark, connection>>
    BY <1>1, <1>12
  <2>2. PICK i \in 0..(m - 1) : i = k + 1
    BY <1>6, <1>12
  <2>3. PICK x \in Int : x = parser.content_length - 1 /\ x = m - i
    BY <1>6, <2>2
  <2>4. IsParser(parser') /\ parser'.state = "body_identity" /\ parser'.content_length = x
    <3>1. IsParser(parser)
      BY DEF Conn
    <3>2. Moves(parser, [parser EXCEPT !.content_length = x], parser.state, parser.header_state,
                parser.flags, x)
      BY <3>1, ParserMoves
    <3>3. parser' = [parser EXCEPT !.content_length = x]
      BY <2>1, <2>3
    <3>4. Moves(parser, parser', parser.state, parser.header_state, parser.flags, x)
      BY <3>2, <3>3, Zenon
    <3> QED
      BY <1>3, <3>4 DEF Moves
  <2>5. /\ Delivered' = u /\ IsMark(mark') /\ mark'.of = "body"
        /\ UNCHANGED <<req, found, code, socket, close_connection_, answers, handled>>
        /\ url_start_mark' = url_start_mark
    <3>1. UNCHANGED connection /\ url_start_mark' = url_start_mark
      BY <2>1
    <3> QED
      BY <1>11, <2>1, <3>1, Zenon
  <2>6. Taken(r)'
    BY <1>3, <1>11, <2>5, TakenOn, Zenon
  <2>7. /\ parser'.content_length = m - i
        /\ Delivered'.body = Upto(r.body, i) /\ Coming' = Drop(r.body, i) \o l
    BY <1>8, <1>11, <2>2, <2>3, <2>4, <2>5, Zenon
  <2>8. InBody(r, l)'
    <3>1. mark'.of \in {"none", "body"} /\ mark'.of # "none"
      BY <2>5
    <3> QED
      BY <1>5, <2>4, <2>6, <2>7, <3>1, Zenon DEF InBody
  <2>9. InRequest(r, l)'
    BY <2>8 DEF InRequest
  <2>10. url_start_mark' \in Nat /\ url_start_mark' <= at'
    BY <1>2, <2>5, MarkStays
  <2>11. IsReq(req')
    BY <2>5 DEF Conn
  <2>12. Conn'
    BY <1>2, <2>4, <2>5, <2>10, <2>11 DEF Conn
  <2>13. Quiet
    BY <1>2, <2>5 DEF Quiet
  <2>14. Written' /\ ParseInv'
    BY <2>9, <2>13, InStays, Zenon
  <2> QED
    BY <2>12, <2>14
<1>13. CASE ~(parser.content_length > 1)
  <2>1. Handle(parser, u, code)
    BY <1>1, <1>10, <1>13, Zenon
  <2>2. k + 1 = m
    BY <1>6, <1>13
  <2>3. u.body = r.body
    <3>1. Upto(r.body, Len(r.body)) = r.body
      BY <1>4, UptoAll
    <3> QED
      BY <1>5, <1>11, <2>2, <3>1, Zenon
  <2>4. Whole(u, r) /\ Judged(r, code)
    BY <1>3, <1>11, <2>3, TakenWhole, Zenon
  <2>5. Coming' = Later(n + 1)
    <3>1. Drop(r.body, Len(r.body)) \o l = l
      BY <1>4, DropAll
    <3> QED
      BY <1>5, <1>8, <2>2, <3>1, Zenon
  <2>6. /\ Written /\ AnswersInOrder /\ RequestsArriveWhole /\ n \in Nat /\ n < Len(requests)
        /\ n = Len(handled) /\ n = Len(answers) /\ socket = "open" /\ r = requests[n + 1]
    BY Zenon DEF Ready
  <2>7. IsParser(parser)
    BY DEF Conn
  <2> QED
    BY <1>2, <2>1, <2>4, <2>5, <2>6, <2>7, Completes, Zenon
<1> QED
  BY <1>12, <1>13

\* A symbol that leaves nothing marked and the request as it is.
LEMMA TakesOn ==
    ASSUME Conn, NEW S, NEW C, Takes(S, C), mark = NoMark, NEW r, Taken(r), Still, IsParser(parser')
    PROVE  /\ Conn' /\ Quiet /\ Taken(r)' /\ mark' = NoMark /\ req' = req
           /\ Delivered' = req' /\ Delivered = req
<1>1. /\ requests' = requests /\ stream' = stream /\ at' = at + 1
      /\ SentRequests' /\ stream' \in Seq(Symbol) /\ at' \in Nat
  BY Taking
<1>2. /\ IsReq(req') /\ IsMark(mark') /\ mark' = NoMark /\ req' = req
      /\ Delivered' = req' /\ Delivered = req
      /\ UNCHANGED <<url_start_mark, found, code, socket, close_connection_, answers, handled>>
  BY StillUnmarked, Zenon
<1>3. Taken(r)'
  <2>1. Delivered' = Delivered /\ found' = found /\ code' = code
    BY <1>2
  <2> QED
    BY <2>1, TakenStays
<1>4. url_start_mark' \in Nat /\ url_start_mark' <= at'
  <2>1. url_start_mark' = url_start_mark
    BY <1>2
  <2> QED
    BY <1>1, <2>1, MarkStays
<1>5. Conn'
  BY <1>1, <1>2, <1>4 DEF Conn
<1>6. Quiet
  <2>1. UNCHANGED <<socket, close_connection_, answers, handled>>
    BY <1>2
  <2> QED
    BY <1>1, <2>1, QuietConnection
<1> QED
  BY <1>2, <1>3, <1>5, <1>6

\* What comes where a chunk's size is expected, behind its digit, and behind that line.
SizeAhead(r, l) ==
    \/ /\ req.body = <<>> /\ r.body # <<>> /\ Has(r, "chunked")
       /\ Begins(Coming, Digits(Len(r.body)), EmptyLine(r.body \o EmptyLine(LastChunk(l))))
    \/ req.body = r.body /\ Begins(Coming, "0", EmptyLine(EmptyLine(l)))
SizeEnds(r, l) ==
    \/ /\ req.body = <<>> /\ r.body # <<>> /\ parser.content_length = Len(r.body)
       /\ Begins(Coming, "CR", <<"LF">> \o (r.body \o EmptyLine(LastChunk(l))))
    \/ /\ req.body = r.body /\ parser.content_length = 0
       /\ Begins(Coming, "CR", <<"LF">> \o EmptyLine(l))
SizeOver(r, l) ==
    \/ /\ req.body = <<>> /\ r.body # <<>> /\ parser.content_length = Len(r.body)
       /\ Begins(Coming, "LF", r.body \o EmptyLine(LastChunk(l)))
    \/ /\ req.body = r.body /\ parser.content_length = 0
       /\ Begins(Coming, "LF", EmptyLine(l))

\* So the parser finds them.
LEMMA SizeComes ==
    ASSUME Conn, NEW r, IsRequest(r), NEW l \in Seq(Symbol), AtChunk(r, l) \/ AtLast(r, l)
    PROVE  /\ mark = NoMark /\ Taken(r)
           /\ parser.state = "chunk_size_start" => SizeAhead(r, l)
           /\ parser.state = "chunk_size" => SizeEnds(r, l)
           /\ parser.state = "chunk_size_almost_done" => SizeOver(r, l)
<1>1. LastChunk(l) \in Seq(Symbol) /\ Begins(LastChunk(l), "0", EmptyLine(EmptyLine(l)))
  BY LastComes
<1>2. PICK e \in Seq(Symbol) : e = EmptyLine(LastChunk(l))
  BY <1>1, EmptyComes
<1>3. PICK b \in Seq(Symbol) : b = r.body \o e
  BY BodyComes
<1>4. Begins(EmptyLine(b), "CR", <<"LF">> \o b) /\ Begins(<<"LF">> \o b, "LF", b)
  BY EmptyComes
<1>5. PICK m \in Seq(Symbol) : m = EmptyLine(l)
  BY EmptyComes
<1>6. Begins(EmptyLine(m), "CR", <<"LF">> \o m) /\ Begins(<<"LF">> \o m, "LF", m)
  BY EmptyComes
<1>7. mark = NoMark /\ Taken(r)
  BY Zenon DEF AtChunk, AtLast
<1>8. ASSUME parser.state = "chunk_size_start"
      PROVE  SizeAhead(r, l)
  <2>1. \/ req.body = <<>> /\ Has(r, "chunked") /\ Coming = BodyText(r) \o l
        \/ req.body = r.body /\ Coming = LastChunk(l)
    BY <1>8, Zenon DEF AtChunk, AtLast
  <2>2. CASE req.body = <<>> /\ Has(r, "chunked") /\ Coming = BodyText(r) \o l /\ r.body # <<>>
    BY <2>2, ChunkComes, Zenon DEF SizeAhead
  <2>3. CASE req.body = <<>> /\ Has(r, "chunked") /\ Coming = BodyText(r) \o l /\ r.body = <<>>
    <3>1. Coming = LastChunk(l)
      BY <2>3, BodyIs, Zenon
    <3> QED
      BY <1>1, <2>3, <3>1, Zenon DEF SizeAhead
  <2>4. CASE req.body = r.body /\ Coming = LastChunk(l)
    BY <1>1, <2>4, Zenon DEF SizeAhead
  <2> QED
    BY <2>1, <2>2, <2>3, <2>4, Zenon
<1>9. ASSUME parser.state = "chunk_size"
      PROVE  SizeEnds(r, l)
  <2>1. \/ /\ req.body = <<>> /\ r.body # <<>> /\ parser.content_length = Len(r.body)
           /\ Coming = EmptyLine(r.body \o EmptyLine(LastChunk(l)))
        \/ req.body = r.body /\ parser.content_length = 0 /\ Coming = EmptyLine(EmptyLine(l))
    BY <1>9, Zenon DEF AtChunk, AtLast
  <2> QED
    BY <1>2, <1>3, <1>4, <1>5, <1>6, <2>1, Zenon DEF SizeEnds
<1>10. ASSUME parser.state = "chunk_size_almost_done"
       PROVE  SizeOver(r, l)
  <2>1. \/ /\ req.body = <<>> /\ r.body # <<>> /\ parser.content_length = Len(r.body)
           /\ Coming = <<"LF">> \o (r.body \o EmptyLine(LastChunk(l)))
        \/ req.body = r.body /\ parser.content_length = 0 /\ Coming = <<"LF">> \o EmptyLine(l)
    BY <1>10, Zenon DEF AtChunk, AtLast
  <2> QED
    BY <1>2, <1>3, <1>4, <1>5, <1>6, <2>1, Zenon DEF SizeOver
<1> QED
  BY <1>7, <1>8, <1>9, <1>10, Zenon

\* The digit of a chunk's size.
LEMMA SizeIsTaken ==
    ASSUME Conn, NEW r, IsRequest(r), NEW l \in Seq(Symbol), AtChunk(r, l) \/ AtLast(r, l),
           Takes({"chunk_size_start"}, DOMAIN Digit),
           parser' = [parser EXCEPT !.state = "chunk_size", !.content_length = Digit[ch]], Still
    PROVE  Conn' /\ Quiet /\ InRequest(r, l)'
<1>1. /\ stream' = stream /\ at' = at + 1 /\ ch \in DOMAIN Digit
      /\ parser.state = "chunk_size_start"
  BY Taking
<1>2. /\ mark = NoMark /\ Taken(r)
      /\ \/ /\ req.body = <<>> /\ r.body # <<>> /\ Has(r, "chunked")
            /\ Begins(Coming, Digits(Len(r.body)), EmptyLine(r.body \o EmptyLine(LastChunk(l))))
         \/ req.body = r.body /\ Begins(Coming, "0", EmptyLine(EmptyLine(l)))
  BY <1>1, SizeComes, Zenon DEF SizeAhead
<1>3. ASSUME NEW n \in Int, Digit[ch] = n
      PROVE  /\ parser'.state = "chunk_size" /\ parser'.content_length = n
             /\ Conn' /\ Quiet /\ Taken(r)' /\ mark' = NoMark /\ req' = req
  <2>1. IsParser(parser)
    BY DEF Conn
  <2>2. Moves(parser, [parser EXCEPT !.state = "chunk_size", !.content_length = n], "chunk_size",
              parser.header_state, parser.flags, n)
    BY <2>1, ParserMoves
  <2>3. Moves(parser, parser', "chunk_size", parser.header_state, parser.flags, n)
    BY <1>3, <2>2, Zenon
  <2>4. IsParser(parser') /\ parser'.state = "chunk_size" /\ parser'.content_length = n
    BY <2>3 DEF Moves
  <2>5. Conn' /\ Quiet /\ Taken(r)' /\ mark' = NoMark /\ req' = req
    BY <1>2, <2>4, TakesOn, Zenon
  <2> QED
    BY <2>4, <2>5
<1>4. CASE /\ req.body = <<>> /\ r.body # <<>> /\ Has(r, "chunked")
           /\ Begins(Coming, Digits(Len(r.body)), EmptyLine(r.body \o EmptyLine(LastChunk(l))))
  <2>1. ch = Digits(Len(r.body)) /\ Coming' = EmptyLine(r.body \o EmptyLine(LastChunk(l)))
    BY <1>1, <1>4, NextCome, Zenon DEF Conn
  <2>2. PICK m \in Nat : m = Len(r.body)
    BY BodyLength
  <2>3. m \in 0..9
    <3>1. Len(r.body) <= 9
      BY <1>4, RequestParts
    <3>2. m <= 9
      BY <2>2, <3>1, Zenon
    <3> QED
      BY <3>2
  <2>4. Digit[ch] = m
    BY <2>1, <2>2, <2>3, DigitsRead, Zenon
  <2>5. /\ parser'.state = "chunk_size" /\ parser'.content_length = m
        /\ Conn' /\ Quiet /\ Taken(r)' /\ mark' = NoMark /\ req' = req
    <3>1. m \in Int
      OBVIOUS
    <3> QED
      BY <1>3, <2>4, <3>1
  <2>6. AtChunk(r, l)'
    BY <1>4, <2>1, <2>2, <2>5, Zenon DEF AtChunk
  <2>7. InRequest(r, l)'
    BY <2>6 DEF InRequest
  <2> QED
    BY <2>5, <2>7
<1>5. CASE req.body = r.body /\ Begins(Coming, "0", EmptyLine(EmptyLine(l)))
  <2>1. ch = "0" /\ Coming' = EmptyLine(EmptyLine(l))
    BY <1>1, <1>5, NextCome, Zenon DEF Conn
  <2>2. Digit[ch] = 0
    <3>1. Digit[Digits(0)] = 0
      BY DigitsRead
    <3> QED
      BY <2>1, <3>1, DigitsAre, Zenon
  <2>3. /\ parser'.state = "chunk_size" /\ parser'.content_length = 0
        /\ Conn' /\ Quiet /\ Taken(r)' /\ mark' = NoMark /\ req' = req
    BY <1>3, <2>2
  <2>4. AtLast(r, l)'
    BY <1>5, <2>1, <2>3, Zenon DEF AtLast
  <2>5. InRequest(r, l)'
    BY <2>4 DEF InRequest
  <2> QED
    BY <2>3, <2>5
<1> QED
  BY <1>2, <1>4, <1>5, Zenon

\* The line of a chunk's size ends.
LEMMA SizeLineEnds ==
    ASSUME Conn, NEW r, IsRequest(r), NEW l \in Seq(Symbol), AtChunk(r, l) \/ AtLast(r, l),
           Takes({"chunk_size"}, {"CR"}), Goes("chunk_size_almost_done"), Still
    PROVE  Conn' /\ Quiet /\ InRequest(r, l)'
<1>1. stream' = stream /\ at' = at + 1 /\ parser.state = "chunk_size"
  BY Taking
<1>2. mark = NoMark /\ Taken(r) /\ SizeEnds(r, l)
  BY <1>1, SizeComes, Zenon
<1>3. /\ IsParser(parser') /\ parser'.state = "chunk_size_almost_done"
      /\ parser'.content_length = parser.content_length
  <2>1. StateOnly("chunk_size_almost_done")
    BY ParserGoes
  <2> QED
    BY <2>1 DEF StateOnly
<1>4. Conn' /\ Quiet /\ Taken(r)' /\ mark' = NoMark /\ req' = req
  BY <1>2, <1>3, TakesOn, Zenon
<1>5. CASE /\ req.body = <<>> /\ r.body # <<>> /\ parser.content_length = Len(r.body)
           /\ Begins(Coming, "CR", <<"LF">> \o (r.body \o EmptyLine(LastChunk(l))))
  <2>1. Coming' = <<"LF">> \o (r.body \o EmptyLine(LastChunk(l)))
    BY <1>1, <1>5, NextCome, Zenon DEF Conn
  <2>2. AtChunk(r, l)'
    BY <1>3, <1>4, <1>5, <2>1, Zenon DEF AtChunk
  <2>3. InRequest(r, l)'
    BY <2>2 DEF InRequest
  <2> QED
    BY <1>4, <2>3
<1>6. CASE /\ req.body = r.body /\ parser.content_length = 0
           /\ Begins(Coming, "CR", <<"LF">> \o EmptyLine(l))
  <2>1. Coming' = <<"LF">> \o EmptyLine(l)
    BY <1>1, <1>6, NextCome, Zenon DEF Conn
  <2>2. AtLast(r, l)'
    BY <1>3, <1>4, <1>6, <2>1, Zenon DEF AtLast
  <2>3. InRequest(r, l)'
    BY <2>2 DEF InRequest
  <2> QED
    BY <1>4, <2>3
<1> QED
  BY <1>2, <1>5, <1>6, Zenon DEF SizeEnds

\* Behind the line the chunk begins, or the last empty line.
LEMMA SizeIsOver ==
    ASSUME Conn, NEW r, IsRequest(r), NEW l \in Seq(Symbol), AtChunk(r, l) \/ AtLast(r, l),
           Takes({"chunk_size_almost_done"}, {"LF"}),
           parser' = IF parser.content_length = 0
                     THEN [parser EXCEPT !.state = "header_field_start", !.flags = @ \cup {"trailing"}]
                     ELSE [parser EXCEPT !.state = "chunk_data"],
           Still
    PROVE  Conn' /\ Quiet /\ InRequest(r, l)'
<1>1. stream' = stream /\ at' = at + 1 /\ parser.state = "chunk_size_almost_done"
  BY Taking
<1>2. mark = NoMark /\ Taken(r) /\ SizeOver(r, l)
  BY <1>1, SizeComes, Zenon
<1>3. IsParser(parser) /\ 0 \in Int
  BY DEF Conn
<1>4. CASE /\ req.body = <<>> /\ r.body # <<>> /\ parser.content_length = Len(r.body)
           /\ Begins(Coming, "LF", r.body \o EmptyLine(LastChunk(l)))
  <2>1. PICK x \in Seq(Symbol) : x = EmptyLine(LastChunk(l))
    BY LastComes, EmptyComes
  <2>2. Coming' = r.body \o x
    BY <1>1, <1>4, <2>1, NextCome, Zenon DEF Conn
  <2>3. PICK m \in Nat : m = Len(r.body)
    BY BodyLength
  <2>4. m > 0
    <3>1. r.body \in Seq(Symbol)
      BY BodySymbols
    <3>2. Len(r.body) # 0
      BY <1>4, <3>1
    <3> QED
      BY <2>3, <3>2
  <2>5. /\ IsParser(parser') /\ parser'.state = "chunk_data" /\ parser'.content_length = m
    <3>1. ~(m = 0) /\ parser.content_length = m
      BY <1>4, <2>3, <2>4
    <3>2. parser' = [parser EXCEPT !.state = "chunk_data"]
      BY <3>1
    <3>3. Moves(parser, [parser EXCEPT !.state = "chunk_data"], "chunk_data",
                parser.header_state, parser.flags, parser.content_length)
      BY <1>3, ParserMoves
    <3>4. Moves(parser, parser', "chunk_data", parser.header_state, parser.flags,
                parser.content_length)
      BY <3>2, <3>3, Zenon
    <3> QED
      BY <3>1, <3>4 DEF Moves
  <2>6. /\ Conn' /\ Quiet /\ Taken(r)' /\ mark' = NoMark /\ req' = req
        /\ Delivered' = req' /\ Delivered = req
    BY <1>2, <2>5, TakesOn, Zenon
  <2>7. mark'.of = "none" /\ mark'.text = <<>> /\ mark'.of \in {"none", "body"}
    BY <2>6, NoMarkIs
  <2>8. \E k \in 0..(Len(r.body) - 1) :
          /\ parser'.content_length = Len(r.body) - k
          /\ Delivered'.body = Upto(r.body, k)
          /\ Coming' = Drop(r.body, k) \o EmptyLine(LastChunk(l))
    <3>1. 0 \in 0..(m - 1) /\ m - 0 = m
      BY <2>4
    <3>2. Upto(r.body, 0) = <<>> /\ Drop(r.body, 0) = r.body
      <4>1. r.body \in Seq(Symbol)
        BY BodySymbols
      <4> QED
        BY <4>1, UptoAll, DropNone
    <3>3. Delivered'.body = Upto(r.body, 0)
      BY <1>4, <2>6, <3>2, Zenon
    <3>4. Coming' = Drop(r.body, 0) \o EmptyLine(LastChunk(l))
      BY <2>1, <2>2, <3>2, Zenon
    <3>5. parser'.content_length = m - 0
      BY <2>5, <3>1, Zenon
    <3> QED
      BY <2>3, <3>1, <3>3, <3>4, <3>5, Zenon
  <2>9. InChunk(r, l)'
    BY <2>5, <2>6, <2>7, <2>8, Zenon DEF InChunk
  <2>10. InRequest(r, l)'
    BY <2>9 DEF InRequest
  <2> QED
    BY <2>6, <2>10
<1>5. CASE /\ req.body = r.body /\ parser.content_length = 0
           /\ Begins(Coming, "LF", EmptyLine(l))
  <2>1. Coming' = EmptyLine(l)
    BY <1>1, <1>5, NextCome, Zenon DEF Conn
  <2>2. PICK fl : fl = parser.flags \cup {"trailing"}
    OBVIOUS
  <2>3. /\ IsParser(parser') /\ parser'.state = "header_field_start" /\ "trailing" \in parser'.flags
    <3>1. Moves(parser, [parser EXCEPT !.state = "header_field_start", !.flags = fl],
                "header_field_start", parser.header_state, fl, parser.content_length)
      BY <1>3, ParserMoves
    <3>2. parser' = [parser EXCEPT !.state = "header_field_start", !.flags = fl]
      BY <1>5, <2>2
    <3>3. Moves(parser, parser', "header_field_start", parser.header_state, fl,
                parser.content_length)
      BY <3>1, <3>2, Zenon
    <3> QED
      BY <2>2, <3>3 DEF Moves
  <2>4. Conn' /\ Quiet /\ Taken(r)' /\ mark' = NoMark /\ req' = req
    BY <1>2, <2>3, TakesOn, Zenon
  <2>5. AtLast(r, l)'
    BY <1>5, <2>1, <2>3, <2>4, Zenon DEF AtLast
  <2>6. InRequest(r, l)'
    BY <2>5 DEF InRequest
  <2> QED
    BY <2>4, <2>6
<1> QED
  BY <1>2, <1>4, <1>5, Zenon DEF SizeOver

\* A chunk's size and its line.
LEMMA ChunkIsSized ==
    ASSUME Conn, NEW r, IsRequest(r), NEW l \in Seq(Symbol), InRequest(r, l), ChunkSize
    PROVE  Conn' /\ Quiet /\ InRequest(r, l)'
<1>1. parser.state \in {"chunk_size_start", "chunk_size", "chunk_size_almost_done"}
  <2>1. PICK s \in {"chunk_size_start", "chunk_size", "chunk_size_almost_done"} :
          \E C : Takes({s}, C)
    BY Zenon DEF ChunkSize
  <2>2. parser.state \in {s}
    BY <2>1, Taking, Zenon
  <2> QED
    BY <2>2
<1>2. AtChunk(r, l) \/ AtLast(r, l)
  BY <1>1, StatesOf DEF InRequest
<1>3. CASE /\ Takes({"chunk_size_start"}, DOMAIN Digit)
           /\ parser' = [parser EXCEPT !.state = "chunk_size", !.content_length = Digit[ch]]
           /\ Still
  BY <1>2, <1>3, SizeIsTaken
<1>4. CASE Takes({"chunk_size"}, {"CR"}) /\ Goes("chunk_size_almost_done") /\ Still
  BY <1>2, <1>4, SizeLineEnds
<1>5. CASE /\ Takes({"chunk_size_almost_done"}, {"LF"})
           /\ parser' = IF parser.content_length = 0
                        THEN [parser EXCEPT !.state = "header_field_start",
                                            !.flags = @ \cup {"trailing"}]
                        ELSE [parser EXCEPT !.state = "chunk_data"]
           /\ Still
  BY <1>2, <1>5, SizeIsOver
<1> QED
  BY <1>3, <1>4, <1>5 DEF ChunkSize

\* A symbol of a chunk.
LEMMA ChunkIsTaken ==
    ASSUME Conn, NEW r, IsRequest(r), NEW l \in Seq(Symbol), InChunk(r, l),
           Takes({"chunk_data"}, Range(stream)),
           parser' = [parser EXCEPT !.content_length = @ - 1,
                        !.state = IF parser.content_length = 1 THEN "chunk_data_almost_done" ELSE @],
           Marks("body"), url_start_mark' = url_start_mark, UNCHANGED connection
    PROVE  Conn' /\ Quiet /\ InRequest(r, l)'
<1>1. /\ requests' = requests /\ stream' = stream /\ at' = at + 1 /\ ch \in Symbol
      /\ SentRequests' /\ stream' \in Seq(Symbol) /\ at' \in Nat /\ parser.state = "chunk_data"
  BY Taking
<1>2. PICK x \in Seq(Symbol) : x = EmptyLine(LastChunk(l))
  BY LastComes, EmptyComes
<1>3. r.body \in Seq(Symbol)
  BY BodySymbols
<1>4. PICK m \in Nat : m = Len(r.body)
  BY <1>3
<1>5. /\ mark.of \in {"none", "body"} /\ Taken(r)
      /\ mark.of = "none" => mark.text = <<>>
      /\ \E k \in 0..(m - 1) :
           /\ parser.content_length = m - k
           /\ Delivered.body = Upto(r.body, k) /\ Coming = Drop(r.body, k) \o x
  BY <1>1, <1>2, <1>4, Zenon DEF InChunk
<1>6. PICK k \in 0..(m - 1) :
         /\ parser.content_length = m - k
         /\ Delivered.body = Upto(r.body, k) /\ Coming = Drop(r.body, k) \o x
  BY <1>5, Zenon
<1>7. k \in Nat /\ k < m /\ k + 1 \in Nat
  OBVIOUS
<1>8. ch = r.body[k + 1] /\ Coming' = Drop(r.body, k + 1) \o x
  <2>1. Begins(Drop(r.body, k) \o x, r.body[k + 1], Drop(r.body, k + 1) \o x)
    BY <1>4, <1>6, BodyComes, Zenon
  <2> QED
    BY <1>1, <1>6, <2>1, NextCome, Zenon DEF Conn
<1>9. Upto(r.body, k + 1) = Upto(r.body, k) \o <<ch>>
  BY <1>3, <1>4, <1>7, <1>8, UptoNext
<1>10. PICK u : u = WithBody(req, Append(mark.text, ch))
  OBVIOUS
<1>11. /\ SameHead(Delivered, u) /\ u.body = Upto(r.body, k + 1)
       /\ Delivered' = u /\ IsMark(mark') /\ mark'.of = "body"
       /\ UNCHANGED <<req, found, code, socket, close_connection_, answers, handled>>
  <2>1. /\ SameHead(Delivered, u) /\ u.body = Delivered.body \o <<ch>>
        /\ Marks("body") /\ UNCHANGED connection =>
                /\ Delivered' = u /\ IsMark(mark') /\ mark'.of = "body"
                /\ UNCHANGED <<req, found, code, socket, close_connection_, answers, handled>>
    BY <1>1, <1>5, <1>10, BodyGrows, Zenon
  <2>2. UNCHANGED connection
    OBVIOUS
  <2> QED
    BY <1>6, <1>9, <2>1, <2>2, Zenon
<1>12. found' = found /\ code' = code /\ req' = req
  BY <1>11
<1>13. Taken(r)'
  BY <1>5, <1>11, <1>12, TakenOn, Zenon
<1>14. PICK st : st = IF m - k = 1 THEN "chunk_data_almost_done" ELSE "chunk_data"
  OBVIOUS
<1>15. IsParser(parser') /\ parser'.state = st /\ parser'.content_length = (m - k) - 1
  <2>1. IsParser(parser)
    BY DEF Conn
  <2>2. PICK n \in Int : n = (m - k) - 1
    BY <1>7
  <2>3. Moves(parser, [parser EXCEPT !.content_length = n, !.state = st], st, parser.header_state,
              parser.flags, n)
    BY <2>1, ParserMoves
  <2>4. parser' = [parser EXCEPT !.content_length = n, !.state = st]
    BY <1>1, <1>6, <1>14, <2>2
  <2>5. Moves(parser, parser', st, parser.header_state, parser.flags, n)
    BY <2>3, <2>4, Zenon
  <2> QED
    BY <2>2, <2>5 DEF Moves
<1>16. mark'.of \in {"none", "body"} /\ mark'.of # "none"
  BY <1>11
<1>17. InChunk(r, l)'
  <2>1. CASE m - k = 1
    <3>1. k + 1 = m /\ st = "chunk_data_almost_done"
      BY <1>7, <1>14, <2>1
    <3>2. Upto(r.body, Len(r.body)) = r.body /\ Drop(r.body, Len(r.body)) \o x = x
      BY <1>3, UptoAll, DropAll
    <3>3. Delivered'.body = r.body
      BY <1>4, <1>11, <3>1, <3>2, Zenon
    <3>4. Coming' = EmptyLine(LastChunk(l))
      BY <1>2, <1>4, <1>8, <3>1, <3>2, Zenon
    <3> QED
      BY <1>13, <1>15, <1>16, <3>1, <3>3, <3>4, Zenon DEF InChunk
  <2>2. CASE m - k # 1
    <3>1. st = "chunk_data"
      BY <1>14, <2>2
    <3>2. PICK i \in 0..(m - 1) : i = k + 1 /\ (m - k) - 1 = m - i
      BY <1>7, <2>2
    <3>3. \E i_1 \in 0..(Len(r.body) - 1) :
            /\ parser'.content_length = Len(r.body) - i_1
            /\ Delivered'.body = Upto(r.body, i_1)
            /\ Coming' = Drop(r.body, i_1) \o EmptyLine(LastChunk(l))
      BY <1>2, <1>4, <1>8, <1>11, <1>15, <3>2, Zenon
    <3> QED
      BY <1>13, <1>15, <1>16, <3>1, <3>3, Zenon DEF InChunk
  <2> QED
    BY <2>1, <2>2
<1>18. InRequest(r, l)'
  BY <1>17 DEF InRequest
<1>19. url_start_mark' \in Nat /\ url_start_mark' <= at'
  BY <1>1, MarkStays
<1>20. Conn'
  <2>1. IsReq(req')
    BY <1>12 DEF Conn
  <2> QED
    BY <1>1, <1>11, <1>15, <1>19, <2>1 DEF Conn
<1>21. Quiet
  BY <1>1, <1>11 DEF Quiet
<1> QED
  BY <1>18, <1>20, <1>21

\* The chunk's line ends.
LEMMA ChunkLineEnds ==
    ASSUME Conn, NEW r, IsRequest(r), NEW l \in Seq(Symbol), InChunk(r, l),
           Takes({"chunk_data_almost_done"}, {"CR"}), Goes("chunk_data_done"), Delivers,
           UNCHANGED <<url_start_mark, socket, close_connection_, answers, handled>>
    PROVE  Conn' /\ Quiet /\ InRequest(r, l)'
<1>1. /\ requests' = requests /\ stream' = stream /\ at' = at + 1
      /\ SentRequests' /\ stream' \in Seq(Symbol) /\ at' \in Nat
      /\ parser.state = "chunk_data_almost_done"
  BY Taking
<1>2. /\ mark.of \in {"none", "body"} /\ Taken(r) /\ Delivered.body = r.body
      /\ Coming = EmptyLine(LastChunk(l))
  BY <1>1, Zenon DEF InChunk
<1>3. Coming' = <<"LF">> \o LastChunk(l)
  <2>1. Begins(EmptyLine(LastChunk(l)), "CR", <<"LF">> \o LastChunk(l))
    BY LastComes, EmptyComes, Zenon
  <2> QED
    BY <1>1, <1>2, <2>1, NextCome, Zenon DEF Conn
<1>4. /\ IsReq(req') /\ IsMark(mark') /\ mark' = NoMark /\ req' = Delivered
      /\ Delivered' = req' /\ found' = found /\ code' = code
  <2>1. mark.of # "url"
    BY <1>2
  <2> QED
    BY <2>1, HandedOver
<1>5. Taken(r)'
  <2>1. Delivered' = Delivered
    BY <1>4
  <2> QED
    BY <1>2, <1>4, <2>1, TakenStays
<1>6. IsParser(parser') /\ parser'.state = "chunk_data_done"
  <2>1. StateOnly("chunk_data_done")
    BY ParserGoes
  <2> QED
    BY <2>1 DEF StateOnly
<1>7. req'.body = r.body
  BY <1>2, <1>4
<1>8. AtChunk(r, l)'
  BY <1>3, <1>4, <1>5, <1>6, <1>7, Zenon DEF AtChunk
<1>9. InRequest(r, l)'
  BY <1>8 DEF InRequest
<1>10. url_start_mark' \in Nat /\ url_start_mark' <= at'
  BY <1>1, MarkStays
<1>11. Conn'
  BY <1>1, <1>4, <1>6, <1>10 DEF Conn
<1>12. Quiet
  BY <1>1, QuietConnection
<1> QED
  BY <1>9, <1>11, <1>12

\* And the last chunk comes.
LEMMA ChunkIsOver ==
    ASSUME Conn, NEW r, IsRequest(r), NEW l \in Seq(Symbol), AtChunk(r, l),
           Takes({"chunk_data_done"}, {"LF"}), Goes("chunk_size_start"), Still
    PROVE  Conn' /\ Quiet /\ InRequest(r, l)'
<1>1. stream' = stream /\ at' = at + 1 /\ parser.state = "chunk_data_done"
  BY Taking
<1>2. mark = NoMark /\ Taken(r) /\ req.body = r.body /\ Coming = <<"LF">> \o LastChunk(l)
  BY <1>1, Zenon DEF AtChunk
<1>3. Coming' = LastChunk(l)
  <2>1. Begins(<<"LF">> \o LastChunk(l), "LF", LastChunk(l))
    BY LastComes, EmptyComes, Zenon
  <2> QED
    BY <1>1, <1>2, <2>1, NextCome, Zenon DEF Conn
<1>4. IsParser(parser') /\ parser'.state = "chunk_size_start"
  <2>1. StateOnly("chunk_size_start")
    BY ParserGoes
  <2> QED
    BY <2>1 DEF StateOnly
<1>5. Conn' /\ Quiet /\ Taken(r)' /\ mark' = NoMark /\ req' = req
  BY <1>2, <1>4, TakesOn, Zenon
<1>6. AtLast(r, l)'
  BY <1>2, <1>3, <1>4, <1>5, Zenon DEF AtLast
<1>7. InRequest(r, l)'
  BY <1>6 DEF InRequest
<1> QED
  BY <1>5, <1>7

\* A chunk and its line.
LEMMA ChunkIsData ==
    ASSUME Conn, NEW r, IsRequest(r), NEW l \in Seq(Symbol), InRequest(r, l), ChunkData
    PROVE  Conn' /\ Quiet /\ InRequest(r, l)'
<1>1. CASE /\ Takes({"chunk_data"}, Range(stream))
           /\ parser' = [parser EXCEPT !.content_length = @ - 1,
                !.state = IF parser.content_length = 1 THEN "chunk_data_almost_done" ELSE @]
           /\ Marks("body") /\ UNCHANGED <<url_start_mark, connection>>
  <2>1. parser.state = "chunk_data"
    BY <1>1, Taking
  <2>2. InChunk(r, l)
    BY <2>1, StatesOf DEF InRequest
  <2>3. url_start_mark' = url_start_mark /\ UNCHANGED connection
    BY <1>1
  <2> QED
    BY <1>1, <2>2, <2>3, ChunkIsTaken
<1>2. CASE /\ Takes({"chunk_data_almost_done"}, {"CR"})
           /\ Goes("chunk_data_done") /\ Delivers
           /\ UNCHANGED <<url_start_mark, socket, close_connection_, answers, handled>>
  <2>1. parser.state = "chunk_data_almost_done"
    BY <1>2, Taking
  <2>2. InChunk(r, l)
    BY <2>1, StatesOf DEF InRequest
  <2> QED
    BY <1>2, <2>2, ChunkLineEnds
<1>3. CASE Takes({"chunk_data_done"}, {"LF"}) /\ Goes("chunk_size_start") /\ Still
  <2>1. parser.state = "chunk_data_done"
    BY <1>3, Taking
  <2>2. AtChunk(r, l)
    BY <2>1, StatesOf DEF InRequest
  <2> QED
    BY <1>3, <2>2, ChunkIsOver
<1> QED
  BY <1>1, <1>2, <1>3 DEF ChunkData

\* The empty line behind the last chunk completes the request.
LEMMA TrailersEnd ==
    ASSUME Conn, NEW n, NEW r, Ready(n, r), IsRequest(r), NEW l \in Seq(Symbol), l = Later(n + 1),
           InRequest(r, l), TrailerEnds
    PROVE  Conn' /\ Written' /\ ParseInv'
<1>1. /\ Takes({"headers_almost_done"}, {"LF"}) /\ "trailing" \in parser.flags
      /\ Handle(parser, req, code)
  BY DEF TrailerEnds
<1>2. /\ requests' = requests /\ stream' = stream /\ at' = at + 1
      /\ SentRequests' /\ stream' \in Seq(Symbol) /\ at' \in Nat
      /\ parser.state = "headers_almost_done"
  BY <1>1, Taking
<1>3. AtLast(r, l)
  <2>1. AtLast(r, l) \/ AtHeadersEnd(r, l)
    BY <1>2, StatesOf DEF InRequest
  <2>2. ~AtHeadersEnd(r, l)
    BY <1>1, Zenon DEF AtHeadersEnd, FlagsInv
  <2> QED
    BY <2>1, <2>2
<1>4. mark = NoMark /\ Taken(r) /\ req.body = r.body /\ Coming = <<"LF">> \o l
  BY <1>2, <1>3, Zenon DEF AtLast
<1>5. Coming' = l
  <2>1. Begins(<<"LF">> \o l, "LF", l)
    BY EmptyComes
  <2> QED
    BY <1>2, <1>4, <2>1, NextCome, Zenon DEF Conn
<1>6. IsReq(req) /\ IsParser(parser)
  BY DEF Conn
<1>7. SameHead(Delivered, req)
  <2>1. Delivered = req
    BY <1>4, NothingMarked
  <2> QED
    BY <1>6, <2>1 DEF SameHead
<1>8. Whole(req, r) /\ Judged(r, code)
  BY <1>4, <1>7, TakenWhole, Zenon
<1>9. /\ Written /\ AnswersInOrder /\ RequestsArriveWhole /\ n \in Nat /\ n < Len(requests)
      /\ n = Len(handled) /\ n = Len(answers) /\ socket = "open" /\ r = requests[n + 1]
  BY Zenon DEF Ready
<1>10. Coming' = Later(n + 1)
  BY <1>5, Zenon
<1> QED
  BY <1>1, <1>2, <1>6, <1>8, <1>9, <1>10, Completes, Zenon

\* The state a symbol is taken in.
LEMMA StateIs == ASSUME NEW S, NEW C, Takes(S, C) PROVE parser.state \in S
BY DEF Takes

\* The request line goes on.
LEMMA LineGoesOn ==
    ASSUME Conn, NEW r, IsRequest(r), NEW l \in Seq(Symbol), InRequest(r, l),
           StartRequest \/ Url \/ UrlEnds \/ Version \/ LineEnds
    PROVE  Conn' /\ Quiet /\ InRequest(r, l)'
<1>1. CASE StartRequest
  <2>1. \E C : Takes({"start_req"}, C) \/ Takes({"req_method"}, C)
    BY <1>1, Zenon DEF StartRequest
  <2>2. parser.state \in {"start_req"} \/ parser.state \in {"req_method"}
    BY <2>1, StateIs, Zenon
  <2>3. AtMethod(r, l)
    BY <2>2, StatesOf DEF InRequest
  <2> QED
    BY <1>1, <2>3, MethodEnds, Zenon
<1>2. CASE Url
  <2>1. \E C : Takes({"spaces_before_url"}, C) \/ Takes({"path", "query"}, C) \/ Takes({"path"}, C)
    BY <1>2, Zenon DEF Url
  <2>2. \/ parser.state \in {"spaces_before_url"} \/ parser.state \in {"path", "query"}
        \/ parser.state \in {"path"}
    BY <2>1, StateIs, Zenon
  <2>3. BeforeUrl(r, l) \/ InUrl(r, l)
    BY <2>2, StatesOf DEF InRequest
  <2> QED
    BY <1>2, <2>3, UrlBegins, UrlGoesOn, Zenon
<1>3. CASE UrlEnds
  <2>1. \E C : Takes({"path", "query"}, C)
    BY <1>3, Zenon DEF UrlEnds
  <2>2. parser.state \in {"path", "query"}
    BY <2>1, StateIs, Zenon
  <2>3. InUrl(r, l)
    BY <2>2, StatesOf DEF InRequest
  <2> QED
    BY <1>3, <2>3, UrlIsKnown, Zenon
<1>4. CASE Version
  <2>1. \E C : Takes({"http_start"}, C)
    BY <1>4, Zenon DEF Version
  <2>2. parser.state \in {"http_start"}
    BY <2>1, StateIs, Zenon
  <2>3. InVersion(r, l)
    BY <2>2, StatesOf DEF InRequest
  <2> QED
    BY <1>4, <2>3, VersionTaken, Zenon
<1>5. CASE LineEnds
  <2>1. \E C : Takes({"http_end"}, C) \/ Takes({"http_end", "line_almost_done"}, C)
    BY <1>5, Zenon DEF LineEnds
  <2>2. parser.state \in {"http_end"} \/ parser.state \in {"http_end", "line_almost_done"}
    BY <2>1, StateIs, Zenon
  <2>3. InVersion(r, l)
    BY <2>2, StatesOf DEF InRequest
  <2> QED
    BY <1>5, <2>3, LineIsOver, Zenon
<1> QED
  BY <1>1, <1>2, <1>3, <1>4, <1>5, Zenon

\* A line of the headers starts.
LEMMA FieldIsStarted ==
    ASSUME Conn, NEW r, IsRequest(r), NEW l \in Seq(Symbol), InRequest(r, l), FieldStart
    PROVE  Conn' /\ Quiet /\ InRequest(r, l)'
<1>1. Takes(LineStart, DOMAIN Name)
  BY DEF FieldStart
<1>2. parser.state \in LineStart /\ ch \in DOMAIN Name
  BY <1>1, Taking
<1>3. "CR" \notin DOMAIN Name
  BY Zenon DEF Name
<1>4. ~Space
  BY <1>2, Zenon DEF Space, Name
<1>5. ~(AtLast(r, l) /\ parser.state = "header_field_start")
  BY <1>2, <1>3, LastLine, Zenon
<1>6. PICK j \in 1..(Len(r.fields) + 1) : AtLine(r, j, l)
  BY <1>2, <1>4, <1>5, LineReached, Zenon
<1> QED
  BY <1>6, FieldStarts, Zenon

\* The line of a header ends, or the empty one begins.
LEMMA HeaderIsDone ==
    ASSUME Conn, NEW r, IsRequest(r), NEW l \in Seq(Symbol), InRequest(r, l), HeaderAlmostDone
    PROVE  Conn' /\ Quiet /\ InRequest(r, l)'
<1>1. CASE Takes({"header_almost_done"}, {"LF"}) /\ Goes("header_value_lws") /\ Still
  <2>1. parser.state = "header_almost_done"
    BY <1>1, Taking
  <2>2. InValue(r, l)
    BY <2>1, StatesOf DEF InRequest
  <2> QED
    BY <1>1, <2>2, ValueLineEnds
<1>2. CASE /\ Takes(LineStart, {"CR"})
           /\ parser' = [CompletedLine EXCEPT !.state = "headers_almost_done"]
           /\ req' = CompletedField
           /\ UNCHANGED <<mark, url_start_mark, found, code, socket, close_connection_, answers,
                          handled>>
  <2>1. parser.state \in LineStart /\ ch = "CR"
    BY <1>2, Taking
  <2>2. ~Space
    BY <2>1, Zenon DEF Space
  <2>3. CASE \E j \in 1..(Len(r.fields) + 1) : AtLine(r, j, l)
    <3>1. PICK j \in 1..(Len(r.fields) + 1) : AtLine(r, j, l)
      BY <2>3
    <3> QED
      BY <1>2, <3>1, HeadersNearEnd
  <2>4. CASE AtLast(r, l) /\ parser.state = "header_field_start"
    BY <1>2, <2>4, ChunksNearEnd
  <2> QED
    BY <2>1, <2>2, <2>3, <2>4, LineReached, Zenon
<1> QED
  BY <1>1, <1>2, Zenon DEF HeaderAlmostDone

\* The headers go on.
LEMMA HeadersAreRead ==
    ASSUME Conn, NEW r, IsRequest(r), NEW l \in Seq(Symbol), InRequest(r, l),
           \/ FieldStart \/ Field \/ FieldEnds \/ DiscardSpace \/ ValueStart \/ ValueGoesOn
           \/ ValueEnds \/ HeaderAlmostDone \/ Folded
    PROVE  Conn' /\ Quiet /\ InRequest(r, l)'
<1>1. CASE FieldStart
  BY <1>1, FieldIsStarted, Zenon
<1>2. CASE Field \/ FieldEnds
  <2>1. \E C : Takes({"header_field"}, C)
    BY <1>2, Zenon DEF Field, FieldEnds
  <2>2. parser.state \in {"header_field"}
    BY <2>1, StateIs, Zenon
  <2>3. InName(r, l)
    BY <2>2, StatesOf DEF InRequest
  <2> QED
    BY <1>2, <2>3, NameGoesOn, NameEnds, Zenon
<1>3. CASE DiscardSpace
  <2>1. \E C : \/ Takes({"header_value_discard_ws"}, C)
               \/ Takes({"header_value_discard_ws", "discard_ws_almost_done"}, C)
    BY <1>3, Zenon DEF DiscardSpace
  <2>2. \/ parser.state \in {"header_value_discard_ws"}
        \/ parser.state \in {"header_value_discard_ws", "discard_ws_almost_done"}
    BY <2>1, StateIs, Zenon
  <2>3. AtSpace(r, l)
    BY <2>2, StatesOf DEF InRequest
  <2> QED
    BY <1>3, <2>3, DiscardsSpace, Zenon
<1>4. CASE ValueStart
  <2>1. \E C : Takes({"header_value_discard_ws"}, C)
    BY <1>4, Zenon DEF ValueStart
  <2>2. parser.state \in {"header_value_discard_ws"}
    BY <2>1, StateIs, Zenon
  <2>3. AtSpace(r, l)
    BY <2>2, StatesOf DEF InRequest
  <2> QED
    BY <1>4, <2>3, ValueStarts, Zenon
<1>5. CASE ValueGoesOn \/ ValueEnds
  <2>1. \E C : Takes({"header_value"}, C)
    BY <1>5, Zenon DEF ValueGoesOn, ValueEnds
  <2>2. parser.state \in {"header_value"}
    BY <2>1, StateIs, Zenon
  <2>3. InValue(r, l)
    BY <2>2, StatesOf DEF InRequest
  <2> QED
    BY <1>5, <2>3, ValueIsMore, ValueIsOver, Zenon
<1>6. CASE HeaderAlmostDone
  BY <1>6, HeaderIsDone, Zenon
<1>7. CASE Folded
  <2>1. \E C : Takes({"header_value_lws"}, C)
    BY <1>7, FoldedTakes, Zenon
  <2>2. parser.state \in {"header_value_lws"}
    BY <2>1, StateIs, Zenon
  <2>3. InValue(r, l)
    BY <2>2, StatesOf DEF InRequest
  <2> QED
    BY <1>7, <2>3, ValueIsFolded, Zenon
<1> QED
  BY <1>1, <1>2, <1>3, <1>4, <1>5, <1>6, <1>7, Zenon

\* Whatever is taken of a request, the invariant holds behind it.
LEMMA RequestGoesOn ==
    ASSUME Conn, NEW n, NEW r, Ready(n, r), IsRequest(r), NEW l \in Seq(Symbol), l = Later(n + 1),
           InRequest(r, l), Execute
    PROVE  Conn' /\ Written' /\ ParseInv'
<1>1. CASE \/ StartRequest \/ Url \/ UrlEnds \/ Version \/ LineEnds
           \/ FieldStart \/ Field \/ FieldEnds \/ DiscardSpace \/ ValueStart \/ ValueGoesOn
           \/ ValueEnds \/ HeaderAlmostDone \/ Folded \/ ChunkSize \/ ChunkData
  <2>1. Conn' /\ Quiet /\ InRequest(r, l)'
    BY <1>1, LineGoesOn, HeadersAreRead, ChunkIsSized, ChunkIsData, Zenon
  <2> QED
    BY <2>1, InStays, Zenon
<1>2. CASE HeadersDone
  BY <1>2, HeadersAreDone, Zenon
<1>3. CASE LengthTwice
  BY <1>3, LengthIsTwice, Zenon
<1>4. CASE BodyByte
  <2>1. \E C : Takes({"body_identity"}, C)
    BY <1>4, Zenon DEF BodyByte
  <2>2. parser.state \in {"body_identity"}
    BY <2>1, StateIs, Zenon
  <2>3. InBody(r, l)
    BY <2>2, StatesOf DEF InRequest
  <2> QED
    BY <1>4, <2>3, BodyIsTaken, Zenon
<1>5. CASE TrailerEnds
  BY <1>5, TrailersEnd, Zenon
<1> QED
  BY <1>1, <1>2, <1>3, <1>4, <1>5, Zenon DEF Execute

\* An action that does not start a request is none where one is expected.
LEMMA OnlyStarts ==
    ASSUME Execute
    PROVE  /\ socket = "open"
           /\ parser.state = "start_req" => StartRequest
<1>0. ASSUME NEW S, NEW C, Takes(S, C) PROVE socket = "open" /\ parser.state \in S
  BY <1>0 DEF Takes
<1>1. CASE Url \/ UrlEnds \/ Version
  <2>1. \E C : \/ Takes({"spaces_before_url"}, C)
               \/ Takes({"path", "query"}, C)
               \/ Takes({"path"}, C)
               \/ Takes({"http_start"}, C)
    BY <1>1, Zenon DEF Url, UrlEnds, Version
  <2>2. socket = "open" /\ (\/ parser.state \in {"spaces_before_url"}
                           \/ parser.state \in {"path", "query"}
                           \/ parser.state \in {"path"}
                           \/ parser.state \in {"http_start"})
    BY <1>0, <2>1, Zenon
  <2> QED
    BY <2>2
<1>2. CASE LineEnds \/ Field \/ FieldEnds
  <2>1. \E C : \/ Takes({"http_end"}, C)
               \/ Takes({"http_end", "line_almost_done"}, C)
               \/ Takes({"header_field"}, C)
    BY <1>2, Zenon DEF LineEnds, Field, FieldEnds
  <2>2. socket = "open" /\ (\/ parser.state \in {"http_end"}
                           \/ parser.state \in {"http_end", "line_almost_done"}
                           \/ parser.state \in {"header_field"})
    BY <1>0, <2>1, Zenon
  <2> QED
    BY <2>2
<1>3. CASE FieldStart \/ HeaderAlmostDone \/ HeadersDone
  <2>1. \E C : \/ Takes(LineStart, C)
               \/ Takes({"header_almost_done"}, C)
               \/ Takes({"headers_almost_done"}, C)
    BY <1>3, Zenon DEF FieldStart, HeaderAlmostDone, HeadersDone
  <2>2. socket = "open" /\ (\/ parser.state \in LineStart
                           \/ parser.state \in {"header_almost_done"}
                           \/ parser.state \in {"headers_almost_done"})
    BY <1>0, <2>1, Zenon
  <2> QED
    BY <2>2 DEF LineStart
<1>4. CASE DiscardSpace \/ ValueStart \/ LengthTwice
  <2>1. \E C : \/ Takes({"header_value_discard_ws"}, C)
               \/ Takes({"header_value_discard_ws", "discard_ws_almost_done"}, C)
    BY <1>4, Zenon DEF DiscardSpace, ValueStart, LengthTwice
  <2>2. socket = "open" /\ (\/ parser.state \in {"header_value_discard_ws"}
                           \/ parser.state \in {"header_value_discard_ws", "discard_ws_almost_done"})
    BY <1>0, <2>1, Zenon
  <2> QED
    BY <2>2
<1>5. CASE ValueGoesOn \/ ValueEnds \/ BodyByte \/ TrailerEnds
  <2>1. \E C : \/ Takes({"header_value"}, C)
               \/ Takes({"body_identity"}, C)
               \/ Takes({"headers_almost_done"}, C)
    BY <1>5, Zenon DEF ValueGoesOn, ValueEnds, BodyByte, TrailerEnds
  <2>2. socket = "open" /\ (\/ parser.state \in {"header_value"}
                           \/ parser.state \in {"body_identity"}
                           \/ parser.state \in {"headers_almost_done"})
    BY <1>0, <2>1, Zenon
  <2> QED
    BY <2>2
<1>6. CASE ChunkSize
  <2>1. \E C : \/ Takes({"chunk_size_start"}, C)
               \/ Takes({"chunk_size"}, C)
               \/ Takes({"chunk_size_almost_done"}, C)
    BY <1>6, Zenon DEF ChunkSize
  <2>2. socket = "open" /\ (\/ parser.state \in {"chunk_size_start"}
                           \/ parser.state \in {"chunk_size"}
                           \/ parser.state \in {"chunk_size_almost_done"})
    BY <1>0, <2>1, Zenon
  <2> QED
    BY <2>2
<1>7. CASE ChunkData
  <2>1. \E C : \/ Takes({"chunk_data"}, C)
               \/ Takes({"chunk_data_almost_done"}, C)
               \/ Takes({"chunk_data_done"}, C)
    BY <1>7, Zenon DEF ChunkData
  <2>2. socket = "open" /\ (\/ parser.state \in {"chunk_data"}
                           \/ parser.state \in {"chunk_data_almost_done"}
                           \/ parser.state \in {"chunk_data_done"})
    BY <1>0, <2>1, Zenon
  <2> QED
    BY <2>2
<1>8. CASE Folded
  <2>1. \E C : Takes({"header_value_lws"}, C)
    BY <1>8, FoldedTakes, Zenon
  <2>2. socket = "open" /\ parser.state \in {"header_value_lws"}
    BY <1>0, <2>1, Zenon
  <2> QED
    BY <2>2
<1>9. CASE StartRequest
  <2>1. \E C : Takes({"start_req"}, C) \/ Takes({"req_method"}, C)
    BY <1>9, Zenon DEF StartRequest
  <2>2. socket = "open"
    BY <1>0, <2>1, Zenon
  <2> QED
    BY <1>9, <2>2
<1> QED
  BY <1>1, <1>2, <1>3, <1>4, <1>5, <1>6, <1>7, <1>8, <1>9, Zenon DEF Execute

\* A request starts, where one is expected.
LEMMA IdleGoesOn ==
    ASSUME Conn, Written, ParseInv, NEW n \in Nat, n = Len(handled), n <= Len(requests),
           n = Len(answers), socket = "open", Idle(n), Execute
    PROVE  Conn' /\ Written' /\ ParseInv'
<1>1. StartRequest
  BY OnlyStarts, Zenon DEF Idle
<1>2. Conn' /\ Quiet /\ (Idle(n)' \/ InNext(n)')
  BY <1>1, StartsRequest, Zenon
<1>3. UNCHANGED <<requests, socket, answers, handled>>
  BY <1>2 DEF Quiet
<1>4. AnswersInOrder' /\ RequestsArriveWhole' /\ Written'
  <2>1. AnswersInOrder /\ RequestsArriveWhole
    BY Zenon DEF ParseInv
  <2> QED
    BY <1>3, <2>1, Zenon DEF Written, AnswersInOrder, RequestsArriveWhole
<1>5. n = Len(handled') /\ n = Len(answers') /\ Len(answers') <= n /\ socket' # "returned"
  <2>1. n <= n
    OBVIOUS
  <2> QED
    BY <1>3, <2>1, Zenon
<1>6. ParseInv'
  BY <1>2, <1>4, <1>5, InvNext, Zenon
<1> QED
  BY <1>2, <1>4, <1>6

\* A route that is known stays so.
LEMMA RoutedStays ==
    ASSUME NEW r, Routed(r), Delivered' = Delivered, found' = found, code' = code
    PROVE  Routed(r)'
BY Zenon DEF Routed, Judged

\* Where the parser is does not change with nothing else.
LEMMA UnmarkedStays ==
    ASSUME UNCHANGED <<requests, parser, mark, req, found, code>>, Coming' = Coming,
           Delivered' = Delivered, NEW r, NEW l, InRequest(r, l), ~InUrl(r, l)
    PROVE  InRequest(r, l)'
<1>0. /\ requests' = requests /\ parser' = parser /\ mark' = mark /\ req' = req
      /\ found' = found /\ code' = code
  OBVIOUS
<1>1. Bare(r) => Bare(r)'
  BY <1>0, Zenon DEF Bare
<1>2. Routed(r) => Routed(r)'
  BY <1>0, RoutedStays, Zenon
<1>3. InHeaders(r) => InHeaders(r)'
  BY <1>0, <1>2, Zenon DEF InHeaders
<1>4. Taken(r) => Taken(r)'
  BY <1>0, TakenStays, Zenon
<1>5. AtMethod(r, l) => AtMethod(r, l)'
  BY <1>0, <1>1, Zenon DEF AtMethod
<1>6. BeforeUrl(r, l) => BeforeUrl(r, l)'
  BY <1>0, <1>1, Zenon DEF BeforeUrl
<1>7. InVersion(r, l) => InVersion(r, l)'
  BY <1>0, <1>1, <1>2, Zenon DEF InVersion
<1>8. BeforeFields(r, l) => BeforeFields(r, l)'
  BY <1>0, <1>1, <1>3, Zenon DEF BeforeFields
<1>9. InName(r, l) => InName(r, l)'
  BY <1>0, <1>3, Zenon DEF InName
<1>10. AtSpace(r, l) => AtSpace(r, l)'
  BY <1>0, <1>3, Zenon DEF AtSpace
<1>11. InValue(r, l) => InValue(r, l)'
  BY <1>0, <1>3, Zenon DEF InValue
<1>12. AtHeadersEnd(r, l) => AtHeadersEnd(r, l)'
  BY <1>0, <1>3, Zenon DEF AtHeadersEnd
<1>13. InBody(r, l) => InBody(r, l)'
  BY <1>0, <1>4, Zenon DEF InBody
<1>14. AtChunk(r, l) => AtChunk(r, l)'
  BY <1>0, <1>4, Zenon DEF AtChunk
<1>15. InChunk(r, l) => InChunk(r, l)'
  BY <1>0, <1>4, Zenon DEF InChunk
<1>16. AtLast(r, l) => AtLast(r, l)'
  BY <1>0, <1>4, Zenon DEF AtLast
<1> QED
  BY <1>5, <1>6, <1>7, <1>8, <1>9, <1>10, <1>11, <1>12, <1>13, <1>14, <1>15, <1>16, Zenon
     DEF InRequest

\* The same request.
SameRequest(q, u) ==
    /\ SameHead(q, u) /\ u.body = q.body
    /\ u.field = q.field /\ u.value = q.value /\ u.building = q.building

\* A part that a new buffer continues has nothing to hand over yet.
LEMMA NothingMore ==
    ASSUME NEW q, IsReq(q), NEW m, IsMark(m), m.text = <<>>, NEW d, DeliveryIs(m, q, d),
           \/ m.of \in {"none", "url"}
           \/ m.of = "field" /\ q.building = 1
           \/ m.of = "value" /\ q.building = 0
    PROVE  SameRequest(q, d)
<1>1. /\ q.raw_url \o <<>> = q.raw_url /\ q.field \o <<>> = q.field /\ q.value \o <<>> = q.value
  <2>1. q.raw_url \in Seq(Symbol) /\ q.field \in Seq(Symbol) /\ q.value \in Seq(Symbol)
    BY DEF IsReq
  <2>2. \A s \in Seq(Symbol) : s \o <<>> = s
    OBVIOUS
  <2> QED
    BY <2>1, <2>2
<1>2. CASE m.of = "none"
  BY <1>2 DEF DeliveryIs, SameRequest, SameHead
<1>3. CASE m.of = "url"
  <2>1. /\ d.raw_url = q.raw_url /\ d.body = q.body
        /\ Building(d, q.headers, q.field, q.value, q.building)
    BY <1>1, <1>3, Zenon DEF DeliveryIs
  <2>2. IsReq(d) /\ d.method = q.method /\ d.version = q.version /\ d.upgrade = q.upgrade
    BY Zenon DEF DeliveryIs
  <2> QED
    BY <2>1, <2>2, Zenon DEF Building, SameRequest, SameHead
<1>4. CASE m.of = "field" /\ q.building = 1
  <2>1. PICK t \in Seq(Symbol) : t = m.text
    BY DEF IsMark
  <2>2. d = WithField(q, t) /\ SameLine(q, d)
    BY <1>4, <2>1, Zenon DEF DeliveryIs
  <2>3. Building(d, q.headers, q.field \o t, q.value, 1)
    BY <1>4, <2>2, FieldTaken, Zenon
  <2>4. Building(d, q.headers, q.field, q.value, q.building)
    BY <1>1, <1>4, <2>1, <2>3, Zenon
  <2> QED
    BY <2>2, <2>4, Zenon DEF Building, SameRequest, SameHead, SameLine
<1>5. CASE m.of = "value" /\ q.building = 0
  <2>1. PICK t \in Seq(Symbol) : t = m.text
    BY DEF IsMark
  <2>2. d = WithValue(q, t) /\ SameLine(q, d)
    BY <1>5, <2>1, Zenon DEF DeliveryIs
  <2>3. Building(d, q.headers, q.field, q.value \o t, 0)
    BY <1>5, <2>2, ValueTaken, Zenon
  <2>4. Building(d, q.headers, q.field, q.value, q.building)
    BY <1>1, <1>5, <2>1, <2>3, Zenon
  <2> QED
    BY <2>2, <2>4, Zenon DEF Building, SameRequest, SameHead, SameLine
<1> QED
  BY <1>2, <1>3, <1>4, <1>5

\* What is marked is handed over, and a new buffer begins.
HandsOver ==
    /\ UNCHANGED <<requests, stream, at, parser>> /\ Coming' = Coming /\ url_start_mark' = 0
    /\ mark.of # "url" => found' = found /\ code' = code
    /\ mark' = Remarked /\ req' = Delivered /\ IsReq(req') /\ IsMark(mark') /\ mark'.text = <<>>
    /\ DeliveryIs(mark', req', Delivered')

\* So it is at the end of a read.
LEMMA BufferEnds ==
    ASSUME Conn, EndOfRead PROVE Conn' /\ HandsOver
<1>1. /\ requests' = requests /\ stream' = stream /\ at' = at /\ parser' = parser
      /\ url_start_mark' = 0 /\ Deliver /\ mark' = Remarked
  BY DEF EndOfRead, sent
<1>2. Coming' = Coming
  BY <1>1 DEF Coming
<1>3. req' = Delivered /\ (mark.of # "url" => found' = found /\ code' = code)
  BY <1>1, Zenon DEF Deliver
<1>4. IsReq(req')
  <2>1. DeliveryIs(mark, req, Delivered)
    BY DeliveredIs DEF Conn
  <2> QED
    BY <1>3, <2>1 DEF DeliveryIs
<1>5. IsMark(mark') /\ mark'.text = <<>>
  <2>1. PICK part : Remarked = [of |-> part, text |-> <<>>]
    BY DEF Remarked, NoMark
  <2>2. <<>> \in Seq(Symbol)
    OBVIOUS
  <2> QED
    BY <1>1, <2>1, <2>2 DEF IsMark
<1>6. DeliveryIs(mark', req', Delivered')
  BY <1>4, <1>5, DeliveredNext
<1>7. Conn'
  <2>1. at \in Nat /\ 0 <= at
    BY DEF Conn
  <2> QED
    BY <1>1, <1>4, <1>5, <2>1 DEF Conn, SentRequests
<1> QED
  BY <1>1, <1>2, <1>3, <1>4, <1>5, <1>6, <1>7 DEF HandsOver

\* The parts that are not continued.
LEMMA Unmarked ==
    ASSUME HandsOver,
           parser.state \notin {"path", "query", "header_field", "header_value"}
    PROVE  mark' = NoMark /\ Delivered' = Delivered
<1>1. mark' = NoMark
  BY DEF HandsOver, Remarked
<1>2. Delivered' = req'
  BY <1>1, NoMarkIs DEF HandsOver, DeliveryIs
<1> QED
  BY <1>1, <1>2 DEF HandsOver

\* A read ends within the URL.
LEMMA UrlStays ==
    ASSUME Conn, HandsOver, NEW r, NEW l, InUrl(r, l)
    PROVE  InUrl(r, l)'
<1>1. parser.state \in {"path", "query"} /\ Bare(r) /\ mark.of = "url"
  BY Zenon DEF InUrl
<1>2. mark'.of = "url"
  BY <1>1 DEF HandsOver, Remarked
<1>3. SameRequest(req', Delivered')
  BY <1>2, NothingMore DEF HandsOver
<1>4. DeliveryIs(mark, req, Delivered)
  BY DeliveredIs DEF Conn
<1>5. /\ req'.method = req.method /\ req'.body = req.body
      /\ Building(req', req.headers, req.field, req.value, req.building)
  BY <1>1, <1>4, Zenon DEF HandsOver, DeliveryIs
<1>6. parser' = parser
  BY DEF HandsOver
<1>7. Bare(r)'
  BY <1>1, <1>5, <1>6, Zenon DEF Bare, Building
<1>8. Delivered'.raw_url = Delivered.raw_url
  BY <1>3, Zenon DEF HandsOver, SameRequest, SameHead
<1>9. url_start_mark' = 0 /\ Coming' = Coming
  BY DEF HandsOver
<1>10. PICK k \in 1..Len(r.url) :
         /\ Coming = FromUrl(r, k, l) /\ Delivered.raw_url = Upto(r.url, k)
         /\ parser.state = "path" => /\ parser.qs_point = 0
                                     /\ \A m \in 1..k : r.url[m] # "?"
         /\ parser.state = "query" => \E m \in 1..k :
              r.url[m] = "?" /\ (parser.qs_point = Unset \/ parser.qs_point >= m - 1)
  BY Zenon DEF InUrl
<1>11. \E k_1 \in 1..Len(r.url) :
         /\ Coming' = FromUrl(r, k_1, l) /\ Delivered'.raw_url = Upto(r.url, k_1)
         /\ url_start_mark' = 0 \/ url_start_mark' <= at' + 1 - k_1
         /\ parser'.state = "path" => /\ parser'.qs_point = 0
                                      /\ \A m \in 1..k_1 : r.url[m] # "?"
         /\ parser'.state = "query" => \E m \in 1..k_1 :
              r.url[m] = "?" /\ (parser'.qs_point = Unset \/ parser'.qs_point >= m - 1)
  BY <1>6, <1>8, <1>9, <1>10, Zenon
<1> QED
  BY <1>1, <1>2, <1>6, <1>7, <1>11, Zenon DEF InUrl

\* Within a name or a value the headers so far are the same.
LEMMA HeldStays ==
    ASSUME HandsOver, SameRequest(req', Delivered'), mark.of # "url", NEW r, InHeaders(r)
    PROVE  /\ InHeaders(r)' /\ Delivered'.headers = Delivered.headers
           /\ Delivered'.field = Delivered.field /\ Delivered'.value = Delivered.value
           /\ Delivered'.building = Delivered.building /\ req'.building = Delivered.building
<1>1. /\ parser' = parser /\ found' = found /\ code' = code /\ req' = Delivered
  BY DEF HandsOver
<1>2. /\ SameHanded /\ Delivered'.headers = Delivered.headers
      /\ Delivered'.field = Delivered.field /\ Delivered'.value = Delivered.value
      /\ Delivered'.building = Delivered.building
  BY <1>1, Zenon DEF SameRequest, SameHead, SameHanded
<1>3. InHeaders(r)'
  <2>1. parser'.version = parser.version
    BY <1>1
  <2> QED
    BY <1>1, <1>2, <2>1, HeadersGoOn, Zenon
<1> QED
  BY <1>1, <1>2, <1>3, Zenon

\* A read ends within a name.
LEMMA NameStays ==
    ASSUME Conn, HandsOver, NEW r, NEW l, InName(r, l)
    PROVE  InName(r, l)'
<1>1. parser.state = "header_field" /\ mark.of = "field" /\ Delivered.building = 1 /\ InHeaders(r)
  BY Zenon DEF InName
<1>2. mark'.of = "field" /\ req'.building = 1 /\ mark.of # "url"
  BY <1>1 DEF HandsOver, Remarked
<1>3. SameRequest(req', Delivered')
  BY <1>2, NothingMore DEF HandsOver
<1>4. /\ InHeaders(r)' /\ Delivered'.headers = Delivered.headers
      /\ Delivered'.field = Delivered.field /\ Delivered'.value = Delivered.value
      /\ Delivered'.building = 1
  BY <1>1, <1>2, <1>3, HeldStays, Zenon
<1>5. parser' = parser /\ Coming' = Coming
  BY DEF HandsOver
<1>6. req'.building # 0
  BY <1>2
<1> QED
  BY <1>1, <1>2, <1>4, <1>5, <1>6, Zenon DEF InName, Holds

\* A read ends within a value.
LEMMA ValueStays ==
    ASSUME Conn, HandsOver, NEW r, NEW l, InValue(r, l), parser.state = "header_value"
    PROVE  InRequest(r, l)'
<1>1. PICK j \in 1..Len(r.fields) : \E k \in 1..Len(ValueSaid(r, r.fields[j])) :
         ReadTo(r, j, k) /\ ValueStage(r, j, k, l)
  BY ValueParts, Zenon
<1>2. PICK k \in 1..Len(ValueSaid(r, r.fields[j])) : ReadTo(r, j, k) /\ ValueStage(r, j, k, l)
  BY <1>1
<1>3. mark.of = "value" /\ Coming = FromValue(r, j, k, l)
  BY <1>2, Zenon DEF ValueStage
<1>4. InHeaders(r) /\ Delivered.building = 0
  BY <1>2, Zenon DEF ReadTo
<1>5. mark'.of = "value" /\ req'.building = 0 /\ mark.of # "url"
  BY <1>3, <1>4 DEF HandsOver, Remarked
<1>6. SameRequest(req', Delivered')
  BY <1>5, NothingMore DEF HandsOver
<1>7. /\ InHeaders(r)' /\ Delivered'.headers = Delivered.headers
      /\ Delivered'.field = Delivered.field /\ Delivered'.value = Delivered.value
      /\ Delivered'.building = 0
  BY <1>4, <1>5, <1>6, HeldStays, Zenon
<1>8. parser' = parser /\ Coming' = Coming
  BY DEF HandsOver
<1>9. req'.building # 1
  BY <1>5
<1>10. ReadTo(r, j, k)'
  BY <1>2, <1>7, <1>8, Zenon DEF ReadTo, Holds
<1>11. ValueStage(r, j, k, l)'
  BY <1>3, <1>5, <1>8, <1>9, Zenon DEF ValueStage
<1> QED
  BY <1>2, <1>10, <1>11, ValuePartsNext, Zenon

\* A read ends within a body.
LEMMA BodyStays ==
    ASSUME HandsOver, NEW r, NEW l, InBody(r, l) \/ InChunk(r, l)
    PROVE  InRequest(r, l)'
<1>1. parser.state \in {"body_identity", "chunk_data", "chunk_data_almost_done"}
  BY StatesOf
<1>2. mark' = NoMark /\ Delivered' = Delivered
  BY <1>1, Unmarked
<1>3. mark.of \in {"none", "body"} /\ Taken(r)
  BY Zenon DEF InBody, InChunk
<1>4. found' = found /\ code' = code /\ parser' = parser /\ Coming' = Coming
  BY <1>3 DEF HandsOver
<1>5. Taken(r)'
  BY <1>2, <1>3, <1>4, TakenStays, Zenon
<1>6. mark'.of \in {"none", "body"} /\ mark'.text = <<>>
  BY <1>2, NoMarkIs
<1>7. InBody(r, l) => InBody(r, l)'
  BY <1>2, <1>4, <1>5, <1>6, Zenon DEF InBody
<1>8. InChunk(r, l) => InChunk(r, l)'
  BY <1>2, <1>4, <1>5, <1>6, Zenon DEF InChunk
<1> QED
  BY <1>7, <1>8 DEF InRequest

\* A read ends where nothing is marked.
LEMMA ElsewhereStays ==
    ASSUME Conn, HandsOver, NEW r, NEW l, InRequest(r, l), ~InUrl(r, l), ~InName(r, l),
           ~InBody(r, l), ~InChunk(r, l), parser.state # "header_value"
    PROVE  InRequest(r, l)'
<1>1. mark = NoMark
  <2>1. InValue(r, l) => mark = NoMark
    BY Zenon DEF InValue
  <2>2. AtMethod(r, l) \/ BeforeUrl(r, l) \/ InVersion(r, l) \/ BeforeFields(r, l) => mark = NoMark
    BY Zenon DEF AtMethod, BeforeUrl, InVersion, BeforeFields
  <2>3. AtSpace(r, l) \/ AtHeadersEnd(r, l) \/ AtChunk(r, l) \/ AtLast(r, l) => mark = NoMark
    BY Zenon DEF AtSpace, AtHeadersEnd, AtChunk, AtLast
  <2> QED
    BY <2>1, <2>2, <2>3, Zenon DEF InRequest
<1>2. parser.state \notin {"path", "query", "header_field", "header_value"}
  BY StatesOf DEF InRequest
<1>3. mark' = NoMark /\ Delivered' = Delivered
  BY <1>2, Unmarked
<1>4. Delivered = req
  BY <1>1, NothingMarked
<1>5. UNCHANGED <<requests, parser, mark, req, found, code>> /\ Coming' = Coming
  BY <1>1, <1>3, <1>4, NoMarkIs DEF HandsOver
<1> QED
  BY <1>1, <1>3, <1>5, UnmarkedStays, Zenon

\* Wherever a read ends within a request, it is the same request.
LEMMA RequestStays ==
    ASSUME Conn, HandsOver, NEW r, NEW l, InRequest(r, l)
    PROVE  InRequest(r, l)'
<1>1. CASE InUrl(r, l)
  BY <1>1, UrlStays, Zenon DEF InRequest
<1>2. CASE InName(r, l)
  BY <1>2, NameStays, Zenon DEF InRequest
<1>3. CASE InBody(r, l) \/ InChunk(r, l)
  BY <1>3, BodyStays, Zenon
<1>4. CASE parser.state = "header_value"
  <2>1. InValue(r, l)
    BY <1>4, StatesOf DEF InRequest
  <2> QED
    BY <1>4, <2>1, ValueStays
<1> QED
  BY <1>1, <1>2, <1>3, <1>4, ElsewhereStays, Zenon

\* How many requests are handled.
LEMMA Handled ==
    ASSUME Conn, Written, ParseInv
    PROVE  \E n \in Nat : n = Len(handled) /\ n <= Len(requests)
<1>1. PICK S : handled \in Seq(S)
  BY DEF Written
<1>2. PICK n \in Nat : n = Len(handled)
  BY <1>1
<1>3. Len(handled) <= Len(requests)
  BY Zenon DEF ParseInv, RequestsArriveWhole
<1> QED
  BY <1>2, <1>3, Zenon

\* The request that is being taken.
LEMMA BeingTaken ==
    ASSUME Conn, NEW n \in Nat, InNext(n)
    PROVE  \E r, l : /\ r = requests[n + 1] /\ l = Later(n + 1) /\ n < Len(requests)
                     /\ IsRequest(r) /\ l \in Seq(Symbol) /\ InRequest(r, l)
<1>1. /\ n < Len(requests)
      /\ \E r, l : r = requests[n + 1] /\ l = Later(n + 1) /\ InRequest(r, l)
  BY Zenon DEF InNext
<1>2. requests \in Seq(Request) /\ SentRequests
  BY DEF Conn, SentRequests
<1>3. PICK len \in Nat : len = Len(requests)
  BY <1>2
<1>4. n < len
  BY <1>1, <1>3, Zenon
<1>5. n \in 0..(len - 1) /\ n + 1 \in 0..len
  BY <1>4
<1>6. IsRequest(requests[n + 1]) /\ Later(n + 1) \in Seq(Symbol)
  BY <1>2, <1>3, <1>5, LaterTyped, Zenon
<1> QED
  BY <1>1, <1>6, Zenon

\* A symbol is taken.
LEMMA ExecuteKeeps ==
    ASSUME Conn, Written, ParseInv, Execute
    PROVE  Conn' /\ Written' /\ ParseInv'
<1>1. socket = "open"
  BY OnlyStarts
<1>2. PICK n \in Nat : n = Len(handled) /\ n <= Len(requests)
  BY Handled
<1>3. /\ AnswersInOrder /\ RequestsArriveWhole /\ n = Len(answers)
      /\ Idle(n) \/ InNext(n)
  BY <1>1, <1>2, Zenon DEF ParseInv
<1>4. CASE Idle(n)
  BY <1>1, <1>2, <1>3, <1>4, IdleGoesOn, Zenon
<1>5. CASE InNext(n)
  <2>1. PICK r, l : /\ r = requests[n + 1] /\ l = Later(n + 1) /\ n < Len(requests)
                    /\ IsRequest(r) /\ l \in Seq(Symbol) /\ InRequest(r, l)
    BY <1>5, BeingTaken, Zenon
  <2>2. Ready(n, r)
    BY <1>1, <1>2, <1>3, <2>1, Zenon DEF Ready
  <2> QED
    BY <2>1, <2>2, RequestGoesOn, Zenon
<1> QED
  BY <1>3, <1>4, <1>5

\* A read ends, where a request is expected or within one.
LEMMA ReadEnds ==
    ASSUME Conn, Written, ParseInv, EndOfRead
    PROVE  Conn' /\ Written' /\ ParseInv'
<1>1. Conn' /\ HandsOver
  BY BufferEnds
<1>2. /\ close_connection_' = close_connection_ /\ answers' = answers /\ handled' = handled
      /\ requests' = requests
      /\ socket \in {"open", "returned"}
      /\ socket' \in IF close_connection_ THEN {"closed"}
                     ELSE IF socket = "returned" /\ at < Len(stream) THEN {"open", "closed"}
                     ELSE {"open"}
  BY DEF EndOfRead, sent
<1>3. PICK n \in Nat : n = Len(handled) /\ n <= Len(requests)
  BY Handled
<1>4. AnswersInOrder' /\ RequestsArriveWhole' /\ Written'
  <2>1. AnswersInOrder /\ RequestsArriveWhole
    BY Zenon DEF ParseInv
  <2> QED
    BY <1>2, <2>1, Zenon DEF Written, AnswersInOrder, RequestsArriveWhole
<1>5. n = Len(handled') /\ Len(answers') <= n
  BY <1>2, <1>3, Zenon DEF ParseInv
<1>6. Idle(n) => Idle(n)'
  <2>1. SUFFICES ASSUME Idle(n) PROVE Idle(n)'
    OBVIOUS
  <2>2. parser.state = "start_req" /\ parser.qs_point = 0 /\ mark = NoMark /\ req = Fresh
    BY <2>1, Zenon DEF Idle
  <2>3. mark' = NoMark
    BY <1>1, <2>2, Unmarked
  <2>4. req' = Fresh
    <3>1. Delivered = req
      BY <2>2, NothingMarked
    <3> QED
      BY <1>1, <2>2, <3>1 DEF HandsOver
  <2>5. parser' = parser /\ Coming' = Coming
    BY <1>1 DEF HandsOver
  <2>6. Later(n + 1)' = Later(n + 1)
    BY <1>2 DEF Later
  <2> QED
    BY <1>2, <2>1, <2>2, <2>3, <2>4, <2>5, <2>6, Zenon DEF Idle
<1>7. InNext(n) => InNext(n)'
  <2>1. SUFFICES ASSUME InNext(n) PROVE InNext(n)'
    OBVIOUS
  <2>2. PICK r, l : /\ r = requests[n + 1] /\ l = Later(n + 1) /\ n < Len(requests)
                    /\ IsRequest(r) /\ l \in Seq(Symbol) /\ InRequest(r, l)
    BY <2>1, BeingTaken, Zenon
  <2>3. InRequest(r, l)'
    BY <1>1, <2>2, RequestStays, Zenon
  <2>4. Later(n + 1)' = l
    BY <1>2, <2>2 DEF Later
  <2>5. n < Len(requests') /\ r = requests'[n + 1]
    BY <1>2, <2>2, Zenon
  <2> QED
    BY <2>3, <2>4, <2>5, Zenon DEF InNext
<1>8. CASE socket = "open"
  <2>1. n = Len(answers) /\ (Idle(n) \/ InNext(n))
    BY <1>3, <1>8, Zenon DEF ParseInv
  <2>2. socket' # "returned"
    BY <1>2
  <2>3. Len(answers') = n
    BY <1>2, <2>1, Zenon
  <2>4. ParseInv'
    BY <1>4, <1>5, <1>6, <1>7, <2>1, <2>2, <2>3, InvNext, Zenon
  <2> QED
    BY <1>1, <1>4, <2>4
<1>9. CASE socket = "returned"
  <2>1. close_connection_ \/ (n = Len(answers) /\ Idle(n))
    BY <1>3, <1>9, Zenon DEF ParseInv
  <2>2. socket' # "returned" /\ (socket' = "open" => ~close_connection_)
    BY <1>2
  <2>3. socket' = "open" => Len(answers') = n /\ Idle(n)'
    BY <1>2, <1>6, <2>1, <2>2, Zenon
  <2>4. ParseInv'
    BY <1>4, <1>5, <2>2, <2>3, InvNext, Zenon
  <2> QED
    BY <1>1, <1>4, <2>4
<1> QED
  BY <1>2, <1>8, <1>9

\* Nothing changes.
LEMMA NothingChanges ==
    ASSUME Conn, Written, ParseInv, UNCHANGED httpVars
    PROVE  Conn' /\ Written' /\ ParseInv'
<1>1. /\ requests' = requests /\ stream' = stream /\ at' = at /\ parser' = parser
      /\ mark' = mark /\ url_start_mark' = url_start_mark /\ req' = req /\ found' = found
      /\ code' = code /\ socket' = socket /\ close_connection_' = close_connection_
      /\ answers' = answers /\ handled' = handled
  BY DEF httpVars
<1>2. Conn'
  BY <1>1 DEF Conn, SentRequests
<1>3. PICK n \in Nat : n = Len(handled) /\ n <= Len(requests)
  BY Handled
<1>4. AnswersInOrder' /\ RequestsArriveWhole' /\ Written'
  <2>1. AnswersInOrder /\ RequestsArriveWhole
    BY Zenon DEF ParseInv
  <2> QED
    BY <1>1, <2>1, Zenon DEF Written, AnswersInOrder, RequestsArriveWhole
<1>5. Coming' = Coming
  BY <1>1 DEF Coming
<1>6. Delivered' = Delivered
  BY <1>1 DEF Delivered, WithUrl
<1>7. Later(n + 1)' = Later(n + 1)
  BY <1>1 DEF Later
<1>8. Idle(n) => Idle(n)'
  BY <1>1, <1>5, <1>7, Zenon DEF Idle
<1>9. InNext(n) => InNext(n)'
  <2>1. SUFFICES ASSUME InNext(n) PROVE InNext(n)'
    OBVIOUS
  <2>2. PICK r, l : /\ r = requests[n + 1] /\ l = Later(n + 1) /\ n < Len(requests)
                    /\ IsRequest(r) /\ l \in Seq(Symbol) /\ InRequest(r, l)
    BY <2>1, BeingTaken, Zenon
  <2>3. InRequest(r, l)'
    <3>1. CASE InUrl(r, l)
      <4>1. Bare(r) => Bare(r)'
        BY <1>1, Zenon DEF Bare
      <4>2. InUrl(r, l)'
        BY <1>1, <1>5, <1>6, <3>1, <4>1, Zenon DEF InUrl
      <4> QED
        BY <4>2, Zenon DEF InRequest
    <3>2. CASE ~InUrl(r, l)
      <4>1. UNCHANGED <<requests, parser, mark, req, found, code>>
        BY <1>1
      <4> QED
        BY <1>5, <1>6, <2>2, <3>2, <4>1, UnmarkedStays, Zenon
    <3> QED
      BY <3>1, <3>2
  <2>4. n < Len(requests') /\ r = requests'[n + 1] /\ l = Later(n + 1)'
    BY <1>1, <1>7, <2>2, Zenon
  <2> QED
    BY <2>3, <2>4, Zenon DEF InNext
<1>10. ParseInv'
  <2>1. /\ n = Len(handled') /\ Len(answers') <= n
        /\ socket' = "open" => Len(answers') = n /\ (Idle(n) \/ InNext(n))
        /\ socket' = "returned" => close_connection_' \/ (Len(answers') = n /\ Idle(n))
    BY <1>1, <1>3, Zenon DEF ParseInv
  <2> QED
    BY <1>4, <1>8, <1>9, <2>1, InvNext, Zenon
<1> QED
  BY <1>2, <1>4, <1>10

\* At first the first request is expected.
LEMMA AtFirst ==
    ASSUME Init PROVE Conn /\ Written /\ ParseInv
<1>1. /\ requests \in UNION {[1..n -> Request] : n \in 1..MaxRequests}
      /\ stream = Joined(Texts(requests))[1]
      /\ at = 0
      /\ parser = [state |-> "start_req", header_state |-> "general", flags |-> {},
                   content_length |-> Unset, version |-> "", qs_point |-> 0, peeked |-> FALSE]
      /\ mark = NoMark /\ url_start_mark = 0 /\ req = Fresh
      /\ socket = "open" /\ answers = <<>> /\ handled = <<>>
  BY DEF Init
<1>2. PICK n \in 1..MaxRequests : requests \in [1..n -> Request]
  BY <1>1
<1>3. n \in Nat /\ n > 0
  BY RequestAssumption
<1>4. requests \in Seq(Request) /\ Len(requests) = n
  BY <1>2, <1>3
<1>5. SentRequests
  BY <1>4 DEF SentRequests
<1>6. stream = Later(0)
  <2>1. 0 + 1 = 1
    OBVIOUS
  <2> QED
    BY <1>1, <2>1, Zenon DEF Later
<1>7. 0 \in 0..(n - 1) /\ 0 \in 0..n
  BY <1>3
<1>8. /\ stream \in Seq(Symbol) /\ IsRequest(requests[0 + 1])
      /\ stream = requests[0 + 1].lead \o FromMethod(requests[0 + 1], Later(0 + 1))
  BY <1>4, <1>5, <1>6, <1>7, LaterTyped, Zenon
<1>9. Coming = stream
  <2>1. Drop(stream, 0) = stream
    BY <1>8, DropNone
  <2> QED
    BY <1>1, <2>1, Zenon DEF Coming
<1>10. IsParser(parser) /\ parser.state = "start_req" /\ parser.qs_point = 0
  <2>1. PICK x \in Int : x = Unset
    BY DEF Unset
  <2>2. PICK q : q = [state |-> "start_req", header_state |-> "general", flags |-> {},
                      content_length |-> x, version |-> "", qs_point |-> 0, peeked |-> FALSE]
    OBVIOUS
  <2>3. /\ q.state = "start_req" /\ q.header_state = "general" /\ q.flags = {}
        /\ q.content_length = x /\ q.version = "" /\ q.qs_point = 0 /\ q.peeked = FALSE
    BY <2>2
  <2>4. IsParser(q)
    <3>1. q = [state |-> q.state, header_state |-> q.header_state, flags |-> q.flags,
               content_length |-> q.content_length, version |-> q.version,
               qs_point |-> q.qs_point, peeked |-> q.peeked]
      BY <2>2, <2>3, Zenon
    <3>3. x \in Int /\ 0 \in Int
      OBVIOUS
    <3>2. q.content_length \in Int /\ q.qs_point \in Int
      BY <2>3, <3>3, Zenon
    <3> QED
      BY <3>1, <3>2, Zenon DEF IsParser
  <2> QED
    BY <1>1, <2>1, <2>2, <2>3, <2>4, Zenon
<1>11. IsReq(req) /\ IsMark(mark)
  BY <1>1, FreshIs, NoMarkIs
<1>12. Conn
  <2>1. at = 0 /\ url_start_mark = 0
    BY <1>1, Zenon
  <2>2. at \in Nat /\ url_start_mark \in Nat /\ url_start_mark <= at
    BY <2>1
  <2> QED
    BY <1>5, <1>8, <1>10, <1>11, <2>2, Zenon DEF Conn
<1>13. Len(answers) = 0 /\ Len(handled) = 0 /\ Written
  <2>1. <<>> \in Seq({}) /\ Len(<<>>) = 0
    OBVIOUS
  <2> QED
    BY <1>1, <2>1, Zenon DEF Written
<1>14. AnswersInOrder /\ RequestsArriveWhole
  <2>1. 0 <= Len(requests) /\ \A i \in 1..0 : FALSE
    BY <1>3, <1>4
  <2> QED
    BY <1>13, <2>1, Zenon DEF AnswersInOrder, RequestsArriveWhole
<1>15. Idle(0)
  <2>1. requests[0 + 1].lead \in Seq({"CR", "LF"})
    BY <1>8, RequestParts
  <2>2. Drop(requests[0 + 1].lead, 0) = requests[0 + 1].lead
    BY <2>1, DropNone
  <2>3. 0 \in 0..Len(requests[0 + 1].lead)
    BY <2>1
  <2>4. 0 # Len(requests)
    BY <1>3, <1>4
  <2> QED
    BY <1>1, <1>8, <1>9, <1>10, <2>2, <2>3, <2>4, Zenon DEF Idle
<1>16. ParseInv
  <2>1. socket = "open"
    BY <1>1, Zenon
  <2>2. 0 <= 0 /\ socket # "returned"
    BY <2>1
  <2> QED
    BY <1>13, <1>14, <1>15, <2>2, Zenon DEF ParseInv
<1> QED
  BY <1>12, <1>13, <1>16

\* Theorem: the inductive invariant.  While the connection is open, all requests before the one
\* being taken are answered, and http_parser's state is that of the part of it that comes.
THEOREM ParserInStep == Spec => [](Conn /\ Written /\ ParseInv)
<1>1. Init => Conn /\ Written /\ ParseInv
  BY AtFirst
<1>2. Conn /\ Written /\ ParseInv /\ [Next]_httpVars => (Conn /\ Written /\ ParseInv)'
  BY ExecuteKeeps, ReadEnds, NothingChanges, Zenon DEF Next
<1> QED
  BY <1>1, <1>2, PTL DEF Spec

\* Theorem AnswersInOrder, for every octet, request and number of them: whichever way the
\* bytes are torn into reads, the answers that Connection::handle writes are in the order of
\* the requests, and each is the one due, Misjudged requests apart.
THEOREM AnswersFollowRequests == Spec => []AnswersInOrder
<1>1. ParseInv => AnswersInOrder
  BY Zenon DEF ParseInv
<1> QED
  BY <1>1, ParserInStep, PTL

\* Theorem RequestsArriveWhole: what handle() is called with is what was sent, the URL, the
\* Host with all its lines and the body, wherever a name, a value, a length or a chunk is torn.
THEOREM RequestsAreWhole == Spec => []RequestsArriveWhole
<1>1. ParseInv => RequestsArriveWhole
  BY Zenon DEF ParseInv
<1> QED
  BY <1>1, ParserInStep, PTL
===============================================================================
