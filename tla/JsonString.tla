----------------------------- MODULE JsonString -----------------------------
(***************************************************************************)
(* Strings in json.hpp: scan_string reads them, dump_escaped writes them.  *)
(* The server parses what a page sends and dumps what it answers, product  *)
(* names from its data file and from messages among it.  A string here is  *)
(* scanned and then dumped, or comes from the file and is dumped, and the  *)
(* page scans the result again.  One step is one turn of the loop of       *)
(* scan_string, or one byte of dump_escaped's.                             *)
(***************************************************************************)
EXTENDS Utf8, SequencesExt, Functions

CONSTANTS Piece,      \* pieces of a text to scan, each with the UTF-16 units it stands for
          MaxPieces,  \* bound: pieces in a text
          Stored,     \* strings of the data file
          Handler,    \* error handlers; the server uses "strict"
          BufferSize  \* string_buffer.size(), 512

ASSUME BufferAssumption == BufferSize \in Nat /\ BufferSize >= 13
ASSUME StoredAssumption == \A t \in Stored : t \in Seq(0..255)
ASSUME HandlerAssumption == Handler \subseteq {"strict", "ignore", "replace"}
-----------------------------------------------------------------------------
VARIABLES
    phase,          \* "scan", "dump", "reread"; "read", "parse_error", "type_error"
    text,           \* what is scanned, after the opening quote
    pos,            \* bytes of it that are read
    token_buffer,
    ensure_ascii, error_handler,  \* options of dump; they do not change
    s,              \* the string dumped
    i,              \* bytes of it that are read
    state, codepoint,
    string_buffer,  \* its first bytes elements
    o,              \* what was written
    bytes_after_last_accept, undumped_chars,
    touched,        \* auxiliary: places of string_buffer that the last step wrote to
    meant           \* auxiliary: the units of the text; <<>> for a string of the file

scanVars == <<text, pos, token_buffer>>
options == <<ensure_ascii, error_handler>>
dumpVars == <<s, i, state, codepoint, string_buffer, o, bytes_after_last_accept, undumped_chars,
              touched>>
stringVars == <<phase, scanVars, options, dumpVars, meant>>

Quote == 34
Backslash == 92
Eof == 0 - 1

-----------------------------------------------------------------------------
(* scan_string.                                                            *)

\* The byte that the k-th get() of this turn returns.
Get(k) == IF pos + k <= Len(text) THEN text[pos + k] ELSE Eof

Scanning == phase \in {"scan", "reread"}

\* Go on after n bytes, with bytes added.
Adds(n, bytes) ==
    /\ pos' = pos + n
    /\ token_buffer' = token_buffer \o bytes
    /\ UNCHANGED <<phase, text, options, dumpVars, meant>>

ParseError == phase' = "parse_error" /\ UNCHANGED <<scanVars, options, dumpVars, meant>>

ScanPlain ==
    /\ Scanning /\ Get(1) \in 32..127 \ {Quote, Backslash}
    /\ Adds(1, <<Get(1)>>)

\* Slip: after the first byte of a character any byte may come that goes on with one.
SecondAny(b) == 128..191

\* What may follow a byte that begins a character, and how many bytes the character has.
Second(b) ==
    CASE b = 224 -> 160..191 [] b = 237 -> 128..159 [] b = 240 -> 144..191 [] b = 244 -> 128..143
      [] OTHER -> 128..191
Width(b) == CASE b \in 194..223 -> 2 [] b \in 224..239 -> 3 [] b \in 240..244 -> 4

ScanCharacter ==
    /\ Scanning /\ Get(1) \in 194..244
    /\ LET width == Width(Get(1)) IN
         IF Get(2) \in Second(Get(1)) /\ \A k \in 3..width : Get(k) \in 128..191
         THEN Adds(width, [k \in 1..width |-> Get(k)])
         ELSE ParseError

\* The escapes of one letter.
Escaped ==
    [b \in {34, 92, 47, 98, 102, 110, 114, 116} |->
       CASE b = 98 -> 8 [] b = 102 -> 12 [] b = 110 -> 10 [] b = 114 -> 13 [] b = 116 -> 9
         [] OTHER -> b]

ScanEscape ==
    /\ Scanning /\ Get(1) = Backslash /\ Get(2) # 117
    /\ IF Get(2) \in DOMAIN Escaped THEN Adds(2, <<Escaped[Get(2)]>>) ELSE ParseError

\* get_codepoint, of the four digits after the k-th byte.
HexDigit(b) ==
    CASE b \in 48..57 -> b - 48 [] b \in 65..70 -> b - 55 [] b \in 97..102 -> b - 87
      [] OTHER -> Eof
GetCodepoint(k) ==
    LET d == [n \in 1..4 |-> HexDigit(Get(k + n))] IN
      IF Eof \in Range(d) THEN Eof ELSE ((d[1] * 16 + d[2]) * 16 + d[3]) * 16 + d[4]

Combined(high, low) == high * 1024 + low - 56613888

\* The character of a \u, or of two.
ScanUnicode ==
    /\ Scanning /\ Get(1) = Backslash /\ Get(2) = 117
    /\ LET first == GetCodepoint(2)
           second == GetCodepoint(8)
       IN IF first = Eof \/ Low(first) THEN ParseError
          ELSE IF ~High(first) THEN Adds(6, Utf8(first))
          ELSE IF Get(7) = Backslash /\ Get(8) = 117 /\ Low(second)
          THEN Adds(12, Utf8(Combined(first, second)))
          ELSE ParseError

\* Anything else: a control character, a byte no character begins with, or the end.
ScanBad ==
    /\ Scanning /\ Get(1) \in -1..31 \cup 128..193 \cup 245..255
    /\ ParseError

\* The closing quote.  A string that was parsed is dumped next.
ScanClose ==
    /\ Scanning /\ Get(1) = Quote
    /\ pos' = pos + 1
    /\ IF phase = "reread" THEN phase' = "read" /\ UNCHANGED s
       ELSE phase' = "dump" /\ s' = token_buffer
    /\ UNCHANGED <<text, token_buffer, options, i, state, codepoint, string_buffer, o,
                   bytes_after_last_accept, undumped_chars, touched, meant>>
-----------------------------------------------------------------------------
(* decode: a finite automaton over classes of bytes.                       *)

ACCEPT == 0
REJECT == 1

\* utf8d, its first part.
Type(byte) ==
    CASE byte \in 0..127 -> 0
      [] byte \in 128..143 -> 1
      [] byte \in 144..159 -> 9
      [] byte \in 160..191 -> 7
      [] byte \in 194..223 -> 2
      [] byte = 224 -> 10
      [] byte \in 225..239 \ {237} -> 3
      [] byte = 237 -> 4
      [] byte = 240 -> 11
      [] byte \in 241..243 -> 6
      [] byte = 244 -> 5
      [] OTHER -> 8

\* utf8d, its second part: where a character begins, and what may come in it.
Begins == <<0, 1, 2, 3, 5, 8, 7, 1, 1, 1, 4, 6>>
Moves(st, type) ==
    CASE st = 0 -> Begins[type + 1]
      [] st = 2 /\ type \in {1, 7, 9} -> 0
      [] st = 3 /\ type \in {1, 7, 9} -> 2
      [] st = 4 /\ type = 7 -> 2
      [] st = 5 /\ type \in {1, 9} -> 2
      [] st = 6 /\ type \in {7, 9} -> 3
      [] st = 7 /\ type \in {1, 7, 9} -> 3
      [] st = 8 /\ type = 1 -> 3
      [] OTHER -> 1

\* 0xFF >> type, as what a byte is divided by.
Mask == <<256, 128, 64, 32, 16, 8, 4, 2, 1, 1, 1, 1>>

Coded(st, code, byte) ==
    IF st # ACCEPT THEN code * 64 + (byte % 64) ELSE byte % Mask[Type(byte) + 1]
-----------------------------------------------------------------------------
(* dump_escaped.                                                           *)

HexChar == <<48, 49, 50, 51, 52, 53, 54, 55, 56, 57, 97, 98, 99, 100, 101, 102>>
Hex(c) ==
    <<Backslash, 117, HexChar[((c \div 4096) % 16) + 1], HexChar[((c \div 256) % 16) + 1],
      HexChar[((c \div 16) % 16) + 1], HexChar[(c % 16) + 1]>>

Short ==
    [c \in {8, 9, 10, 12, 13, 34, 92} |->
       CASE c = 8 -> 98 [] c = 9 -> 116 [] c = 10 -> 110 [] c = 12 -> 102 [] c = 13 -> 114
         [] OTHER -> c]

IsHex(c) == c \notin DOMAIN Short /\ (c <= 31 \/ (ensure_ascii /\ c >= 127))

HighOf(c) == 55232 + c \div 1024
LowOf(c) == 56320 + (c % 1024)

\* What an accepted code point adds to the buffer, its last byte being b.
Dumped(c, b) ==
    CASE c \in DOMAIN Short -> <<Backslash, Short[c]>>
      [] IsHex(c) /\ c <= 65535 -> Hex(c)
      [] IsHex(c) /\ c > 65535 -> Hex(HighOf(c)) \o Hex(LowOf(c))
      [] OTHER -> <<b>>

\* snprintf ends what it writes with a NUL.
Nul(c) == IF IsHex(c) THEN 1 ELSE 0

\* Slip: room for one byte less is held enough.
FullLate(buffer) == BufferSize - Len(buffer) < 12
Full(buffer) == BufferSize - Len(buffer) < 13

\* The buffer written to the stream when it is nearly full.
Flushes(buffer) ==
    /\ o' = IF Full(buffer) THEN o \o buffer ELSE o
    /\ string_buffer' = IF Full(buffer) THEN <<>> ELSE buffer
    /\ bytes_after_last_accept' = IF Full(buffer) THEN 0 ELSE Len(buffer)

Reading == phase = "dump" /\ i < Len(s)
current == s[i + 1]
moved == Moves(state, Type(current))

DumpAccept ==
    /\ Reading /\ moved = ACCEPT
    /\ LET c == Coded(state, codepoint, current)
           buffer == string_buffer \o Dumped(c, current)
       IN /\ Flushes(buffer)
          /\ touched' = Len(buffer) + Nul(c)
          /\ codepoint' = c
    /\ state' = ACCEPT /\ i' = i + 1 /\ undumped_chars' = 0
    /\ UNCHANGED <<phase, scanVars, options, s, meant>>

DumpIncomplete ==
    /\ Reading /\ moved \notin {ACCEPT, REJECT}
    /\ string_buffer' = IF ensure_ascii THEN string_buffer ELSE Append(string_buffer, current)
    /\ touched' = Len(string_buffer')
    /\ state' = moved /\ codepoint' = Coded(state, codepoint, current)
    /\ i' = i + 1 /\ undumped_chars' = undumped_chars + 1
    /\ UNCHANGED <<phase, scanVars, options, s, o, bytes_after_last_accept, meant>>

TypeError == phase' = "type_error" /\ UNCHANGED <<scanVars, options, dumpVars, meant>>

ReplacementCharacter == 65533
Replacement == IF ensure_ascii THEN Hex(ReplacementCharacter) ELSE <<239, 191, 189>>
Accepted == SubSeq(string_buffer, 1, bytes_after_last_accept)

\* Slip: a byte that ends a character early is skipped with it.
RereadNever == i + 1

\* A byte that ends a character early is read again: it may begin the next.
Reread == IF undumped_chars > 0 THEN i ELSE i + 1

DumpReject ==
    /\ Reading /\ moved = REJECT
    /\ IF error_handler = "strict" THEN TypeError
       ELSE /\ IF error_handler = "replace"
               THEN /\ Flushes(Accepted \o Replacement)
                    /\ touched' = Len(Accepted \o Replacement)
               ELSE /\ string_buffer' = Accepted /\ touched' = 0
                    /\ UNCHANGED <<o, bytes_after_last_accept>>
            /\ state' = ACCEPT /\ i' = Reread /\ undumped_chars' = 0
            /\ codepoint' = Coded(state, codepoint, current)
            /\ UNCHANGED <<phase, scanVars, options, s, meant>>

\* The end of the string; the page then scans what was written.
DumpEnd ==
    /\ phase = "dump" /\ i = Len(s)
    /\ IF state # ACCEPT /\ error_handler = "strict" THEN TypeError
       ELSE /\ o' = CASE state = ACCEPT -> o \o string_buffer
                      [] state # ACCEPT /\ error_handler = "ignore" -> o \o Accepted
                      [] OTHER -> o \o Accepted \o Replacement
            /\ phase' = "reread" /\ text' = Append(o', Quote)
            /\ pos' = 0 /\ token_buffer' = <<>>
            /\ UNCHANGED <<options, s, i, state, codepoint, string_buffer,
                           bytes_after_last_accept, undumped_chars, touched, meant>>
-----------------------------------------------------------------------------
(* The specification.                                                      *)

Init ==
    /\ \/ /\ \E n \in 1..MaxPieces : \E ps \in [1..n -> Piece] :
               /\ text = FlattenSeq([k \in 1..n |-> ps[k].text]) \o <<Quote>>
               /\ meant = FlattenSeq([k \in 1..n |-> ps[k].units])
          /\ phase = "scan" /\ s = <<>>
       \/ phase = "dump" /\ s \in Stored /\ text = <<>> /\ meant = <<>>
    /\ pos = 0 /\ token_buffer = <<>>
    /\ ensure_ascii \in BOOLEAN /\ error_handler \in Handler
    /\ i = 0 /\ state = ACCEPT /\ codepoint = 0
    /\ string_buffer = <<>> /\ o = <<>>
    /\ bytes_after_last_accept = 0 /\ undumped_chars = 0 /\ touched = 0

Next ==
    \/ ScanPlain \/ ScanCharacter \/ ScanEscape \/ ScanUnicode \/ ScanBad \/ ScanClose
    \/ DumpAccept \/ DumpIncomplete \/ DumpReject \/ DumpEnd

Spec == Init /\ [][Next]_stringVars

\* Both are loops that nothing interrupts.
FairSpec == Spec /\ WF_stringVars(Next)
-----------------------------------------------------------------------------
(* Properties.                                                             *)

\* Types of the dump's state, and how far the automaton is in a character.
StringTypeOK ==
    /\ phase \in {"scan", "dump", "reread", "read", "parse_error", "type_error"}
    /\ i \in 0..Len(s) /\ state \in {0} \cup 2..8
    /\ bytes_after_last_accept \in 0..Len(string_buffer)
    /\ undumped_chars \in 0..3 /\ (state = ACCEPT <=> undumped_chars = 0)

\* However code points, bytes of unfinished ones and replacements follow each other, nothing
\* is written past the end of string_buffer, the NUL of snprintf included.
BufferFits == touched <= BufferSize

\* A text is accepted just when it means something, and then read as that.
ScanMeans ==
    /\ phase = "dump" /\ i = 0 /\ meant # <<>> => Paired(meant) /\ s = FromUtf16(meant)
    /\ phase = "parse_error" => meant # <<>> /\ ~Paired(meant)

\* What the parser took can be dumped: no message of a page makes an answer throw.
ParsedIsDumped == phase = "type_error" => meant = <<>>

\* What a replacing handler puts for bytes that belong to no character.
Put == IF error_handler = "replace" THEN {Utf8(ReplacementCharacter)} ELSE {}

\* dump throws at an ill-formed string only.  What was dumped can be parsed, and is the string
\* again; where that was ill-formed, every whole character of it is still there, and nothing
\* new but what the handler puts.
RoundTrip ==
    /\ phase = "type_error" => ~WellFormed(s)
    /\ phase = "parse_error" => i = 0
    /\ phase = "read" =>
         /\ WellFormed(token_buffer)
         /\ WellFormed(s) => token_buffer = s
         /\ Without(token_buffer, Put) = Without(s, Put)

\* The two loops end.
Ends == <>(phase \in {"read", "parse_error", "type_error"})
=============================================================================
