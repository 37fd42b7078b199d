-------------------------- MODULE JsonStringProofs --------------------------
(***************************************************************************)
(* Strings of every length and content, and any buffer of 13 bytes or      *)
(* more.  The dump: what an unfinished character has put in the buffer is  *)
(* bounded by how far the automaton is in it (BufferInv).  What was        *)
(* scanned: a string that can be cut into characters is never rejected,    *)
(* because the automaton is where the bytes since the last cut lead        *)
(* (ParseInv).  The way to the page and back: what was written is written  *)
(* for characters v that hold what the bytes dumped so far are, and the    *)
(* page reads it as v (TripInv).                                           *)
(***************************************************************************)
EXTENDS JsonString, WellFoundedInduction, TLAPS

\* What escapes a character above FFFF, and what reads the escape, are inverse.
THEOREM EscapesRecombine ==
    ASSUME NEW c \in Int, 65536 <= c, c <= 1114111
    PROVE  High(HighOf(c)) /\ Low(LowOf(c)) /\ Combined(HighOf(c), LowOf(c)) = c
<1> DEFINE q == c \div 1024
           r == c % 1024
<1>1. q \in Int /\ r \in Int /\ 64 <= q /\ q <= 1087 /\ 0 <= r /\ r <= 1023 /\ c = q * 1024 + r
  BY SMT
<1> QED
  BY <1>1, SMT DEF High, Low, HighOf, LowOf, Combined

\* The digit that stands for a number stands for that number.
LEMMA HexDigits == ASSUME NEW d \in 0..15 PROVE HexDigit(HexChar[d + 1]) = d
<1>1. d \in Int
  OBVIOUS
<1>2. HexChar[d + 1] = IF d < 10 THEN 48 + d ELSE 87 + d
  BY <1>1, SMT DEF HexChar
<1> QED
  BY <1>1, <1>2, SMT DEF HexDigit

\* The four digits written for a code point are read as it.
THEOREM HexReadsBack ==
    ASSUME NEW c \in Int, 0 <= c, c < 65536, NEW k \in Nat,
           \A n \in 1..4 : Get(k + n) = Hex(c)[n + 2]
    PROVE  GetCodepoint(k) = c
<1> DEFINE d1 == (c \div 4096) % 16
           d2 == (c \div 256) % 16
           d3 == (c \div 16) % 16
           d4 == c % 16
<1>2. d1 \in 0..15 /\ d2 \in 0..15 /\ d3 \in 0..15 /\ d4 \in 0..15
  BY SMT
<1>3. c = ((d1 * 16 + d2) * 16 + d3) * 16 + d4
  BY SMT
<1>4. /\ Get(k + 1) = HexChar[d1 + 1] /\ Get(k + 2) = HexChar[d2 + 1]
      /\ Get(k + 3) = HexChar[d3 + 1] /\ Get(k + 4) = HexChar[d4 + 1]
  <2> HIDE DEF d1, d2, d3, d4
  <2>1. /\ Hex(c)[3] = HexChar[d1 + 1] /\ Hex(c)[4] = HexChar[d2 + 1]
        /\ Hex(c)[5] = HexChar[d3 + 1] /\ Hex(c)[6] = HexChar[d4 + 1]
    BY DEF Hex, d1, d2, d3, d4
  <2> QED
    BY <2>1
<1> DEFINE d == [n \in 1..4 |-> HexDigit(Get(k + n))]
<1>5. d[1] = d1 /\ d[2] = d2 /\ d[3] = d3 /\ d[4] = d4
  <2> HIDE DEF d1, d2, d3, d4
  <2> QED
    BY <1>2, <1>4, HexDigits
<1>6. Eof \notin Range(d)
  <2> HIDE DEF d1, d2, d3, d4
  <2> SUFFICES ASSUME NEW n \in 1..4 PROVE d[n] # Eof
    BY DEF Range
  <2> QED
    BY <1>2, <1>5 DEF Eof
<1> HIDE DEF d1, d2, d3, d4
<1> QED
  BY <1>3, <1>5, <1>6 DEF GetCodepoint
-----------------------------------------------------------------------------
(* The automaton.                                                          *)

Byte == 0..255
States == {0} \cup 2..8

\* Bytes that a character still needs.
Left(st) == CASE st = 0 -> 0 [] st = 2 -> 1 [] st \in 3..5 -> 2 [] OTHER -> 3

\* Every byte has a class.
LEMMA TypeOfByte == ASSUME NEW b PROVE Type(b) \in 0..11
BY SMT DEF Type

\* A move rejects, begins a character or brings it a byte nearer to its end.
LEMMA MovesForward ==
    ASSUME NEW st \in States, NEW t \in 0..11, Moves(st, t) # REJECT
    PROVE  /\ Moves(st, t) \in States
           /\ st # 0 => Left(Moves(st, t)) = Left(st) - 1
<1>1. CASE st = 0
  <2>1. Moves(st, t) = Begins[t + 1]
    BY <1>1 DEF Moves
  <2>2. Begins[t + 1] \in 0..8
    BY SMT DEF Begins
  <2> QED
    BY <1>1, <2>1, <2>2 DEF States, REJECT
<1>2. CASE st # 0
  <2>1. Moves(st, t) \in {0, 2, 3}
    BY <1>2, SMT DEF Moves, States, REJECT
  <2>2. CASE st = 2
    BY <2>2, SMT DEF Moves, REJECT, Left, States
  <2>3. CASE st \in 3..5
    BY <2>3, SMT DEF Moves, REJECT, Left, States
  <2>4. CASE st \in 6..8
    BY <2>4, SMT DEF Moves, REJECT, Left, States
  <2> QED
    BY <1>2, <2>2, <2>3, <2>4, SMT DEF States
<1> QED
  BY <1>1, <1>2

\* The code point stays a number.
LEMMA CodedInt ==
    ASSUME NEW st, NEW code \in Int, NEW b \in Byte
    PROVE  Coded(st, code, b) \in Int
<1>1. Type(b) + 1 \in 1..12
  BY TypeOfByte
<1>2. Mask[Type(b) + 1] \in {256, 128, 64, 32, 16, 8, 4, 2, 1}
  BY <1>1, SMT DEF Mask
<1>3. b \in Int /\ b % 64 \in Int
  BY SMT DEF Byte
<1>4. b % Mask[Type(b) + 1] \in Int
  BY <1>2, <1>3, SMT
<1> QED
  BY <1>3, <1>4, SMT DEF Coded
-----------------------------------------------------------------------------
(* The buffer.                                                             *)

Typed ==
    /\ phase \in {"scan", "dump", "reread", "read", "parse_error", "type_error"}
    /\ token_buffer \in Seq(Byte) /\ s \in Seq(Byte) /\ i \in 0..Len(s)
    /\ state \in States /\ codepoint \in Int
    /\ ensure_ascii \in BOOLEAN
    /\ string_buffer \in Seq(Int)
    /\ bytes_after_last_accept \in 0..Len(string_buffer)
    /\ undumped_chars \in Nat /\ touched \in Nat

\* At an accept there is room for 13 bytes: two escapes and the NUL.  After it come the bytes of
\* one unfinished character, or none when it will be escaped.
BufferInv ==
    /\ Typed
    /\ bytes_after_last_accept + 13 <= BufferSize
    /\ Len(string_buffer) =
         bytes_after_last_accept + (IF ensure_ascii THEN 0 ELSE undumped_chars)
    /\ state = 0 <=> undumped_chars = 0
    /\ undumped_chars + Left(state) <= 4
    /\ touched <= BufferSize
    /\ phase = "scan" => i = 0

\* Bytes and numbers that the two loops add are bytes and numbers.
LEMMA HexInts == ASSUME NEW c \in Int PROVE Hex(c) \in Seq(Int) /\ Len(Hex(c)) = 6
<1> DEFINE d1 == (c \div 4096) % 16
           d2 == (c \div 256) % 16
           d3 == (c \div 16) % 16
           d4 == c % 16
<1>1. d1 + 1 \in 1..16 /\ d2 + 1 \in 1..16 /\ d3 + 1 \in 1..16 /\ d4 + 1 \in 1..16
  BY SMT
<1>2. Hex(c) = <<Backslash, 117, HexChar[d1 + 1], HexChar[d2 + 1], HexChar[d3 + 1],
                 HexChar[d4 + 1]>>
  BY DEF Hex
<1>3. \A d \in 1..16 : HexChar[d] \in Int
  BY SMT DEF HexChar
<1> HIDE DEF d1, d2, d3, d4
<1> QED
  BY <1>1, <1>2, <1>3 DEF Backslash

\* The concatenation of two sequences of integers and its length.
LEMMA Concatenated ==
    \A a, b \in Seq(Int) : a \o b \in Seq(Int) /\ Len(a \o b) = Len(a) + Len(b)
OBVIOUS

\* What is written for a code point, with its final NUL, is 13 bytes at most.
LEMMA DumpedFits ==
    ASSUME NEW c \in Int, NEW b \in Byte, ensure_ascii \in BOOLEAN
    PROVE  /\ Dumped(c, b) \in Seq(Int)
           /\ Nul(c) \in 0..1
           /\ Len(Dumped(c, b)) + Nul(c) <= IF ensure_ascii THEN 13 ELSE 7
<1>1. CASE c \in DOMAIN Short
  <2>1. Short[c] \in Int
    BY <1>1, SMT DEF Short
  <2> QED
    BY <1>1, <2>1, SMT DEF Dumped, Nul, IsHex, Backslash
<1>2. CASE c \notin DOMAIN Short /\ IsHex(c) /\ c <= 65535
  <2>1. Dumped(c, b) = Hex(c) /\ Nul(c) = 1
    BY <1>2 DEF Dumped, Nul
  <2>2. Hex(c) \in Seq(Int) /\ Len(Hex(c)) = 6
    BY HexInts
  <2> QED
    BY <2>1, <2>2
<1>3. CASE c \notin DOMAIN Short /\ IsHex(c) /\ c > 65535
  <2>1. Dumped(c, b) = Hex(HighOf(c)) \o Hex(LowOf(c)) /\ Nul(c) = 1
    BY <1>3, SMT DEF Dumped, Nul
  <2>2. HighOf(c) \in Int /\ LowOf(c) \in Int
    BY SMT DEF HighOf, LowOf
  <2>3. ensure_ascii
    BY <1>3, SMT DEF IsHex
  <2>4. /\ Hex(HighOf(c)) \in Seq(Int) /\ Len(Hex(HighOf(c))) = 6
        /\ Hex(LowOf(c)) \in Seq(Int) /\ Len(Hex(LowOf(c))) = 6
    BY <2>2, HexInts
  <2>5. /\ Hex(HighOf(c)) \o Hex(LowOf(c)) \in Seq(Int)
        /\ Len(Hex(HighOf(c)) \o Hex(LowOf(c))) = 12
    <3> DEFINE a == Hex(HighOf(c))
               d == Hex(LowOf(c))
    <3>1. a \in Seq(Int) /\ Len(a) = 6 /\ d \in Seq(Int) /\ Len(d) = 6
      BY <2>4
    <3> HIDE DEF a, d
    <3>2. a \o d \in Seq(Int) /\ Len(a \o d) = Len(a) + Len(d)
      BY <3>1, Concatenated, Zenon
    <3>3. Len(a \o d) = 12
      BY <3>1, <3>2
    <3> QED
      BY <3>2, <3>3 DEF a, d
  <2> QED
    BY <2>1, <2>3, <2>5
<1>4. CASE c \notin DOMAIN Short /\ ~IsHex(c)
  <2>1. Dumped(c, b) = <<b>> /\ Nul(c) = 0
    BY <1>4 DEF Dumped, Nul
  <2> QED
    BY <2>1 DEF Byte
<1> QED
  BY <1>1, <1>2, <1>3, <1>4

\* What stands for a rejected byte, and how long it is.
LEMMA ReplacementInts ==
    Replacement \in Seq(Int) /\ (Len(Replacement) = 6 \/ Len(Replacement) = 3)
<1>1. Hex(ReplacementCharacter) \in Seq(Int) /\ Len(Hex(ReplacementCharacter)) = 6
  BY HexInts DEF ReplacementCharacter
<1>2. <<239, 191, 189>> \in Seq(Int) /\ Len(<<239, 191, 189>>) = 3
  OBVIOUS
<1>3. \/ Replacement = Hex(ReplacementCharacter)
      \/ Replacement = <<239, 191, 189>>
  BY Zenon DEF Replacement
<1> DEFINE a == Hex(ReplacementCharacter)
           d == <<239, 191, 189>>
<1>4. a \in Seq(Int) /\ Len(a) = 6 /\ d \in Seq(Int) /\ Len(d) = 3
      /\ (Replacement = a \/ Replacement = d)
  BY <1>1, <1>2, <1>3, Zenon
<1> HIDE DEF a, d
<1> QED
  BY <1>4, Zenon

\* What an accepted sequence is dumped as is made of bytes.
LEMMA AcceptedBytes ==
    ASSUME Typed
    PROVE  Accepted \in Seq(Int) /\ Len(Accepted) = bytes_after_last_accept
BY DEF Typed, Accepted

\* What is flushed leaves room for the next.
LEMMA FlushesLeaveRoom ==
    ASSUME NEW buffer \in Seq(Int), Flushes(buffer)
    PROVE  /\ string_buffer' \in Seq(Int)
           /\ bytes_after_last_accept' = Len(string_buffer')
           /\ bytes_after_last_accept' + 13 <= BufferSize
BY BufferAssumption DEF Flushes, Full
-----------------------------------------------------------------------------
\* What a character's bytes are: as many as Width says, each in its range.
Fits(t, n, w) ==
    /\ n + w <= Len(t)
    /\ \/ t[n + 1] \in 0..127 /\ w = 1
       \/ /\ t[n + 1] \in 194..244 /\ w = Width(t[n + 1])
          /\ t[n + 2] \in Second(t[n + 1])
          /\ \A k \in 3..w : t[n + k] \in 128..191

\* A scalar value in UTF-8 is one to four bytes that make one character.
LEMMA CharacterBytes ==
    ASSUME NEW c \in Int, IsScalar(c)
    PROVE  /\ Utf8(c) \in Seq(Byte) /\ Len(Utf8(c)) \in 1..4
           /\ Fits(Utf8(c), 0, Len(Utf8(c)))
<1>0. 0 <= c /\ c <= 1114111 /\ ~(55296 <= c /\ c <= 57343)
  BY SMT DEF IsScalar
<1>1. CASE c < 128
  <2>1. Utf8(c) = <<c>> /\ c \in 0..127
    BY <1>0, <1>1, SMT DEF Utf8
  <2> QED
    BY <2>1 DEF Fits, Byte
<1>2. CASE 128 <= c /\ c < 2048
  <2> DEFINE a == 192 + c \div 64
             b == Trail(c)
  <2>1. Utf8(c) = <<a, b>>
    BY <1>2, SMT DEF Utf8, Two
  <2>2. a \in 194..223 /\ b \in 128..191
    BY <1>2, SMT DEF Trail
  <2> HIDE DEF a, b
  <2>3. Width(a) = 2 /\ Second(a) = 128..191
    BY <2>2, SMT DEF Width, Second
  <2> QED
    BY <2>1, <2>2, <2>3 DEF Fits, Byte
<1>3. CASE 2048 <= c /\ c < 65536
  <2>0. Utf8(c) = Three(c)
    BY <1>3, SMT DEF Utf8
  <2> DEFINE a == 224 + c \div 4096
             b == Trail(c \div 64)
             d == Trail(c)
  <2>1. Utf8(c) = <<a, b, d>>
    BY <2>0, SMT DEF Three
  <2>2. a \in 224..239 /\ b \in 128..191 /\ d \in 128..191
    BY <1>3, SMT DEF Trail
  <2>3. (a = 224 => 160 <= b) /\ (a = 237 => b <= 159)
    BY <1>0, <1>3, SMT DEF Trail
  <2> HIDE DEF a, b, d
  <2>4. Width(a) = 3
    BY <2>2, SMT DEF Width
  <2>5. b \in Second(a)
    BY <2>2, <2>3, SMT DEF Second
  <2> QED
    BY <2>1, <2>2, <2>4, <2>5 DEF Fits, Byte
<1>4. CASE 65536 <= c
  <2>0. Utf8(c) = Four(c)
    BY <1>4, SMT DEF Utf8
  <2> DEFINE a == 240 + c \div 262144
             b == Trail(c \div 4096)
             d == Trail(c \div 64)
             e == Trail(c)
  <2>1. Utf8(c) = <<a, b, d, e>>
    BY <2>0, SMT DEF Four
  <2>2. a \in 240..244 /\ b \in 128..191 /\ d \in 128..191 /\ e \in 128..191
    BY <1>0, <1>4, SMT DEF Trail
  <2>3. (a = 240 => 144 <= b) /\ (a = 244 => b <= 143)
    BY <1>0, <1>4, SMT DEF Trail
  <2> HIDE DEF a, b, d, e
  <2>4. Width(a) = 4
    BY <2>2, SMT DEF Width
  <2>5. b \in Second(a)
    BY <2>2, <2>3, SMT DEF Second
  <2> QED
    BY <2>1, <2>2, <2>4, <2>5 DEF Fits, Byte
<1> QED
  BY <1>1, <1>2, <1>3, <1>4, SMT

\* Four digits are a number of 16 bits.
Unit == {n \in Nat : n < 65536}

\* Four hexadecimal digits are below 65536.
LEMMA FourDigits ==
    ASSUME NEW a \in 0..15, NEW b \in 0..15, NEW c \in 0..15, NEW d \in 0..15
    PROVE  ((a * 16 + b) * 16 + c) * 16 + d \in Unit
<1>1. a * 16 + b \in 0..255
  BY SMT
<1>2. (a * 16 + b) * 16 + c \in 0..4095
  BY <1>1, SMT
<1> DEFINE x == (a * 16 + b) * 16 + c
<1>3. x \in 0..4095
  BY <1>2
<1> HIDE DEF x
<1>4. x * 16 + d \in Unit
  <2>1. x \in Int /\ 0 <= x /\ x <= 4095 /\ d \in Int /\ 0 <= d /\ d <= 15
    BY <1>3
  <2> DEFINE y == x * 16 + d
  <2>2. y \in Int /\ 0 <= y /\ y <= 65535
    BY <2>1
  <2> HIDE DEF y
  <2>3. y \in Unit
    BY <2>2 DEF Unit
  <2> QED
    BY <2>3 DEF y
<1> QED
  BY <1>4 DEF x

\* Four digits that are read are a code unit.
LEMMA CodepointRange ==
    ASSUME NEW k \in Nat
    PROVE  GetCodepoint(k) = Eof \/ GetCodepoint(k) \in Unit
<1> DEFINE d == [n \in 1..4 |-> HexDigit(Get(k + n))]
<1>1. \A x : HexDigit(x) = Eof \/ HexDigit(x) \in 0..15
  BY SMT DEF HexDigit
<1>2. CASE Eof \in Range(d)
  BY <1>2 DEF GetCodepoint
<1>3. CASE Eof \notin Range(d)
  <2>1. \A n \in 1..4 : d[n] # Eof
    BY <1>3 DEF Range
  <2>2. d[1] \in 0..15 /\ d[2] \in 0..15 /\ d[3] \in 0..15 /\ d[4] \in 0..15
    BY <1>1, <2>1
  <2>3. GetCodepoint(k) = ((d[1] * 16 + d[2]) * 16 + d[3]) * 16 + d[4]
    BY <1>3, Zenon DEF GetCodepoint
  <2> HIDE DEF d
  <2> QED
    BY <2>2, <2>3, FourDigits, ZenonT(60)
<1> QED
  BY <1>2, <1>3, Zenon

\* A unit that is no half, and two halves, are scalars.
LEMMA UnitScalar ==
    ASSUME NEW u \in Unit, ~Low(u), ~High(u)
    PROVE  u \in Int /\ IsScalar(u)
<1>1. u \in Int /\ 0 <= u /\ u < 65536
  BY SMT DEF Unit
<1> QED
  BY <1>1, SMT DEF Low, High, IsScalar

\* Two surrogates make a scalar value past 65535.
LEMMA CombinedScalar ==
    ASSUME NEW h \in Int, NEW l \in Int, High(h), Low(l)
    PROVE  Combined(h, l) \in Int /\ IsScalar(Combined(h, l))
BY SMT DEF Low, High, IsScalar, Combined

\* One whole character.
Whole(t) == t \in Seq(Byte) /\ Len(t) \in 1..4 /\ Fits(t, 0, Len(t))

\* A turn of scan_string adds one whole character or fails.
LEMMA ScanStep ==
    ASSUME ScanPlain \/ ScanCharacter \/ ScanEscape \/ ScanUnicode \/ ScanBad
    PROVE  ParseError \/ (Scanning /\ \E n, bytes : Whole(bytes) /\ Adds(n, bytes))
<1>1. \A b \in 0..127 : Whole(<<b>>)
  BY DEF Whole, Fits, Byte
<1>2. \A c \in Int : IsScalar(c) => Whole(Utf8(c))
  BY CharacterBytes DEF Whole
<1>3. CASE ScanPlain
  <2>1. Get(1) \in 0..127
    BY <1>3 DEF ScanPlain
  <2> QED
    BY <1>1, <1>3, <2>1 DEF ScanPlain
<1>4. CASE ScanCharacter
  <2> DEFINE width == Width(Get(1))
             bytes == [k \in 1..width |-> Get(k)]
  <2>1. Scanning /\ Get(1) \in 194..244
    BY <1>4 DEF ScanCharacter
  <2>2. width \in 2..4
    BY <2>1, SMT DEF Width
  <2>3. CASE Get(2) \in Second(Get(1)) /\ \A k \in 3..width : Get(k) \in 128..191
    <3>1. Adds(width, bytes)
      BY <1>4, <2>3 DEF ScanCharacter
    <3>2. Get(2) \in 128..191
      BY <2>1, <2>3, SMT DEF Second
    <3>3. \A k \in 1..width : Get(k) \in Byte
      BY <2>1, <2>2, <2>3, <3>2 DEF Byte
    <3>4. bytes \in Seq(Byte) /\ Len(bytes) = width
      <4> HIDE DEF width
      <4> QED
        BY <2>2, <3>3
    <3>5. bytes[1] = Get(1) /\ bytes[2] = Get(2) /\ \A k \in 3..width : bytes[k] = Get(k)
      <4> HIDE DEF width
      <4> QED
        BY <2>2
    <3>6. Fits(bytes, 0, width)
      BY <2>1, <2>2, <2>3, <3>4, <3>5, Zenon, SMT DEF Fits
    <3>7. Whole(bytes)
      BY <2>2, <3>4, <3>6 DEF Whole
    <3> QED
      BY <2>1, <3>1, <3>7
  <2>4. CASE ~(Get(2) \in Second(Get(1)) /\ \A k \in 3..width : Get(k) \in 128..191)
    BY <1>4, <2>4 DEF ScanCharacter
  <2> QED
    BY <2>3, <2>4
<1>5. CASE ScanEscape
  <2>1. CASE Get(2) \in DOMAIN Escaped
    <3>1. Escaped[Get(2)] \in 0..127
      BY <2>1, SMT DEF Escaped
    <3> QED
      BY <1>1, <1>5, <2>1, <3>1 DEF ScanEscape
  <2> QED
    BY <1>5, <2>1 DEF ScanEscape
<1>6. CASE ScanUnicode
  <2> DEFINE first == GetCodepoint(2)
             second == GetCodepoint(8)
  <2>0. first = Eof \/ first \in Unit
    BY CodepointRange
  <2>1. CASE first # Eof /\ ~Low(first) /\ ~High(first)
    <3>1. first \in Int /\ IsScalar(first)
      BY <2>0, <2>1, UnitScalar
    <3>2. Scanning /\ Adds(6, Utf8(first))
      BY <1>6, <2>1 DEF ScanUnicode
    <3> QED
      BY <1>2, <3>1, <3>2
  <2>2. CASE first # Eof /\ ~Low(first) /\ High(first) /\ Low(second)
    <3>1. Combined(first, second) \in Int /\ IsScalar(Combined(first, second))
      <4>1. GetCodepoint(8) = Eof \/ GetCodepoint(8) \in Unit
        BY CodepointRange
      <4>2. Eof \in Int /\ \A u \in Unit : u \in Int
        BY SMT DEF Unit, Eof
      <4>3. first \in Int /\ second \in Int
        BY <2>0, <4>1, <4>2, Zenon
      <4> QED
        BY <2>2, <4>3, CombinedScalar
    <3>2. ParseError \/ (Scanning /\ Adds(12, Utf8(Combined(first, second))))
      BY <1>6, <2>2 DEF ScanUnicode
    <3> QED
      BY <1>2, <3>1, <3>2
  <2> QED
    BY <1>6, <2>1, <2>2 DEF ScanUnicode
<1>7. CASE ScanBad
  BY <1>7 DEF ScanBad
<1> QED
  BY <1>3, <1>4, <1>5, <1>6, <1>7

\* Nothing is in the buffer at first.
LEMMA BufferInit == Init => BufferInv
<1> SUFFICES ASSUME Init PROVE BufferInv
  OBVIOUS
<1>1. s \in Seq(Byte)
  <2>1. s = <<>> \/ s \in Stored
    BY Zenon DEF Init
  <2>2. <<>> \in Seq(Byte)
    OBVIOUS
  <2>3. \A x \in Stored : x \in Seq(Byte)
    BY StoredAssumption, Zenon DEF Byte
  <2> QED
    BY <2>1, <2>2, <2>3, Zenon
<1>2. Left(0) = 0 /\ 0 \in States
  BY DEF Left, States
<1> QED
  BY <1>1, <1>2, BufferAssumption DEF Init, BufferInv, Typed, ACCEPT

\* A character that ends leaves room in the buffer for the next.
LEMMA DumpAcceptStep == BufferInv /\ DumpAccept => BufferInv'
<1> SUFFICES ASSUME BufferInv, DumpAccept PROVE BufferInv'
  OBVIOUS
<1>0. Typed
  BY DEF BufferInv
<1>1. current \in Byte /\ i + 1 \in 0..Len(s)
  BY <1>0 DEF DumpAccept, Reading, Typed, current
<1> DEFINE c == Coded(state, codepoint, current)
           d == Dumped(c, current)
           buffer == string_buffer \o d
<1>2. c \in Int
  BY <1>0, <1>1, CodedInt DEF Typed
<1>3. d \in Seq(Int) /\ Nul(c) \in 0..1
      /\ Len(d) + Nul(c) <= IF ensure_ascii THEN 13 ELSE 7
  BY <1>0, <1>1, <1>2, DumpedFits DEF Typed
<1>4. /\ Flushes(buffer) /\ touched' = Len(buffer) + Nul(c) /\ codepoint' = c
      /\ state' = 0 /\ i' = i + 1 /\ undumped_chars' = 0
      /\ UNCHANGED <<phase, token_buffer, ensure_ascii, s>>
  BY Zenon DEF DumpAccept, ACCEPT, scanVars, options
<1> HIDE DEF c, d
<1>5. buffer \in Seq(Int) /\ Len(buffer) = Len(string_buffer) + Len(d)
  BY <1>0, <1>3, Concatenated DEF Typed
<1> HIDE DEF buffer
<1>6. /\ string_buffer' \in Seq(Int)
      /\ bytes_after_last_accept' = Len(string_buffer')
      /\ bytes_after_last_accept' + 13 <= BufferSize
  BY <1>4, <1>5, FlushesLeaveRoom
<1>7. Left(0) = 0 /\ 0 \in States
  BY DEF Left, States
<1>8. undumped_chars <= 3
  BY <1>0, SMT DEF BufferInv, Left, Typed, States
<1>9. touched' \in Nat /\ touched' <= BufferSize
  <2>1. Len(string_buffer) \in Nat /\ Len(d) \in Nat
    BY <1>0, <1>3 DEF Typed
  <2>2. bytes_after_last_accept + 13 <= BufferSize
        /\ Len(string_buffer) =
             bytes_after_last_accept + (IF ensure_ascii THEN 0 ELSE undumped_chars)
    BY DEF BufferInv
  <2>3. bytes_after_last_accept \in Nat /\ undumped_chars \in Nat /\ BufferSize \in Nat
    BY <1>0, <2>1, BufferAssumption DEF Typed
  <2>4. touched' = Len(string_buffer) + Len(d) + Nul(c) /\ Nul(c) \in 0..1
    BY <1>3, <1>4, <1>5
  <2>5. CASE ensure_ascii
    <3>1. Len(string_buffer) + 13 <= BufferSize /\ Len(d) + Nul(c) <= 13
      BY <1>3, <2>1, <2>2, <2>3, <2>5
    <3> QED
      BY <2>1, <2>3, <2>4, <3>1
  <2>6. CASE ~ensure_ascii
    <3>1. Len(string_buffer) + 10 <= BufferSize /\ Len(d) + Nul(c) <= 7
      BY <1>3, <1>8, <2>1, <2>2, <2>3, <2>6
    <3> QED
      BY <2>1, <2>3, <2>4, <3>1
  <2> QED
    BY <2>5, <2>6
<1>10. Typed'
  <2>1. bytes_after_last_accept' \in 0..Len(string_buffer')
    BY <1>6
  <2> QED
    BY <1>0, <1>1, <1>2, <1>4, <1>6, <1>7, <1>9, <2>1 DEF Typed
<1>11. phase' = "dump"
  BY <1>4 DEF DumpAccept, Reading
<1> QED
  BY <1>4, <1>6, <1>7, <1>9, <1>10, <1>11 DEF BufferInv

\* A byte in the middle of a character has room in the buffer.
LEMMA DumpIncompleteStep == BufferInv /\ DumpIncomplete => BufferInv'
<1> SUFFICES ASSUME BufferInv, DumpIncomplete PROVE BufferInv'
  OBVIOUS
<1>0. Typed
  BY DEF BufferInv
<1>1. current \in Byte /\ i + 1 \in 0..Len(s)
  BY <1>0 DEF DumpIncomplete, Reading, Typed, current
<1>2. /\ moved \in States /\ moved # 0
      /\ state # 0 => Left(moved) = Left(state) - 1
  BY <1>0, TypeOfByte, MovesForward DEF DumpIncomplete, moved, Typed, ACCEPT, REJECT
<1>3. Coded(state, codepoint, current) \in Int
  BY <1>0, <1>1, CodedInt DEF Typed
<1>4. /\ string_buffer' \in Seq(Int)
      /\ Len(string_buffer') = Len(string_buffer) + (IF ensure_ascii THEN 0 ELSE 1)
  BY <1>0, <1>1 DEF DumpIncomplete, Typed, Byte
<1>5. \A st \in States : Left(st) \in 0..3 /\ (st # 0 => Left(st) >= 1)
  BY SMT DEF Left, States
<1>6. undumped_chars' = undumped_chars + 1 /\ undumped_chars' + Left(state') <= 4
  <2>1. undumped_chars' = undumped_chars + 1 /\ state' = moved
    BY DEF DumpIncomplete
  <2>2. undumped_chars \in Nat /\ state \in States
        /\ (state = 0 => undumped_chars = 0) /\ undumped_chars + Left(state) <= 4
    BY DEF BufferInv, Typed
  <2>3. Left(moved) \in 0..3 /\ Left(state) \in 0..3
    BY <1>2, <1>5, <2>2
  <2>4. CASE state = 0
    BY <2>1, <2>2, <2>3, <2>4
  <2>5. CASE state # 0
    BY <1>2, <2>1, <2>2, <2>3, <2>5
  <2> QED
    BY <2>4, <2>5
<1>7. undumped_chars' <= 3 /\ state' # 0
  BY <1>0, <1>2, <1>5, <1>6 DEF DumpIncomplete, Typed
<1>8. Len(string_buffer') =
        bytes_after_last_accept' + (IF ensure_ascii' THEN 0 ELSE undumped_chars')
  BY <1>0, <1>4 DEF DumpIncomplete, BufferInv, Typed, options
<1>9. touched' \in Nat /\ touched' <= BufferSize
  <2>1. touched' = Len(string_buffer') /\ bytes_after_last_accept' = bytes_after_last_accept
        /\ ensure_ascii' = ensure_ascii /\ undumped_chars' = undumped_chars + 1
    BY DEF DumpIncomplete, options
  <2>2. undumped_chars \in Nat /\ bytes_after_last_accept \in Nat
        /\ bytes_after_last_accept + 13 <= BufferSize
    BY DEF BufferInv, Typed
  <2>3. Len(string_buffer') <= bytes_after_last_accept + 3
    BY <1>7, <1>8, <2>1, <2>2
  <2> QED
    BY <1>4, <2>1, <2>2, <2>3, BufferAssumption
<1>10. Typed'
  BY <1>0, <1>1, <1>2, <1>3, <1>4, <1>9 DEF DumpIncomplete, Typed, scanVars, options
<1> QED
  BY <1>0, <1>6, <1>7, <1>8, <1>9, <1>10 DEF DumpIncomplete, BufferInv, Typed, options, Reading

\* A step that leaves the dump alone, and scans bytes.
LEMMA DumpAlone ==
    ASSUME BufferInv, UNCHANGED dumpVars, UNCHANGED options,
           token_buffer' \in Seq(Byte),
           phase' \in {"scan", "dump", "reread", "read", "parse_error", "type_error"},
           phase' = "scan" => phase = "scan"
    PROVE  BufferInv'
BY DEF BufferInv, Typed, dumpVars, options

\* So has what stands for a byte that is rejected.
LEMMA DumpRejectStep == BufferInv /\ DumpReject => BufferInv'
<1> SUFFICES ASSUME BufferInv, DumpReject PROVE BufferInv'
  OBVIOUS
<1>0. Typed
  BY DEF BufferInv
<1>1. CASE error_handler = "strict"
  BY <1>0, <1>1, DumpAlone DEF DumpReject, TypeError, Typed, scanVars
<1>2. CASE error_handler # "strict"
  <2>1. current \in Byte /\ i \in 0..Len(s) /\ i + 1 \in 0..Len(s)
    BY <1>0 DEF DumpReject, Reading, Typed, current
  <2>2. Coded(state, codepoint, current) \in Int
    BY <1>0, <2>1, CodedInt DEF Typed
  <2>3. /\ state' = 0 /\ i' = Reread /\ undumped_chars' = 0
        /\ codepoint' = Coded(state, codepoint, current)
        /\ UNCHANGED <<phase, token_buffer, ensure_ascii, s>>
        /\ \/ /\ Flushes(Accepted \o Replacement)
              /\ touched' = Len(Accepted \o Replacement)
           \/ /\ string_buffer' = Accepted /\ touched' = 0
              /\ UNCHANGED bytes_after_last_accept
    BY <1>2, Zenon DEF DumpReject, ACCEPT, scanVars, options
  <2>4. Accepted \in Seq(Int) /\ Len(Accepted) = bytes_after_last_accept
    BY <1>0, AcceptedBytes
  <2>5. Accepted \o Replacement \in Seq(Int)
        /\ Len(Accepted \o Replacement) = Len(Accepted) + Len(Replacement)
    BY <2>4, ReplacementInts, Concatenated, Zenon
  <2>6. bytes_after_last_accept \in Nat /\ bytes_after_last_accept + 13 <= BufferSize
    BY DEF BufferInv, Typed
  <2>7. Len(Accepted \o Replacement) \in Nat /\ Len(Accepted \o Replacement) <= BufferSize
    <3> DEFINE len == Len(Accepted \o Replacement)
    <3>1. len = bytes_after_last_accept + 6 \/ len = bytes_after_last_accept + 3
      BY <2>4, <2>5, ReplacementInts, Zenon
    <3> HIDE DEF len
    <3>2. len \in Nat /\ len <= BufferSize
      BY <2>6, <3>1, BufferAssumption
    <3> QED
      BY <3>2 DEF len
  <2>8. i' \in 0..Len(s)
    BY <2>1, <2>3 DEF Reread
  <2>9. /\ string_buffer' \in Seq(Int)
        /\ bytes_after_last_accept' = Len(string_buffer')
        /\ bytes_after_last_accept' + 13 <= BufferSize
        /\ touched' \in Nat /\ touched' <= BufferSize
    <3>1. CASE Flushes(Accepted \o Replacement) /\ touched' = Len(Accepted \o Replacement)
      BY <2>5, <2>7, <3>1, FlushesLeaveRoom
    <3>2. CASE string_buffer' = Accepted /\ touched' = 0 /\ UNCHANGED bytes_after_last_accept
      BY <2>4, <2>6, <3>2, BufferAssumption
    <3> QED
      BY <2>3, <3>1, <3>2
  <2>10. Left(0) = 0 /\ 0 \in States
    BY DEF Left, States
  <2>11. bytes_after_last_accept' \in 0..Len(string_buffer')
    BY <2>9
  <2>12. Typed'
    BY <1>0, <2>2, <2>3, <2>8, <2>9, <2>10, <2>11 DEF Typed
  <2>13. phase' = "dump"
    BY <2>3 DEF DumpReject, Reading
  <2> QED
    BY <2>3, <2>9, <2>10, <2>12, <2>13 DEF BufferInv
<1> QED
  BY <1>1, <1>2

\* So has what stands for a character that is cut off.
LEMMA DumpEndStep == BufferInv /\ DumpEnd => BufferInv'
<1> SUFFICES ASSUME BufferInv, DumpEnd PROVE BufferInv'
  OBVIOUS
<1>1. <<>> \in Seq(Byte)
  OBVIOUS
<1>2. /\ UNCHANGED <<ensure_ascii, s, i, state, codepoint, string_buffer,
                     bytes_after_last_accept, undumped_chars, touched>>
      /\ phase' \in {"type_error", "reread"}
      /\ token_buffer' = token_buffer \/ token_buffer' = <<>>
  <2>1. CASE state # ACCEPT /\ error_handler = "strict"
    BY <2>1 DEF DumpEnd, TypeError, scanVars, options, dumpVars
  <2>2. CASE ~(state # ACCEPT /\ error_handler = "strict")
    BY <2>2 DEF DumpEnd, options
  <2> QED
    BY <2>1, <2>2
<1> QED
  BY <1>1, <1>2 DEF BufferInv, Typed

\* The closing quote touches no buffer.
LEMMA ScanCloseStep == BufferInv /\ ScanClose => BufferInv'
<1> SUFFICES ASSUME BufferInv, ScanClose PROVE BufferInv'
  OBVIOUS
<1>1. CASE phase = "reread"
  BY <1>1, DumpAlone DEF ScanClose, BufferInv, Typed, dumpVars
<1>2. CASE phase # "reread"
  <2>1. phase = "scan" /\ phase' = "dump" /\ s' = token_buffer
    BY <1>2 DEF ScanClose, Scanning
  <2>2. i' = 0 /\ i' \in 0..Len(s')
    BY <2>1 DEF ScanClose, BufferInv, Typed
  <2> QED
    BY <2>1, <2>2 DEF ScanClose, BufferInv, Typed, options
<1> QED
  BY <1>1, <1>2

\* Every step keeps the buffer within its size.
LEMMA BufferNext == BufferInv /\ [Next]_stringVars => BufferInv'
<1> SUFFICES ASSUME BufferInv, [Next]_stringVars PROVE BufferInv'
  OBVIOUS
<1>0. Typed
  BY DEF BufferInv
<1>1. CASE ScanPlain \/ ScanCharacter \/ ScanEscape \/ ScanUnicode \/ ScanBad
  <2>1. CASE ParseError
    BY <1>0, <2>1, DumpAlone DEF ParseError, Typed, scanVars
  <2>2. CASE Scanning /\ \E n, bytes : Whole(bytes) /\ Adds(n, bytes)
    <3>1. PICK n, bytes : Whole(bytes) /\ Adds(n, bytes)
      BY <2>2
    <3>2. token_buffer' \in Seq(Byte)
      BY <1>0, <3>1 DEF Whole, Adds, Typed
    <3> QED
      BY <1>0, <3>1, <3>2, DumpAlone DEF Adds, Typed
  <2> QED
    BY <1>1, <2>1, <2>2, ScanStep
<1>2. CASE UNCHANGED stringVars
  BY <1>2 DEF stringVars, scanVars, options, dumpVars, BufferInv, Typed
<1> QED
  BY <1>1, <1>2, DumpAcceptStep, DumpIncompleteStep, DumpRejectStep, DumpEndStep, ScanCloseStep
  DEF Next

\* Types hold of strings of every length and content (StringTypeOK).
THEOREM StringTypeCorrect == Spec => []StringTypeOK
<1>1. BufferInv => StringTypeOK
  <2>1. \A st \in States : Left(st) \in 0..3 /\ (st # 0 => Left(st) >= 1)
    BY SMT DEF Left, States
  <2>2. ASSUME BufferInv PROVE undumped_chars \in 0..3
    <3>1. state \in States /\ undumped_chars \in Nat /\ undumped_chars + Left(state) <= 4
          /\ (state = 0 => undumped_chars = 0)
      BY <2>2 DEF BufferInv, Typed
    <3>2. Left(state) \in 0..3 /\ (state # 0 => Left(state) >= 1)
      BY <2>1, <3>1
    <3> QED
      BY <3>1, <3>2
  <2> QED
    BY <2>2 DEF BufferInv, Typed, StringTypeOK, States, ACCEPT
<1> QED
  BY <1>1, BufferInit, BufferNext, PTL DEF Spec

\* string_buffer is never overrun, as dump_escaped's comments claim, with any buffer of 13 bytes

\* or more (BufferFits).
THEOREM BufferNeverOverrun == Spec => []BufferFits
<1>1. BufferInv => BufferFits
  BY DEF BufferInv, BufferFits
<1> QED
  BY <1>1, BufferInit, BufferNext, PTL DEF Spec
-----------------------------------------------------------------------------
(* What was scanned is dumped.                                             *)

\* Places where t can be cut into characters: one follows the other, from 0 to the end.
Cut(t, cuts) ==
    /\ cuts \subseteq 0..Len(t) /\ 0 \in cuts /\ Len(t) \in cuts
    /\ \A n \in cuts : n # Len(t) => \E w \in 1..4 : Fits(t, n, w) /\ n + w \in cuts

\* The automaton's state, k bytes into a character of w bytes that begins with b.
At(b, w, k) == IF k = 1 THEN Begins[Type(b) + 1] ELSE IF w = k + 1 THEN 2 ELSE 3

\* It is where the bytes since the last cut lead.
Tracks ==
    \E cuts : \E n \in cuts :
      /\ Cut(s, cuts)
      /\ \/ n = i /\ state = 0
         \/ \E w \in 2..4 :
              /\ Fits(s, n, w) /\ n + w \in cuts
              /\ n < i /\ i < n + w /\ state = At(s[n + 1], w, i - n)

ParseInv ==
    /\ phase = "scan" => state = 0 /\ \E cuts : Cut(token_buffer, cuts)
    /\ phase = "dump" /\ meant # <<>> => Tracks
    /\ phase = "type_error" => meant = <<>>

\* The same bytes at another place fit there.
LEMMA FitsSame ==
    ASSUME NEW t, NEW u, NEW n \in Nat, NEW m \in Nat, NEW w \in 1..4,
           Fits(t, n, w), m + w <= Len(u), \A k \in 1..w : u[m + k] = t[n + k]
    PROVE  Fits(u, m, w)
<1>0. 1 \in 1..w
  OBVIOUS
<1>1. u[m + 1] = t[n + 1]
  BY <1>0, Zenon
<1>2. CASE t[n + 1] \in 0..127 /\ w = 1
  BY <1>1, <1>2 DEF Fits
<1>3. CASE ~(t[n + 1] \in 0..127 /\ w = 1)
  <2>1. /\ t[n + 1] \in 194..244 /\ w = Width(t[n + 1]) /\ t[n + 2] \in Second(t[n + 1])
        /\ \A k \in 3..w : t[n + k] \in 128..191
    BY <1>3, Zenon DEF Fits
  <2>2. 2 \in 1..w
    <3>1. w >= 2
      BY <2>1, SMT DEF Width
    <3> QED
      BY <3>1
  <2>3. u[m + 2] = t[n + 2]
    BY <2>2, Zenon
  <2>4. u[m + 1] \in 194..244 /\ w = Width(u[m + 1]) /\ u[m + 2] \in Second(u[m + 1])
    BY <1>1, <2>1, <2>3, ZenonT(60)
  <2>5. ASSUME NEW k \in 3..w PROVE u[m + k] \in 128..191
    <3>1. k \in 1..w
      OBVIOUS
    <3>2. u[m + k] = t[n + k] /\ t[n + k] \in 128..191
      BY <2>1, <3>1, ZenonT(60)
    <3> QED
      BY <3>2, Zenon
  <2> QED
    BY <2>4, <2>5, Zenon DEF Fits
<1> QED
  BY <1>2, <1>3

\* A text cut into whole characters, with one more behind it, is so cut again.
LEMMA CutAppend ==
    ASSUME NEW t \in Seq(Byte), NEW cuts, Cut(t, cuts), NEW b, Whole(b)
    PROVE  Cut(t \o b, cuts \cup {Len(t) + Len(b)})
<1> DEFINE u == t \o b
           l == Len(t)
           m == Len(b)
<1>1. /\ b \in Seq(Byte) /\ l \in Nat /\ m \in 1..4 /\ Len(u) = l + m
      /\ \A k \in 1..l : u[k] = t[k]
      /\ \A k \in 1..m : u[l + k] = b[k]
  BY DEF Whole
<1>2. Fits(b, 0, m)
  BY DEF Whole
<1>3. /\ cuts \subseteq 0..l /\ 0 \in cuts /\ l \in cuts
      /\ \A n \in cuts : n # l => \E w \in 1..4 : Fits(t, n, w) /\ n + w \in cuts
  BY DEF Cut
<1>4. ASSUME NEW n \in 0..l, NEW w \in 1..4, Fits(t, n, w) PROVE Fits(u, n, w)
  <2>1. n + w <= l
    BY <1>4, Zenon DEF Fits
  <2> HIDE DEF u, l, m
  <2>2. (\A k \in 1..w : u[n + k] = t[n + k]) /\ n + w <= Len(u) /\ n \in Nat
    BY <1>1, <2>1
  <2> QED
    BY <1>4, <2>2, FitsSame
<1>5. Fits(u, l, m)
  <2> HIDE DEF u, l, m
  <2>1. (\A k \in 1..m : u[l + k] = b[0 + k]) /\ l + m <= Len(u) /\ 0 \in Nat
    BY <1>1
  <2> QED
    BY <1>1, <1>2, <2>1, FitsSame, Zenon
<1> HIDE DEF u, l, m
<1>6. \A n \in cuts \cup {l + m} : n # l + m =>
        \E w \in 1..4 : Fits(u, n, w) /\ n + w \in cuts \cup {l + m}
  <2> SUFFICES ASSUME NEW n \in cuts, n # l + m
               PROVE  \E w \in 1..4 : Fits(u, n, w) /\ n + w \in cuts \cup {l + m}
    OBVIOUS
  <2>1. CASE n = l
    BY <1>1, <1>5, <2>1
  <2>2. CASE n # l
    <3>1. PICK w \in 1..4 : Fits(t, n, w) /\ n + w \in cuts
      BY <1>3, <2>2
    <3>2. n \in 0..l
      BY <1>3
    <3> QED
      BY <1>4, <3>1, <3>2
  <2> QED
    BY <2>1, <2>2
<1>7. Cut(u, cuts \cup {l + m})
  <2>1. cuts \cup {l + m} \subseteq 0..Len(u)
    BY <1>1, <1>3
  <2> QED
    BY <1>1, <1>3, <1>6, <2>1 DEF Cut
<1> QED
  BY <1>7 DEF u, l, m

\* Bytes below 128 have the first type.
LEMMA TypeOfPlain == ASSUME NEW b \in 0..127 PROVE Type(b) = 0
<1>1. b \in Int /\ 0 <= b /\ b <= 127
  OBVIOUS
<1> QED
  BY <1>1, SMT DEF Type

\* Where a byte that begins a character leads.
LEMMA Lead ==
    ASSUME NEW b \in 194..244
    PROVE  /\ b <= 223 => Begins[Type(b) + 1] = 2 /\ Width(b) = 2 /\ Second(b) = 128..191
           /\ b = 224 => Begins[Type(b) + 1] = 4 /\ Width(b) = 3 /\ Second(b) = 160..191
           /\ b \in 225..239 /\ b # 237 =>
                Begins[Type(b) + 1] = 3 /\ Width(b) = 3 /\ Second(b) = 128..191
           /\ b = 237 => Begins[Type(b) + 1] = 5 /\ Width(b) = 3 /\ Second(b) = 128..159
           /\ b = 240 => Begins[Type(b) + 1] = 6 /\ Width(b) = 4 /\ Second(b) = 144..191
           /\ b \in 241..243 => Begins[Type(b) + 1] = 7 /\ Width(b) = 4 /\ Second(b) = 128..191
           /\ b = 244 => Begins[Type(b) + 1] = 8 /\ Width(b) = 4 /\ Second(b) = 128..143
<1>1. /\ Begins[2 + 1] = 2 /\ Begins[10 + 1] = 4 /\ Begins[3 + 1] = 3 /\ Begins[4 + 1] = 5
      /\ Begins[11 + 1] = 6 /\ Begins[6 + 1] = 7 /\ Begins[5 + 1] = 8
  BY DEF Begins
<1>2. CASE b <= 223
  BY <1>1, <1>2 DEF Type, Width, Second
<1>3. CASE b = 224
  BY <1>1, <1>3 DEF Type, Width, Second
<1>4. CASE b \in 225..239 /\ b # 237
  BY <1>1, <1>4 DEF Type, Width, Second
<1>5. CASE b = 237
  BY <1>1, <1>5 DEF Type, Width, Second
<1>6. CASE b = 240
  BY <1>1, <1>6 DEF Type, Width, Second
<1>7. CASE b \in 241..243
  BY <1>1, <1>7 DEF Type, Width, Second
<1>8. CASE b = 244
  BY <1>1, <1>8 DEF Type, Width, Second
<1> QED
  BY <1>2, <1>3, <1>4, <1>5, <1>6, <1>7, <1>8

\* The state that a leading byte leads to, and how long its character is.
LEMMA LeadBounds ==
    ASSUME NEW b \in 194..244
    PROVE  Begins[Type(b) + 1] \in 2..8 /\ Width(b) \in 2..4
<1> DEFINE st == Begins[Type(b) + 1]
           w == Width(b)
<1>1. \/ b <= 223 \/ b = 224 \/ (b \in 225..239 /\ b # 237) \/ b = 237
      \/ b = 240 \/ b \in 241..243 \/ b = 244
  OBVIOUS
<1>2. \/ st = 2 /\ w = 2
      \/ st = 4 /\ w = 3
      \/ st = 3 /\ w = 3
      \/ st = 5 /\ w = 3
      \/ st = 6 /\ w = 4
      \/ st = 7 /\ w = 4
      \/ st = 8 /\ w = 4
  BY <1>1, Lead
<1> HIDE DEF st, w
<1>3. st \in 2..8 /\ w \in 2..4
  BY <1>2
<1> QED
  BY <1>3 DEF st, w

\* x may be the byte after the first k of a character that begins with b.
MayCome(b, k, x) == IF k = 1 THEN x \in Second(b) ELSE x \in 128..191

\* The state after it.
Then(b, w, k) == IF k + 1 = w THEN 0 ELSE At(b, w, k + 1)

\* A byte that may come next leads on, or to the end of the character.
LEMMA Follows ==
    ASSUME NEW b \in 194..244, NEW w, w = Width(b), NEW k \in 1..3, k < w,
           NEW x, MayCome(b, k, x)
    PROVE  Moves(At(b, w, k), Type(x)) = Then(b, w, k)
<1> USE DEF Then
<1>1. CASE k # 1
  <2>0. x \in 128..191
    BY <1>1 DEF MayCome
  <2>1. Moves(2, Type(x)) = 0 /\ Moves(3, Type(x)) = 2
    BY <2>0, SMT DEF Moves, Type
  <2>2. w \in 2..4
    BY SMT DEF Width
  <2>3. CASE w = k + 1
    <3>1. At(b, w, k) = 2
      BY <1>1, <2>3 DEF At
    <3> QED
      BY <2>1, <2>3, <3>1
  <2>4. CASE w # k + 1
    <3>1. k = 2 /\ w = 4
      BY <1>1, <2>2, <2>4
    <3>2. At(b, w, k) = 3 /\ At(b, w, k + 1) = 2
      BY <3>1 DEF At
    <3> QED
      BY <2>1, <2>4, <3>2
  <2> QED
    BY <2>3, <2>4
<1>2. CASE k = 1
  <2>1. At(b, w, 1) = Begins[Type(b) + 1] /\ x \in Second(b)
    BY <1>2 DEF At, MayCome
  <2>2. (w = 3 => At(b, w, 2) = 2) /\ (w = 4 => At(b, w, 2) = 3)
    BY DEF At
  <2>3. ASSUME NEW st, At(b, w, 1) = st, w \in 2..4,
               Moves(st, Type(x)) = IF w = 2 THEN 0 ELSE IF w = 3 THEN 2 ELSE 3
        PROVE  Moves(At(b, w, k), Type(x)) = IF k + 1 = w THEN 0 ELSE At(b, w, k + 1)
    BY <1>2, <2>2, <2>3
  <2>4. CASE b <= 223
    <3>1. At(b, w, 1) = 2 /\ w = 2 /\ x \in 128..191
      BY <2>1, <2>4, Lead
    <3>2. Moves(2, Type(x)) = 0
      BY <3>1, SMT DEF Moves, Type
    <3> QED
      BY <2>3, <3>1, <3>2
  <2>5. CASE b = 224
    <3>1. At(b, w, 1) = 4 /\ w = 3 /\ x \in 160..191
      BY <2>1, <2>5, Lead
    <3>2. Moves(4, Type(x)) = 2
      BY <3>1, SMT DEF Moves, Type
    <3> QED
      BY <2>3, <3>1, <3>2
  <2>6. CASE b \in 225..239 /\ b # 237
    <3>1. At(b, w, 1) = 3 /\ w = 3 /\ x \in 128..191
      BY <2>1, <2>6, Lead
    <3>2. Moves(3, Type(x)) = 2
      BY <3>1, SMT DEF Moves, Type
    <3> QED
      BY <2>3, <3>1, <3>2
  <2>7. CASE b = 237
    <3>1. At(b, w, 1) = 5 /\ w = 3 /\ x \in 128..159
      BY <2>1, <2>7, Lead
    <3>2. Moves(5, Type(x)) = 2
      BY <3>1, SMT DEF Moves, Type
    <3> QED
      BY <2>3, <3>1, <3>2
  <2>8. CASE b = 240
    <3>1. At(b, w, 1) = 6 /\ w = 4 /\ x \in 144..191
      BY <2>1, <2>8, Lead
    <3>2. Moves(6, Type(x)) = 3
      BY <3>1, SMT DEF Moves, Type
    <3> QED
      BY <2>3, <3>1, <3>2
  <2>9. CASE b \in 241..243
    <3>1. At(b, w, 1) = 7 /\ w = 4 /\ x \in 128..191
      BY <2>1, <2>9, Lead
    <3>2. Moves(7, Type(x)) = 3
      BY <3>1, SMT DEF Moves, Type
    <3> QED
      BY <2>3, <3>1, <3>2
  <2>10. CASE b = 244
    <3>1. At(b, w, 1) = 8 /\ w = 4 /\ x \in 128..143
      BY <2>1, <2>10, Lead
    <3>2. Moves(8, Type(x)) = 3
      BY <3>1, SMT DEF Moves, Type
    <3> QED
      BY <2>3, <3>1, <3>2
  <2> QED
    BY <2>4, <2>5, <2>6, <2>7, <2>8, <2>9, <2>10
<1> QED
  BY <1>1, <1>2

\* One byte on, the automaton is still where the bytes since the last cut lead.
LEMMA TracksOn ==
    ASSUME Typed, Tracks, i < Len(s)
    PROVE  /\ moved # REJECT
           /\ state' = moved /\ i' = i + 1 /\ UNCHANGED s => Tracks'
<1>1. PICK cuts : \E n \in cuts :
        /\ Cut(s, cuts)
        /\ \/ n = i /\ state = 0
           \/ \E w \in 2..4 :
                /\ Fits(s, n, w) /\ n + w \in cuts
                /\ n < i /\ i < n + w /\ state = At(s[n + 1], w, i - n)
  BY DEF Tracks
<1>2. PICK n \in cuts :
        /\ Cut(s, cuts)
        /\ \/ n = i /\ state = 0
           \/ \E w \in 2..4 :
                /\ Fits(s, n, w) /\ n + w \in cuts
                /\ n < i /\ i < n + w /\ state = At(s[n + 1], w, i - n)
  BY <1>1
<1>3. n \in Nat /\ n \in 0..Len(s) /\ i \in Nat /\ Len(s) \in Nat
  BY <1>2 DEF Cut, Typed
<1>4. CASE n = i /\ state = 0
  <2>1. PICK w \in 1..4 : Fits(s, n, w) /\ n + w \in cuts
    BY <1>2, <1>4 DEF Cut
  <2>2. current = s[n + 1]
    BY <1>4 DEF current
  <2>3. moved = Begins[Type(current) + 1]
    BY <1>4 DEF moved, Moves
  <2>4. CASE current \in 0..127 /\ w = 1
    <3>1. Type(current) = 0
      BY <2>4, TypeOfPlain
    <3>2. moved = 0
      BY <2>3, <3>1 DEF Begins
    <3>3. ASSUME state' = moved, i' = i + 1, UNCHANGED s PROVE Tracks'
      <4>1. n + 1 \in cuts /\ n + 1 = i' /\ state' = 0 /\ Cut(s', cuts)
        BY <1>2, <1>4, <2>1, <2>4, <3>2, <3>3
      <4> QED
        BY <4>1 DEF Tracks
    <3> QED
      BY <3>2, <3>3 DEF REJECT
  <2>5. CASE ~(current \in 0..127 /\ w = 1)
    <3>1. current \in 194..244 /\ w = Width(current)
      BY <2>1, <2>2, <2>5, Zenon DEF Fits
    <3>2. moved \in 2..8 /\ w \in 2..4
      BY <2>3, <3>1, LeadBounds, Zenon
    <3>3. moved = At(current, w, 1)
      BY <2>3 DEF At
    <3>4. ASSUME state' = moved, i' = i + 1, UNCHANGED s PROVE Tracks'
      <4>1. Cut(s', cuts) /\ Fits(s', n, w) /\ n + w \in cuts
            /\ state' = At(s'[n + 1], w, 1)
        BY <1>2, <2>1, <2>2, <3>3, <3>4
      <4>2. i' - n = 1 /\ n < i' /\ i' < n + w
        BY <1>3, <1>4, <3>2, <3>4
      <4> QED
        BY <3>2, <4>1, <4>2 DEF Tracks
    <3> QED
      BY <3>2, <3>4 DEF REJECT
  <2> QED
    BY <2>4, <2>5
<1>5. CASE ~(n = i /\ state = 0)
  <2>1. PICK w \in 2..4 :
          /\ Fits(s, n, w) /\ n + w \in cuts
          /\ n < i /\ i < n + w /\ state = At(s[n + 1], w, i - n)
    BY <1>2, <1>5
  <2> DEFINE b == s[n + 1]
             k == i - n
  <2>2. k \in 1..3 /\ k < w /\ n + (k + 1) = i + 1
    BY <1>3, <2>1
  <2>3. /\ b \in 194..244 /\ w = Width(b) /\ s[n + 2] \in Second(b)
        /\ \A j \in 3..w : s[n + j] \in 128..191
    <3>1. ~(s[n + 1] \in 0..127 /\ w = 1)
      BY <2>1
    <3> QED
      BY <2>1, <3>1, Zenon DEF Fits
  <2>4. current = s[n + (k + 1)]
    BY <2>2 DEF current
  <2> HIDE DEF b, k
  <2>5. MayCome(b, k, current)
    <3>1. CASE k = 1
      <4>1. current = s[n + 2]
        BY <2>4, <3>1
      <4> QED
        BY <2>3, <3>1, <4>1 DEF MayCome
    <3>2. CASE k # 1
      <4>1. k + 1 \in 3..w
        BY <2>2, <3>2
      <4> QED
        BY <2>3, <2>4, <3>2, <4>1 DEF MayCome
    <3> QED
      BY <3>1, <3>2
  <2>6. moved = IF k + 1 = w THEN 0 ELSE At(b, w, k + 1)
    <3>1. moved = Moves(At(b, w, k), Type(current))
      BY <2>1 DEF moved, b, k
    <3>2. Moves(At(b, w, k), Type(current)) = Then(b, w, k)
      BY <2>2, <2>3, <2>5, Follows, Zenon
    <3> QED
      BY <3>1, <3>2 DEF Then
  <2>7. CASE k + 1 = w
    <3>1. moved = 0
      BY <2>6, <2>7
    <3>2. ASSUME state' = moved, i' = i + 1, UNCHANGED s PROVE Tracks'
      <4>1. n + w = i' /\ n + w \in cuts /\ state' = 0 /\ Cut(s', cuts)
        BY <1>2, <2>1, <2>2, <2>7, <3>1, <3>2
      <4> QED
        BY <4>1 DEF Tracks
    <3> QED
      BY <3>1, <3>2 DEF REJECT
  <2>8. CASE k + 1 # w
    <3>1. moved = At(b, w, k + 1)
      BY <2>6, <2>8
    <3>2. moved = 2 \/ moved = 3
      BY <2>2, <3>1 DEF At
    <3>3. ASSUME state' = moved, i' = i + 1, UNCHANGED s PROVE Tracks'
      <4>1. i' - n = k + 1 /\ n < i' /\ i' < n + w
        BY <1>3, <2>1, <2>2, <2>8, <3>3
      <4>2. /\ Cut(s', cuts) /\ Fits(s', n, w) /\ n + w \in cuts
            /\ state' = At(s'[n + 1], w, i' - n)
        BY <1>2, <2>1, <3>1, <3>3, <4>1 DEF b
      <4> QED
        BY <4>1, <4>2 DEF Tracks
    <3> QED
      BY <3>2, <3>3 DEF REJECT
  <2> QED
    BY <2>7, <2>8
<1> QED
  BY <1>4, <1>5

\* Between two characters, state is ACCEPT; the end is between two.
LEMMA TracksAtEnd == ASSUME Typed, Tracks, i = Len(s) PROVE state = 0
<1>1. PICK cuts : \E n \in cuts :
        /\ Cut(s, cuts)
        /\ \/ n = i /\ state = 0
           \/ \E w \in 2..4 :
                /\ Fits(s, n, w) /\ n + w \in cuts
                /\ n < i /\ i < n + w /\ state = At(s[n + 1], w, i - n)
  BY DEF Tracks
<1>2. PICK n \in cuts :
        /\ Cut(s, cuts)
        /\ \/ n = i /\ state = 0
           \/ \E w \in 2..4 : n + w \in cuts /\ i < n + w
  BY <1>1
<1>3. \A m \in cuts : m <= i
  BY <1>2 DEF Cut, Typed
<1>4. n \in Nat /\ i \in Nat
  BY <1>2 DEF Cut, Typed
<1>5. ASSUME NEW w \in 2..4, n + w \in cuts, i < n + w PROVE FALSE
  BY <1>3, <1>4, <1>5
<1> QED
  BY <1>2, <1>5

\* Nothing is parsed at first.
LEMMA ParseInit == Init => ParseInv
<1> SUFFICES ASSUME Init PROVE ParseInv
  OBVIOUS
<1>1. state = 0 /\ token_buffer = <<>>
  BY DEF Init, ACCEPT
<1>2. phase = "scan" \/ (phase = "dump" /\ meant = <<>>)
  BY Zenon DEF Init
<1>3. Cut(<<>>, {0})
  BY DEF Cut
<1> QED
  BY <1>1, <1>2, <1>3 DEF ParseInv

\* Every step keeps what is parsed in line with what was dumped.
LEMMA ParseNext == BufferInv /\ ParseInv /\ [Next]_stringVars => ParseInv'
<1> SUFFICES ASSUME BufferInv, ParseInv, [Next]_stringVars PROVE ParseInv'
  OBVIOUS
<1>0. Typed
  BY DEF BufferInv
<1>1. CASE ScanPlain \/ ScanCharacter \/ ScanEscape \/ ScanUnicode \/ ScanBad
  <2>1. CASE ParseError
    BY <2>1 DEF ParseInv, ParseError
  <2>2. CASE Scanning /\ \E n, bytes : Whole(bytes) /\ Adds(n, bytes)
    <3>1. PICK n, bytes : Whole(bytes) /\ Adds(n, bytes)
      BY <2>2
    <3>2. phase' = phase /\ phase \in {"scan", "reread"} /\ state' = state
          /\ token_buffer' = token_buffer \o bytes
      BY <2>2, <3>1 DEF Adds, Scanning, dumpVars
    <3>3. CASE phase = "scan"
      <4>1. PICK cuts : Cut(token_buffer, cuts)
        BY <3>3 DEF ParseInv
      <4>2. Cut(token_buffer', cuts \cup {Len(token_buffer) + Len(bytes)})
        BY <1>0, <3>1, <3>2, <4>1, CutAppend DEF Typed
      <4> QED
        BY <3>2, <3>3, <4>2 DEF ParseInv
    <3>4. CASE phase # "scan"
      BY <3>2, <3>4 DEF ParseInv
    <3> QED
      BY <3>3, <3>4
  <2> QED
    BY <1>1, <2>1, <2>2, ScanStep
<1>2. CASE ScanClose
  <2>1. CASE phase = "reread"
    BY <1>2, <2>1 DEF ScanClose, ParseInv
  <2>2. CASE phase # "reread"
    <3>1. phase = "scan" /\ phase' = "dump" /\ s' = token_buffer /\ state' = state /\ i' = i
      BY <1>2, <2>2 DEF ScanClose, Scanning
    <3>2. PICK cuts : Cut(token_buffer, cuts)
      BY <3>1 DEF ParseInv
    <3>3. Cut(s', cuts) /\ 0 \in cuts /\ i' = 0 /\ state' = 0
      BY <3>1, <3>2 DEF Cut, ParseInv, BufferInv
    <3>4. Tracks'
      BY <3>3 DEF Tracks
    <3> QED
      BY <3>1, <3>4 DEF ParseInv
  <2> QED
    BY <2>1, <2>2
<1>3. CASE DumpAccept \/ DumpIncomplete
  <2>1. /\ Reading /\ state' = moved /\ i' = i + 1
        /\ phase' = phase /\ s' = s /\ meant' = meant
    BY <1>3 DEF DumpAccept, DumpIncomplete
  <2>2. phase = "dump" /\ i < Len(s)
    BY <2>1 DEF Reading
  <2>3. meant # <<>> => Tracks'
    BY <1>0, <2>1, <2>2, TracksOn DEF ParseInv
  <2> QED
    BY <2>1, <2>2, <2>3 DEF ParseInv
<1>4. CASE DumpReject
  <2>1. phase = "dump" /\ i < Len(s) /\ moved = REJECT /\ meant' = meant
        /\ (phase' = "dump" \/ phase' = "type_error")
    BY <1>4 DEF DumpReject, Reading, TypeError
  <2>2. meant = <<>>
    BY <1>0, <2>1, TracksOn DEF ParseInv
  <2> QED
    BY <2>1, <2>2 DEF ParseInv
<1>5. CASE DumpEnd
  <2>1. CASE state # ACCEPT /\ error_handler = "strict"
    <3>1. phase = "dump" /\ i = Len(s) /\ phase' = "type_error" /\ meant' = meant
      BY <1>5, <2>1 DEF DumpEnd, TypeError
    <3>2. meant = <<>>
      BY <1>0, <2>1, <3>1, TracksAtEnd DEF ParseInv, ACCEPT
    <3> QED
      BY <3>1, <3>2 DEF ParseInv
  <2>2. CASE ~(state # ACCEPT /\ error_handler = "strict")
    BY <1>5, <2>2 DEF DumpEnd, ParseInv
  <2> QED
    BY <2>1, <2>2
<1>6. CASE UNCHANGED stringVars
  BY <1>6 DEF stringVars, scanVars, options, dumpVars, ParseInv, Tracks
<1> QED
  BY <1>1, <1>2, <1>3, <1>4, <1>5, <1>6 DEF Next

\* What the parser took can be dumped, whatever the text, its length and the handler: decode

\* accepts all that scan_string accepts and all that it makes of escapes (ParsedIsDumped).
THEOREM ParsedStringsDump == Spec => []ParsedIsDumped
<1>1. ParseInv => ParsedIsDumped
  BY DEF ParseInv, ParsedIsDumped
<1> QED
  BY <1>1, BufferInit, BufferNext, ParseInit, ParseNext, PTL DEF Spec

\* A nonempty set of natural numbers has a least element.
LEMMA LeastOf ==
    ASSUME NEW K \in SUBSET Nat, K # {}
    PROVE  \E x \in K : \A y \in K : x <= y
<1>1. PICK x \in K : \A y \in K : ~(<<y, x>> \in OpToRel(<, Nat))
  BY NatLessThanWellFounded, WFMin
<1>2. ASSUME NEW y \in K PROVE x <= y
  <2>1. <<y, x>> \in Nat \X Nat /\ ~(<<y, x>> \in OpToRel(<, Nat))
    BY <1>1
  <2>2. ~(y < x)
    BY <2>1 DEF OpToRel
  <2>3. x \in Nat /\ y \in Nat
    OBVIOUS
  <2> QED
    BY <2>2, <2>3
<1> QED
  BY <1>2

\* What Following gives for place n, from what g gives for the places after it.
Body(g, t, drop, n) ==
    LET k == CharacterAt(t, n)
        u == SubSeq(t, n, n + k - 1)
    IN IF n > Len(t) THEN <<>>
       ELSE IF k = 0 THEN g[n + 1]
       ELSE IF u \in drop THEN g[n + k]
       ELSE u \o g[n + k]

Unfolds(g, t, drop) == g = [n \in 1..(Len(t) + 1) |-> Body(g, t, drop, n)]

\* A character at a place is within the text.
LEMMA CharacterWithin ==
    ASSUME NEW t, Len(t) \in Nat, NEW n \in Nat
    PROVE  /\ CharacterAt(t, n) \in 0..4
           /\ CharacterAt(t, n) # 0 => n + CharacterAt(t, n) - 1 <= Len(t)
<1> DEFINE P(k) == n + k - 1 <= Len(t) /\ IsCharacter(SubSeq(t, n, n + k - 1))
<1>1. CASE \E k \in 1..4 : P(k)
  <2>1. PICK k \in 1..4 : k = CharacterAt(t, n) /\ P(k)
    BY <1>1, Zenon DEF CharacterAt
  <2> QED
    BY <2>1
<1>2. CASE ~\E k \in 1..4 : P(k)
  <2>1. CharacterAt(t, n) = 0
    BY <1>2, Zenon DEF CharacterAt
  <2> QED
    BY <2>1
<1> QED
  BY <1>1, <1>2

\* Places after n are all that its value depends on.
LEMMA BodyDepends ==
    ASSUME NEW t, Len(t) \in Nat, NEW drop, NEW n \in 1..(Len(t) + 1), NEW g, NEW h,
           \A k \in (n + 1)..(Len(t) + 1) : g[k] = h[k]
    PROVE  Body(g, t, drop, n) = Body(h, t, drop, n)
<1>1. PICK k : k = CharacterAt(t, n)
  OBVIOUS
<1>2. k \in 0..4 /\ (k # 0 => n + k - 1 <= Len(t))
  BY <1>1, CharacterWithin
<1>3. CASE n > Len(t)
  BY <1>3 DEF Body
<1>4. CASE ~(n > Len(t))
  <2>1. n + 1 \in (n + 1)..(Len(t) + 1) /\ (k # 0 => n + k \in (n + 1)..(Len(t) + 1))
    BY <1>2, <1>4
  <2>2. g[n + 1] = h[n + 1] /\ (k # 0 => g[n + k] = h[n + k])
    BY <2>1, Zenon
  <2> QED
    BY <1>1, <2>2, Zenon DEF Body
<1> QED
  BY <1>3, <1>4

\* g gives what Following should from place L + 1 - m of a text of L bytes on.
FollowsFrom(g, t, drop, m) ==
    \A n \in (Len(t) + 1 - m)..(Len(t) + 1) : g[n] = Body(g, t, drop, n)

\* There is such a function for every part of the text, one place after the other.
LEMMA FollowingExists ==
    ASSUME NEW t, Len(t) \in Nat, NEW drop
    PROVE  \A m \in 0..Len(t) : \E g : FollowsFrom(g, t, drop, m)
<1> DEFINE L == Len(t)
           K == {m \in 0..L : ~\E g : FollowsFrom(g, t, drop, m)}
<1>0. PICK l \in Nat : l = L
  OBVIOUS
<1> SUFFICES ASSUME K # {} PROVE FALSE
  OBVIOUS
<1>1. PICK m \in K : \A y \in K : m <= y
  <2>1. K \in SUBSET Nat
    BY <1>0
  <2> QED
    BY <2>1, LeastOf
<1>2. m \in 0..l /\ m \in Nat
  BY <1>0, <1>1
<1>3. \E h : \A n \in (l + 2 - m)..(l + 1) : h[n] = Body(h, t, drop, n)
  <2>1. CASE m = 0
    BY <1>0, <2>1
  <2>2. CASE m # 0
    <3>1. m - 1 \in 0..l /\ m - 1 \notin K
      BY <1>1, <1>2, <2>2
    <3>2. PICK h : FollowsFrom(h, t, drop, m - 1)
      BY <1>0, <3>1
    <3>3. l + 1 - (m - 1) = l + 2 - m
      BY <1>0, <1>2
    <3> QED
      BY <1>0, <3>2, <3>3 DEF FollowsFrom
  <2> QED
    BY <2>1, <2>2
<1>4. PICK h : \A n \in (l + 2 - m)..(l + 1) : h[n] = Body(h, t, drop, n)
  BY <1>3
<1>5. PICK z \in 1..(l + 1) : z = l + 1 - m
  BY <1>0, <1>2
<1>6. PICK b : b = Body(h, t, drop, z)
  OBVIOUS
<1> DEFINE g == [n \in 1..(l + 1) |-> IF n = z THEN b ELSE h[n]]
<1>7. g[z] = b /\ \A n \in (z + 1)..(l + 1) : g[n] = h[n]
  BY <1>0, <1>5
<1> HIDE DEF g
<1>8. ASSUME NEW n \in z..(l + 1) PROVE g[n] = Body(g, t, drop, n)
  <2>1. n \in 1..(Len(t) + 1) /\ \A k \in (n + 1)..(Len(t) + 1) : g[k] = h[k]
    BY <1>0, <1>5, <1>7, <1>8
  <2>2. Body(g, t, drop, n) = Body(h, t, drop, n)
    BY <1>0, <2>1, BodyDepends
  <2>3. CASE n = z
    BY <1>6, <1>7, <2>2, <2>3
  <2>4. CASE n # z
    <3>1. n \in (l + 2 - m)..(l + 1) /\ n \in (z + 1)..(l + 1)
      BY <1>2, <1>5, <1>8, <2>4
    <3> QED
      BY <1>4, <1>7, <2>2, <3>1
  <2> QED
    BY <2>3, <2>4
<1>9. FollowsFrom(g, t, drop, m)
  BY <1>0, <1>5, <1>8 DEF FollowsFrom
<1> QED
  BY <1>1, <1>9

\* So Following is what its definition says.
LEMMA FollowingUnfolds ==
    ASSUME NEW t, Len(t) \in Nat, NEW drop
    PROVE  \A n \in 1..(Len(t) + 1) :
             Following(t, drop)[n] = Body(Following(t, drop), t, drop, n)
<1>1. PICK g : FollowsFrom(g, t, drop, Len(t))
  BY FollowingExists
<1> DEFINE h == [n \in 1..(Len(t) + 1) |-> g[n]]
<1>2. \A n \in 1..(Len(t) + 1) : h[n] = g[n]
  OBVIOUS
<1>3. h = [n \in 1..(Len(t) + 1) |-> h[n]]
  OBVIOUS
<1> HIDE DEF h
<1>4. ASSUME NEW n \in 1..(Len(t) + 1) PROVE h[n] = Body(h, t, drop, n)
  <2>1. \A k \in (n + 1)..(Len(t) + 1) : h[k] = g[k]
    BY <1>2
  <2>2. Body(h, t, drop, n) = Body(g, t, drop, n)
    BY <2>1, BodyDepends
  <2>3. n \in (Len(t) + 1 - Len(t))..(Len(t) + 1)
    OBVIOUS
  <2> QED
    BY <1>1, <1>2, <2>2, <2>3 DEF FollowsFrom
<1>5. Unfolds(h, t, drop)
  BY <1>3, <1>4, Zenon DEF Unfolds
<1>6. Following(t, drop) = CHOOSE f : Unfolds(f, t, drop)
  BY Zenon DEF Following, Unfolds, Body
<1>7. Unfolds(Following(t, drop), t, drop)
  BY <1>5, <1>6, Zenon
<1> QED
  BY <1>7, Zenon DEF Unfolds
-----------------------------------------------------------------------------
(* Characters, as the automaton sees them and as Unicode has them.         *)

\* The bits of a code point that the byte it begins with has.
Bits(b) == IF b <= 223 THEN b - 192 ELSE IF b <= 239 THEN b - 224 ELSE b - 240

\* The code point so far, with the six bits of one more byte.
More(c, x) == c * 64 + (x % 64)

\* t is the UTF-8 of c, which is past ASCII.
Encodes(c, t) == c \in Int /\ IsScalar(c) /\ 128 <= c /\ Utf8(c) = t

\* The six bits that a byte in a character's middle has.
LEMMA TrailBits == \A x \in 128..191 : x \in Int /\ x % 64 = x - 128
BY SMT

\* They are the last that a byte has brought.
LEMMA LastBits == ASSUME NEW d \in Int, NEW x \in 128..191 PROVE (d * 64 + (x - 128)) % 64 = x - 128
<1>1. x - 128 \in Int /\ 0 <= x - 128 /\ x - 128 < 64
  OBVIOUS
<1> DEFINE r == x - 128
<1>2. r \in Int /\ 0 <= r /\ r < 64
  BY <1>1
<1> HIDE DEF r
<1>3. (d * 64 + r) % 64 = r
  BY <1>2, SMT
<1> QED
  BY <1>3 DEF r

\* Two bytes that make a character are the UTF-8 of their code point.
LEMMA TwoBytes ==
    ASSUME NEW b \in 194..223, NEW x \in 128..191
    PROVE  Encodes(More(Bits(b), x), <<b, x>>)
<1> DEFINE p == Bits(b)
           q == x % 64
           c == p * 64 + q
<1> DEFINE C == (b - 192) * 64 + (x - 128)
<1>0. b \in Int /\ 194 <= b /\ b <= 223 /\ p = b - 192
  BY DEF Bits
<1>9. x \in Int /\ q = x - 128
  BY TrailBits
<1> HIDE DEF p, q
<1>1. c = C /\ c \in Int /\ b \in Int /\ x \in Int
  BY <1>0, <1>9
<1>2. 128 <= c /\ c < 2048
  BY <1>1, SMT
<1>3. c \div 64 = b - 192 /\ c % 64 = x - 128
  BY <1>1, SMT
<1> HIDE DEF c
<1>4. Utf8(c) = <<b, x>>
  BY <1>1, <1>2, <1>3, SMT DEF Utf8, Two, Trail
<1>5. IsScalar(c)
  BY <1>1, <1>2, SMT DEF IsScalar
<1>6. Encodes(c, <<b, x>>)
  BY <1>1, <1>2, <1>4, <1>5 DEF Encodes
<1> QED
  BY <1>6 DEF c, p, q, More

\* So are three: a second byte out of range would make a surrogate or one that two are of.
LEMMA ThreeBytes ==
    ASSUME NEW b \in 224..239, NEW x \in 128..191, NEW y \in 128..191, x \in Second(b)
    PROVE  Encodes(More(More(Bits(b), x), y), <<b, x, y>>)
<1> DEFINE p == Bits(b)
           q == x % 64
           r == y % 64
           c == (p * 64 + q) * 64 + r
<1> DEFINE C == ((b - 224) * 64 + (x - 128)) * 64 + (y - 128)
<1>0. b \in Int /\ 224 <= b /\ b <= 239 /\ p = b - 224
  BY DEF Bits
<1>9. x \in Int /\ y \in Int /\ q = x - 128 /\ r = y - 128
  BY TrailBits
<1> HIDE DEF p, q, r
<1>1. c = C /\ c \in Int
      /\ b \in Int /\ x \in Int /\ y \in Int
  BY <1>0, <1>9
<1>2. (b = 224 => 160 <= x) /\ (b = 237 => x <= 159)
  BY SMT DEF Second
<1>3. 2048 <= c /\ c < 65536 /\ ~(55296 <= c /\ c < 57344)
  BY <1>1, <1>2, SMT
<1>4. c \div 64 = (b - 224) * 64 + (x - 128) /\ c % 64 = y - 128 /\ c \div 4096 = b - 224
  BY <1>1, SMT
<1>5. (c \div 64) % 64 = x - 128
  <2> DEFINE d == b - 224
  <2>1. d \in Int /\ c \div 64 = d * 64 + (x - 128)
    BY <1>1, <1>4
  <2> HIDE DEF c, d
  <2>2. (d * 64 + (x - 128)) % 64 = x - 128
    BY <2>1, LastBits
  <2> QED
    BY <2>1, <2>2
<1> HIDE DEF c
<1>6. Utf8(c) = <<b, x, y>>
  BY <1>1, <1>3, <1>4, <1>5, SMT DEF Utf8, Three, Trail
<1>7. IsScalar(c)
  BY <1>1, <1>3, SMT DEF IsScalar
<1>8. Encodes(c, <<b, x, y>>)
  BY <1>1, <1>3, <1>6, <1>7 DEF Encodes
<1> QED
  BY <1>8 DEF c, p, q, r, More

\* And four: it would make one past the last code point or one that three are of.
LEMMA FourBytes ==
    ASSUME NEW b \in 240..244, NEW x \in 128..191, NEW y \in 128..191, NEW z \in 128..191,
           x \in Second(b)
    PROVE  Encodes(More(More(More(Bits(b), x), y), z), <<b, x, y, z>>)
<1> DEFINE p == Bits(b)
           q == x % 64
           r == y % 64
           u == z % 64
           c == ((p * 64 + q) * 64 + r) * 64 + u
<1> DEFINE C == (((b - 240) * 64 + (x - 128)) * 64 + (y - 128)) * 64 + (z - 128)
<1>0. b \in Int /\ 240 <= b /\ b <= 244 /\ p = b - 240
  BY DEF Bits
<1>9. /\ x \in Int /\ y \in Int /\ z \in Int
      /\ q = x - 128 /\ r = y - 128 /\ u = z - 128
  BY TrailBits
<1> HIDE DEF p, q, r, u
<1>1. c = C /\ c \in Int
      /\ b \in Int /\ x \in Int /\ y \in Int /\ z \in Int
  BY <1>0, <1>9
<1>2. (b = 240 => 144 <= x) /\ (b = 244 => x <= 143)
  BY SMT DEF Second
<1>3. 65536 <= c /\ c <= 1114111
  BY <1>1, <1>2, SMT
<1>4. /\ c \div 64 = ((b - 240) * 64 + (x - 128)) * 64 + (y - 128) /\ c % 64 = z - 128
      /\ c \div 4096 = (b - 240) * 64 + (x - 128)
      /\ c \div 262144 = b - 240
  BY <1>1, SMT
<1>5. (c \div 64) % 64 = y - 128 /\ (c \div 4096) % 64 = x - 128
  <2> DEFINE d == (b - 240) * 64 + (x - 128)
  <2>1. d \in Int /\ c \div 64 = d * 64 + (y - 128) /\ c \div 4096 = d
    BY <1>1, <1>4
  <2> HIDE DEF d
  <2>2. (c \div 64) % 64 = y - 128
    BY <2>1, LastBits
  <2>3. d % 64 = x - 128
    BY <1>1, LastBits DEF d
  <2> QED
    BY <2>1, <2>2, <2>3
<1> HIDE DEF c
<1>6. Utf8(c) = <<b, x, y, z>>
  BY <1>1, <1>3, <1>4, <1>5, SMT DEF Utf8, Four, Trail
<1>7. IsScalar(c)
  BY <1>1, <1>3, SMT DEF IsScalar
<1>8. Encodes(c, <<b, x, y, z>>)
  BY <1>1, <1>3, <1>6, <1>7 DEF Encodes
<1> QED
  BY <1>8 DEF c, p, q, r, u, More

\* The code point that the first k bytes of a character after place n of t have made.
Part(t, n, k) ==
    IF k = 1 THEN Bits(t[n + 1])
    ELSE IF k = 2 THEN More(Bits(t[n + 1]), t[n + 2])
    ELSE IF k = 3 THEN More(More(Bits(t[n + 1]), t[n + 2]), t[n + 3])
    ELSE More(More(More(Bits(t[n + 1]), t[n + 2]), t[n + 3]), t[n + 4])

\* The w elements of t after place n.
Taken(t, n, w) == SubSeq(t, n + 1, n + w)

\* They are the elements that t has there.
LEMMA TakenIs ==
    ASSUME NEW t \in Seq(Byte), NEW n \in Nat, NEW w \in Nat, n + w <= Len(t)
    PROVE  /\ Taken(t, n, w) \in Seq(Byte) /\ Len(Taken(t, n, w)) = w
           /\ \A k \in 1..w : Taken(t, n, w)[k] = t[n + k]
BY DEF Taken

\* A character's first byte says how many it has.
LEMMA FitsOnce ==
    ASSUME NEW t, NEW n, NEW w \in 1..4, NEW v \in 1..4, Fits(t, n, w), Fits(t, n, v)
    PROVE  w = v
<1> DEFINE b == t[n + 1]
<1>1. \A x \in 0..127 : x \notin 194..244
  OBVIOUS
<1>2. /\ (b \in 0..127 /\ w = 1) \/ (b \in 194..244 /\ w = Width(b))
      /\ (b \in 0..127 /\ v = 1) \/ (b \in 194..244 /\ v = Width(b))
  <2>1. (b \in 0..127 /\ w = 1) \/ (b \in 194..244 /\ w = Width(b))
    BY Zenon DEF Fits
  <2>2. (b \in 0..127 /\ v = 1) \/ (b \in 194..244 /\ v = Width(b))
    BY Zenon DEF Fits
  <2> QED
    BY <2>1, <2>2
<1>3. CASE b \in 0..127
  <2>1. b \notin 194..244
    BY <1>1, <1>3
  <2> QED
    BY <1>2, <2>1, Zenon
<1>4. CASE b \notin 0..127
  BY <1>2, <1>4, Zenon
<1> QED
  BY <1>3, <1>4

\* What a character of more than one byte at place n has.
LEMMA FitsMany ==
    ASSUME NEW t, NEW n, NEW w \in 2..4, Fits(t, n, w)
    PROVE  /\ n + w <= Len(t) /\ t[n + 1] \in 194..244 /\ w = Width(t[n + 1])
           /\ t[n + 2] \in Second(t[n + 1]) /\ \A k \in 3..w : t[n + k] \in 128..191
<1>1. w # 1
  OBVIOUS
<1> QED
  BY <1>1, Zenon DEF Fits

\* Which bytes begin a character of so many, and what its second byte is.
Begin(b) == b \in 194..244
Beginning(b) ==
    /\ (Width(b) = 2 => b \in 194..223)
    /\ (Width(b) = 3 => b \in 224..239)
    /\ (Width(b) = 4 => b \in 240..244)
    /\ \A x : x \in Second(b) => x \in 128..191

\* A byte that begins a character is in the range that its width has.
LEMMA WidthIs == ASSUME NEW b, Begin(b) PROVE Beginning(b)
<1>1. b \in Int /\ 194 <= b /\ b <= 244
  BY DEF Begin
<1>2. Width(b) = IF b <= 223 THEN 2 ELSE IF b <= 239 THEN 3 ELSE 4
  BY <1>1 DEF Width
<1>3. \A x : x \in Second(b) => x \in 128..191
  BY <1>1 DEF Second
<1> QED
  BY <1>1, <1>2, <1>3 DEF Beginning

\* A sequence of two, three or four is a tuple.
LEMMA Tuples ==
    ASSUME NEW t \in Seq(Byte)
    PROVE  /\ Len(t) = 2 => t = <<t[1], t[2]>>
           /\ Len(t) = 3 => t = <<t[1], t[2], t[3]>>
           /\ Len(t) = 4 => t = <<t[1], t[2], t[3], t[4]>>
OBVIOUS

\* Such a character is the UTF-8 of the code point its bytes make.
LEMMA FitsEncodes ==
    ASSUME NEW t \in Seq(Byte), NEW n \in Nat, NEW w \in 2..4, Fits(t, n, w)
    PROVE  Encodes(Part(t, n, w), Taken(t, n, w))
<1>0. /\ n + w <= Len(t) /\ t[n + 1] \in 194..244 /\ w = Width(t[n + 1])
      /\ t[n + 2] \in Second(t[n + 1]) /\ \A k \in 3..w : t[n + k] \in 128..191
  BY FitsMany
<1>1. PICK b \in 194..244 : b = t[n + 1]
  BY <1>0
<1>2. PICK x \in 128..191 : x = t[n + 2] /\ x \in Second(b)
  <2>1. PICK x : x = t[n + 2]
    OBVIOUS
  <2>2. x \in Second(b)
    BY <1>0, <1>1, <2>1, Zenon
  <2>3. x \in 128..191
    <3>1. Beginning(b)
      BY <1>1, WidthIs DEF Begin
    <3> QED
      BY <2>2, <3>1 DEF Beginning
  <2> QED
    BY <2>1, <2>2, <2>3
<1>3. PICK u : u = Taken(t, n, w)
  OBVIOUS
<1>4. u \in Seq(Byte) /\ Len(u) = w /\ \A k \in 1..w : u[k] = t[n + k]
  <2>1. w \in Nat /\ n + w <= Len(t)
    BY <1>0
  <2>2. /\ Taken(t, n, w) \in Seq(Byte) /\ Len(Taken(t, n, w)) = w
        /\ \A k \in 1..w : Taken(t, n, w)[k] = t[n + k]
    BY <2>1, TakenIs
  <2> QED
    BY <1>3, <2>2, Zenon
<1>5. u[1] = b /\ u[2] = x /\ w = Width(b)
  BY <1>0, <1>1, <1>2, <1>4
<1>6. CASE w = 2
  <2>1. b \in 194..223
    <3>1. Width(b) = 2
      BY <1>5, <1>6, Zenon
    <3>2. Beginning(b)
      BY <1>1, WidthIs DEF Begin
    <3> QED
      BY <3>1, <3>2 DEF Beginning
  <2>2. u = <<b, x>>
    BY <1>4, <1>5, <1>6, Tuples
  <2>3. Part(t, n, w) = More(Bits(b), x)
    BY <1>1, <1>2, <1>6 DEF Part
  <2> QED
    BY <1>3, <2>1, <2>2, <2>3, TwoBytes
<1>7. CASE w = 3
  <2>1. b \in 224..239
    <3>1. Width(b) = 3
      BY <1>5, <1>7, Zenon
    <3>2. Beginning(b)
      BY <1>1, WidthIs DEF Begin
    <3> QED
      BY <3>1, <3>2 DEF Beginning
  <2>2. PICK y \in 128..191 : y = t[n + 3] /\ y = u[3]
    <3>1. 3 \in 3..w /\ 3 \in 1..w
      BY <1>7
    <3> QED
      BY <1>0, <1>4, <3>1, Zenon
  <2>3. u = <<b, x, y>>
    BY <1>4, <1>5, <1>7, <2>2, Tuples
  <2>4. Part(t, n, w) = More(More(Bits(b), x), y)
    BY <1>1, <1>2, <1>7, <2>2 DEF Part
  <2> QED
    BY <1>2, <1>3, <2>1, <2>3, <2>4, ThreeBytes
<1>8. CASE w = 4
  <2>1. b \in 240..244
    <3>1. Width(b) = 4
      BY <1>5, <1>8, Zenon
    <3>2. Beginning(b)
      BY <1>1, WidthIs DEF Begin
    <3> QED
      BY <3>1, <3>2 DEF Beginning
  <2>2. PICK y \in 128..191 : y = t[n + 3] /\ y = u[3]
    <3>1. 3 \in 3..w /\ 3 \in 1..w
      BY <1>8
    <3> QED
      BY <1>0, <1>4, <3>1, Zenon
  <2>3. PICK z \in 128..191 : z = t[n + 4] /\ z = u[4]
    <3>1. 4 \in 3..w /\ 4 \in 1..w
      BY <1>8
    <3> QED
      BY <1>0, <1>4, <3>1, Zenon
  <2>4. u = <<b, x, y, z>>
    BY <1>4, <1>5, <1>8, <2>2, <2>3, Tuples
  <2>5. Part(t, n, w) = More(More(More(Bits(b), x), y), z)
    BY <1>1, <1>2, <1>8, <2>2, <2>3 DEF Part
  <2> QED
    BY <1>2, <1>3, <2>1, <2>4, <2>5, FourBytes
<1> QED
  BY <1>6, <1>7, <1>8

\* A leading byte without its marks.
LEMMA LeadBits ==
    ASSUME NEW b \in Int
    PROVE  /\ b \in 194..223 => Bits(b) = b % 32
           /\ b \in 224..239 => Bits(b) = b % 16
           /\ b \in 240..244 => Bits(b) = b % 8
<1>1. CASE 194 <= b /\ b <= 223
  BY <1>1, SMT DEF Bits
<1>2. CASE 224 <= b /\ b <= 239
  BY <1>2, SMT DEF Bits
<1>3. CASE 240 <= b /\ b <= 244
  BY <1>3, SMT DEF Bits
<1> QED
  BY <1>1, <1>2, <1>3

\* Its bytes are decoded to that.
LEMMA CodeIsPart ==
    ASSUME NEW t \in Seq(Byte), NEW w \in 2..4, Len(t) = w, Fits(t, 0, w)
    PROVE  Code(t) = Part(t, 0, w)
<1>0. PICK n : n = 0 /\ Fits(t, n, w)
  OBVIOUS
<1>9. t[n + 1] \in 194..244 /\ w = Width(t[n + 1])
  BY <1>0, FitsMany, Zenon
<1>1. PICK b \in 194..244 : b = t[1] /\ w = Width(b)
  <2>1. t[n + 1] = t[1]
    BY <1>0
  <2> QED
    BY <1>9, <2>1, Zenon
<1>2. w = Width(b)
  BY <1>1
<1>3. t \in [1..w -> Byte]
  OBVIOUS
<1>4. PICK x \in Byte : x = t[2]
  BY <1>3
<1>5. CASE w = 2
  <2>1. b \in 194..223
    <3>1. Width(b) = 2
      BY <1>2, <1>5, Zenon
    <3>2. Beginning(b)
      BY <1>1, WidthIs DEF Begin
    <3> QED
      BY <3>1, <3>2 DEF Beginning
  <2>2. b % 32 = Bits(b)
    BY <2>1, LeadBits
  <2>3. Code(t) = (b % 32) * 64 + (x % 64)
    BY <1>1, <1>4, <1>5 DEF Code
  <2>4. Part(t, 0, w) = Bits(b) * 64 + (x % 64)
    BY <1>1, <1>4, <1>5 DEF Part, More
  <2> QED
    BY <2>2, <2>3, <2>4, Zenon
<1>6. CASE w = 3
  <2>1. b \in 224..239
    <3>1. Width(b) = 3
      BY <1>2, <1>6, Zenon
    <3>2. Beginning(b)
      BY <1>1, WidthIs DEF Begin
    <3> QED
      BY <3>1, <3>2 DEF Beginning
  <2>2. PICK y \in Byte : y = t[3]
    BY <1>3, <1>6
  <2>3. b % 16 = Bits(b) /\ Bits(b) \in Int
    BY <2>1, LeadBits
  <2>4. Code(t) = (b % 16) * 4096 + (x % 64) * 64 + (y % 64)
    BY <1>1, <1>4, <1>6, <2>2 DEF Code
  <2>5. Part(t, 0, w) = (Bits(b) * 64 + (x % 64)) * 64 + (y % 64)
    BY <1>1, <1>4, <1>6, <2>2 DEF Part, More
  <2>6. x % 64 \in Int /\ y % 64 \in Int
    BY DEF Byte
  <2>7. PICK p \in Int, q \in Int, r \in Int :
          p = b % 16 /\ p = Bits(b) /\ q = x % 64 /\ r = y % 64
    BY <2>3, <2>6
  <2>8. Code(t) = p * 4096 + q * 64 + r
    BY <2>4, <2>7
  <2>9. Part(t, 0, w) = (p * 64 + q) * 64 + r
    BY <2>5, <2>7
  <2> QED
    BY <2>8, <2>9, SMT
<1>7. CASE w = 4
  <2>1. b \in 240..244
    <3>1. Width(b) = 4
      BY <1>2, <1>7, Zenon
    <3>2. Beginning(b)
      BY <1>1, WidthIs DEF Begin
    <3> QED
      BY <3>1, <3>2 DEF Beginning
  <2>2. PICK y \in Byte : y = t[3]
    BY <1>3, <1>7
  <2>3. PICK z \in Byte : z = t[4]
    BY <1>3, <1>7
  <2>4. b % 8 = Bits(b) /\ Bits(b) \in Int
    BY <2>1, LeadBits
  <2>5. Code(t) = (b % 8) * 262144 + (x % 64) * 4096 + (y % 64) * 64 + (z % 64)
    BY <1>1, <1>4, <1>7, <2>2, <2>3 DEF Code
  <2>6. Part(t, 0, w) = ((Bits(b) * 64 + (x % 64)) * 64 + (y % 64)) * 64 + (z % 64)
    BY <1>1, <1>4, <1>7, <2>2, <2>3 DEF Part, More
  <2>7. x % 64 \in Int /\ y % 64 \in Int /\ z % 64 \in Int
    BY DEF Byte
  <2>8. PICK p \in Int, q \in Int, r \in Int, u \in Int :
          p = b % 8 /\ p = Bits(b) /\ q = x % 64 /\ r = y % 64 /\ u = z % 64
    BY <2>4, <2>7
  <2>9. Code(t) = p * 262144 + q * 4096 + r * 64 + u
    BY <2>5, <2>8
  <2>10. Part(t, 0, w) = ((p * 64 + q) * 64 + r) * 64 + u
    BY <2>6, <2>8
  <2> QED
    BY <2>9, <2>10, SMT
<1> QED
  BY <1>5, <1>6, <1>7

\* What the parser takes for a character, Unicode does.
LEMMA WholeIsCharacter == ASSUME NEW t, Whole(t) PROVE IsCharacter(t)
<1>0. t \in Seq(Byte) /\ Len(t) \in 1..4 /\ Fits(t, 0, Len(t))
  BY DEF Whole
<1>1. CASE Len(t) = 1
  <2>1. t[1] \in 0..127
    <3>1. \A b \in 194..244 : Width(b) # 1
      <4>1. ASSUME NEW b \in 194..244 PROVE Width(b) # 1
        <5>1. Width(b) \in 2..4
          BY LeadBounds
        <5> QED
          BY <5>1
      <4> QED
        BY <4>1
    <3>2. PICK n, w : n = 0 /\ w = Len(t) /\ Fits(t, n, w)
      BY <1>0
    <3>3. t[n + 1] \in 0..127 \/ (t[n + 1] \in 194..244 /\ w = Width(t[n + 1]))
      BY <3>2, Zenon DEF Fits
    <3>4. t[n + 1] \in 0..127
      <4>1. ASSUME t[n + 1] \in 194..244, w = Width(t[n + 1]) PROVE FALSE
        BY <1>1, <3>1, <3>2, <4>1, Zenon
      <4> QED
        BY <3>3, <4>1
    <3> QED
      BY <3>2, <3>4
  <2>2. Code(t) = t[1]
    BY <1>1 DEF Code
  <2>3. PICK c \in 0..127 : c = t[1]
    BY <2>1
  <2>4. Utf8(c) = <<c>> /\ IsScalar(c)
    BY <2>3 DEF Utf8, IsScalar
  <2>5. t = <<c>>
    BY <1>0, <1>1, <2>3
  <2> QED
    BY <2>2, <2>3, <2>4, <2>5 DEF IsCharacter
<1>2. CASE Len(t) # 1
  <2>1. PICK w \in 2..4 : w = Len(t)
    BY <1>0, <1>2
  <2>2. Code(t) = Part(t, 0, w)
    BY <1>0, <2>1, CodeIsPart
  <2>3. Encodes(Part(t, 0, w), Taken(t, 0, w))
    BY <1>0, <2>1, FitsEncodes
  <2>4. Taken(t, 0, w) = t
    BY <1>0, <2>1 DEF Taken
  <2> QED
    BY <2>2, <2>3, <2>4 DEF Encodes, IsCharacter
<1> QED
  BY <1>1, <1>2

\* What one to four bytes would be of is a number.
LEMMA CodeInt == ASSUME NEW t \in Seq(Byte), Len(t) \in 1..4 PROVE Code(t) \in Int
<1>0. \A k \in 1..Len(t) : t[k] \in Int
  <2>1. \A b \in Byte : b \in Int
    BY DEF Byte
  <2>2. \A k \in 1..Len(t) : t[k] \in Byte
    OBVIOUS
  <2> QED
    BY <2>1, <2>2
<1>1. PICK a \in Int : a = t[1]
  BY <1>0
<1>2. CASE Len(t) = 1
  BY <1>1, <1>2 DEF Code
<1>3. CASE Len(t) = 2
  <2>1. PICK b \in Int : b = t[2]
    BY <1>0, <1>3
  <2>2. Code(t) = (a % 32) * 64 + (b % 64)
    BY <1>1, <1>3, <2>1 DEF Code
  <2> QED
    BY <2>2
<1>4. CASE Len(t) = 3
  <2>1. PICK b \in Int, c \in Int : b = t[2] /\ c = t[3]
    BY <1>0, <1>4
  <2>2. Code(t) = (a % 16) * 4096 + (b % 64) * 64 + (c % 64)
    BY <1>1, <1>4, <2>1 DEF Code
  <2> QED
    BY <2>2
<1>5. CASE Len(t) = 4
  <2>1. PICK b \in Int, c \in Int, d \in Int : b = t[2] /\ c = t[3] /\ d = t[4]
    BY <1>0, <1>5
  <2>2. Code(t) = (a % 8) * 262144 + (b % 64) * 4096 + (c % 64) * 64 + (d % 64)
    BY <1>1, <1>5, <2>1 DEF Code
  <2> QED
    BY <2>2
<1> QED
  BY <1>2, <1>3, <1>4, <1>5

\* What Unicode takes for a character, the parser does.
LEMMA CharacterIsWhole ==
    ASSUME NEW t \in Seq(Byte), Len(t) \in 1..4, IsCharacter(t)
    PROVE  Whole(t)
<1>1. Code(t) \in Int /\ IsScalar(Code(t)) /\ Utf8(Code(t)) = t
  BY CodeInt DEF IsCharacter
<1> QED
  BY <1>1, CharacterBytes DEF Whole

\* The bytes of a character at place n are a whole one by themselves.
LEMMA FitsWhole ==
    ASSUME NEW t \in Seq(Byte), NEW n \in Nat, NEW w \in 1..4, n + w <= Len(t)
    PROVE  Fits(t, n, w) <=> Whole(Taken(t, n, w))
<1>1. PICK u : u = Taken(t, n, w)
  OBVIOUS
<1>2. u \in Seq(Byte) /\ Len(u) = w /\ \A k \in 1..w : u[k] = t[n + k]
  <2>1. w \in Nat
    OBVIOUS
  <2>2. /\ Taken(t, n, w) \in Seq(Byte) /\ Len(Taken(t, n, w)) = w
        /\ \A k \in 1..w : Taken(t, n, w)[k] = t[n + k]
    BY <2>1, TakenIs
  <2> QED
    BY <1>1, <2>2, Zenon
<1>3. PICK m \in Nat : m = 0
  OBVIOUS
<1>4. /\ \A k \in 1..w : u[m + k] = t[n + k]
      /\ \A k \in 1..w : t[n + k] = u[m + k]
      /\ m + w <= Len(u)
  BY <1>2, <1>3
<1>5. Fits(t, n, w) => Fits(u, m, w)
  BY <1>4, FitsSame, Zenon
<1>6. Fits(u, m, w) => Fits(t, n, w)
  BY <1>4, FitsSame, Zenon
<1>7. Whole(u) <=> Fits(u, m, w)
  BY <1>2, <1>3 DEF Whole
<1> QED
  BY <1>1, <1>5, <1>6, <1>7, Zenon

\* No character is at place n of t.
NoneFits(t, n) == \A w \in 1..4 : ~Fits(t, n, w)

\* CharacterAt finds the character that fits there.
LEMMA CharacterAtIs ==
    ASSUME NEW t \in Seq(Byte), NEW n \in Nat
    PROVE  /\ \A w \in 1..4 : Fits(t, n, w) => CharacterAt(t, n + 1) = w
           /\ NoneFits(t, n) => CharacterAt(t, n + 1) = 0
<1> DEFINE P(k) == n + 1 + k - 1 <= Len(t) /\ IsCharacter(SubSeq(t, n + 1, n + 1 + k - 1))
<1>1. ASSUME NEW k \in 1..4 PROVE P(k) <=> Fits(t, n, k)
  <2>1. n + 1 + k - 1 = n + k
    OBVIOUS
  <2>2. P(k) <=> (n + k <= Len(t) /\ IsCharacter(Taken(t, n, k)))
    BY <2>1 DEF Taken
  <2>3. Fits(t, n, k) => n + k <= Len(t)
    BY Zenon DEF Fits
  <2>4. ASSUME n + k <= Len(t) PROVE IsCharacter(Taken(t, n, k)) <=> Fits(t, n, k)
    <3>1. k \in Nat
      OBVIOUS
    <3>2. Taken(t, n, k) \in Seq(Byte) /\ Len(Taken(t, n, k)) = k
      BY <2>4, <3>1, TakenIs
    <3>3. IsCharacter(Taken(t, n, k)) <=> Whole(Taken(t, n, k))
      BY <3>2, WholeIsCharacter, CharacterIsWhole
    <3> QED
      BY <2>4, <3>3, FitsWhole
  <2> QED
    BY <2>2, <2>3, <2>4
<1>2. CharacterAt(t, n + 1) =
        IF \E k \in 1..4 : P(k) THEN CHOOSE k \in 1..4 : P(k) ELSE 0
  BY Zenon DEF CharacterAt
<1> HIDE DEF P
<1>3. ASSUME NEW w \in 1..4, Fits(t, n, w) PROVE CharacterAt(t, n + 1) = w
  <2>1. PICK v \in 1..4 : v = CharacterAt(t, n + 1) /\ P(v)
    BY <1>1, <1>2, <1>3, Zenon
  <2>2. Fits(t, n, v)
    BY <1>1, <2>1
  <2> QED
    BY <1>3, <2>1, <2>2, FitsOnce
<1>4. NoneFits(t, n) => CharacterAt(t, n + 1) = 0
  BY <1>1, <1>2, Zenon DEF NoneFits
<1> QED
  BY <1>3, <1>4
-----------------------------------------------------------------------------
(* The characters of a text, one after the other.                          *)

\* Those after the first n bytes.
From(t, drop, n) == Following(t, drop)[n + 1]

\* What one character adds to them.
Kept(u, drop) == IF u \in drop THEN <<>> ELSE u

\* None is left at the end.
LEMMA FromEnd == ASSUME NEW t \in Seq(Byte), NEW drop PROVE From(t, drop, Len(t)) = <<>>
<1>1. PICK n \in 1..(Len(t) + 1) : n = Len(t) + 1
  OBVIOUS
<1>2. Following(t, drop)[n] = Body(Following(t, drop), t, drop, n)
  BY FollowingUnfolds
<1>3. n > Len(t)
  BY <1>1
<1>4. Body(Following(t, drop), t, drop, n) = <<>>
  BY <1>3 DEF Body
<1> QED
  BY <1>1, <1>2, <1>4 DEF From

\* A byte that is in no character adds none.
LEMMA FromSkips ==
    ASSUME NEW t \in Seq(Byte), NEW drop, NEW n \in Nat, n < Len(t), NoneFits(t, n)
    PROVE  From(t, drop, n) = From(t, drop, n + 1)
<1>1. PICK m \in 1..(Len(t) + 1) : m = n + 1
  OBVIOUS
<1>2. Following(t, drop)[m] = Body(Following(t, drop), t, drop, m)
  BY FollowingUnfolds
<1>3. CharacterAt(t, m) = 0 /\ ~(m > Len(t))
  BY <1>1, CharacterAtIs
<1>4. Body(Following(t, drop), t, drop, m) = Following(t, drop)[m + 1]
  BY <1>3, Zenon DEF Body
<1> QED
  BY <1>1, <1>2, <1>4 DEF From

\* A character is taken, or left out.
TakenOrLeft(t, drop, n, w) ==
    From(t, drop, n) = IF Taken(t, n, w) \in drop THEN From(t, drop, n + w)
                       ELSE Taken(t, n, w) \o From(t, drop, n + w)

\* Following does that with a character, as its definition says.
LEMMA FromBody ==
    ASSUME NEW t \in Seq(Byte), NEW drop, NEW n \in Nat, NEW w \in 1..4, Fits(t, n, w)
    PROVE  TakenOrLeft(t, drop, n, w)
<1>0. n + w <= Len(t)
  BY Zenon DEF Fits
<1>1. PICK m \in 1..(Len(t) + 1) : m = n + 1
  BY <1>0
<1>2. Following(t, drop)[m] = Body(Following(t, drop), t, drop, m)
  BY FollowingUnfolds
<1>3. CharacterAt(t, m) = w /\ ~(m > Len(t)) /\ w # 0
  BY <1>0, <1>1, CharacterAtIs
<1>4. SubSeq(t, m, m + w - 1) = Taken(t, n, w)
  <2>1. m + w - 1 = n + w
    BY <1>1
  <2> QED
    BY <1>1, <2>1 DEF Taken
<1>5. PICK u : u = Taken(t, n, w)
  OBVIOUS
<1>6. Body(Following(t, drop), t, drop, m)
        = IF u \in drop THEN Following(t, drop)[m + w] ELSE u \o Following(t, drop)[m + w]
  BY <1>3, <1>4, <1>5, Zenon DEF Body
<1>7. m + w = (n + w) + 1
  BY <1>1
<1> QED
  BY <1>1, <1>2, <1>5, <1>6, <1>7, Zenon DEF From, TakenOrLeft

\* They are bytes, no more than are left.
Bounded(t, drop, n) == From(t, drop, n) \in Seq(Byte) /\ Len(From(t, drop, n)) <= Len(t) - n

\* What follows each place is bytes of the text that are left.
LEMMA FromBounded ==
    ASSUME NEW t \in Seq(Byte), NEW drop
    PROVE  \A n \in 0..Len(t) : Bounded(t, drop, n)
<1> DEFINE K == {m \in 0..Len(t) : ~Bounded(t, drop, Len(t) - m)}
<1>0. PICK l \in Nat : l = Len(t)
  OBVIOUS
<1>1. ASSUME K # {} PROVE FALSE
  <2>1. PICK m \in K : \A y \in K : m <= y
    <3>1. K \in SUBSET Nat
      OBVIOUS
    <3> QED
      BY <1>1, <3>1, LeastOf
  <2>2. m \in Nat /\ m <= l /\ \A k \in Nat : k < m => Bounded(t, drop, l - k)
    BY <1>0, <2>1
  <2> HIDE DEF K
  <2>3. PICK n \in Nat : n = l - m
    BY <2>2
  <2>4. \A k \in Nat : n < k /\ k <= l => Bounded(t, drop, k)
    <3>1. ASSUME NEW k \in Nat, n < k, k <= l PROVE Bounded(t, drop, k)
      <4>1. l - k \in Nat /\ l - k < m /\ l - (l - k) = k
        BY <2>2, <2>3, <3>1
      <4> QED
        BY <2>2, <4>1
    <3> QED
      BY <3>1
  <2>5. CASE n = l
    <3>1. From(t, drop, n) = <<>>
      BY <1>0, <2>5, FromEnd
    <3>2. Bounded(t, drop, n)
      BY <1>0, <2>5, <3>1 DEF Bounded
    <3> QED
      BY <1>0, <2>1, <2>3, <3>2 DEF K
  <2>6. CASE n # l
    <3>0. n < l
      BY <2>2, <2>3, <2>6
    <3>1. CASE NoneFits(t, n)
      <4>1. From(t, drop, n) = From(t, drop, n + 1)
        BY <1>0, <3>0, <3>1, FromSkips
      <4>2. Bounded(t, drop, n + 1)
        BY <2>4, <3>0
      <4>3. PICK f : f = From(t, drop, n + 1)
        OBVIOUS
      <4>4. f \in Seq(Byte) /\ Len(f) <= l - (n + 1)
        BY <1>0, <4>2, <4>3 DEF Bounded
      <4>5. Len(f) <= l - n
        BY <4>4
      <4> QED
        BY <1>0, <2>1, <2>3, <4>1, <4>3, <4>4, <4>5 DEF Bounded, K
    <3>2. CASE ~NoneFits(t, n)
      <4>1. PICK w \in 1..4 : Fits(t, n, w)
        BY <3>2 DEF NoneFits
      <4>2. n + w <= l
        BY <1>0, <4>1, Zenon DEF Fits
      <4>3. Bounded(t, drop, n + w)
        BY <2>4, <4>1, <4>2
      <4>4. PICK f, u : f = From(t, drop, n + w) /\ u = Taken(t, n, w)
        OBVIOUS
      <4>5. f \in Seq(Byte) /\ Len(f) <= l - (n + w)
        BY <1>0, <4>3, <4>4 DEF Bounded
      <4>6. u \in Seq(Byte) /\ Len(u) = w
        <5>1. w \in Nat /\ n + w <= Len(t)
          BY <1>0, <4>1, <4>2
        <5> QED
          BY <4>4, <5>1, TakenIs
      <4>7. From(t, drop, n) = f \/ From(t, drop, n) = u \o f
        <5>1. TakenOrLeft(t, drop, n, w)
          BY <4>1, FromBody
        <5> QED
          BY <4>4, <5>1, Zenon DEF TakenOrLeft
      <4>8. u \o f \in Seq(Byte) /\ Len(u \o f) = w + Len(f)
        BY <4>5, <4>6
      <4>9. Len(f) <= l - n /\ Len(u \o f) <= l - n
        BY <4>1, <4>5, <4>8
      <4>10. Bounded(t, drop, n)
        BY <1>0, <4>5, <4>7, <4>8, <4>9 DEF Bounded
      <4> QED
        BY <1>0, <2>1, <2>3, <4>10 DEF K
    <3> QED
      BY <3>1, <3>2
  <2> QED
    BY <2>5, <2>6
<1>2. ASSUME NEW n \in 0..Len(t) PROVE Bounded(t, drop, n)
  <2>1. l - n \in 0..Len(t) /\ l - (l - n) = n
    BY <1>0
  <2>2. Bounded(t, drop, l - (l - n))
    BY <1>0, <1>1, <2>1
  <2> QED
    BY <2>1, <2>2
<1> QED
  BY <1>2

\* A character adds itself, unless it is to be left out.
KeptFirst(t, drop, n, w) ==
    From(t, drop, n) = Kept(Taken(t, n, w), drop) \o From(t, drop, n + w)

\* The first character of those that follow a place is the one there.
LEMMA FromTakes ==
    ASSUME NEW t \in Seq(Byte), NEW drop, NEW n \in Nat, NEW w \in 1..4, Fits(t, n, w)
    PROVE  KeptFirst(t, drop, n, w)
<1>0. n + w <= Len(t)
  BY Zenon DEF Fits
<1>1. PICK f, u : f = From(t, drop, n + w) /\ u = Taken(t, n, w)
  OBVIOUS
<1>2. f \in Seq(Byte)
  <2>1. Bounded(t, drop, n + w)
    BY <1>0, FromBounded
  <2> QED
    BY <1>1, <2>1 DEF Bounded
<1>3. From(t, drop, n) = IF u \in drop THEN f ELSE u \o f
  <2>1. TakenOrLeft(t, drop, n, w)
    BY FromBody
  <2> QED
    BY <1>1, <2>1, Zenon DEF TakenOrLeft
<1>4. <<>> \o f = f
  BY <1>2
<1>5. Kept(u, drop) = IF u \in drop THEN <<>> ELSE u
  BY DEF Kept
<1>6. From(t, drop, n) = Kept(u, drop) \o f
  BY <1>3, <1>4, <1>5, Zenon
<1> QED
  BY <1>1, <1>6, Zenon DEF KeptFirst

\* Concatenation, where it needs types.
LEMMA Concats ==
    ASSUME NEW a \in Seq(Byte), NEW b \in Seq(Byte), NEW c \in Seq(Byte)
    PROVE  /\ (a \o b) \o c = a \o (b \o c)
           /\ a \o b \in Seq(Byte) /\ <<>> \o a = a /\ a \o <<>> = a
OBVIOUS

\* Sequences with the same elements are the same.
LEMMA SameElements ==
    ASSUME NEW a \in Seq(Byte), NEW b \in Seq(Byte), NEW n \in Nat, Len(a) = n, Len(b) = n,
           \A k \in 1..n : a[k] = b[k]
    PROVE  a = b
OBVIOUS

\* A part of a text and the part behind it.
LEMMA TwoParts ==
    ASSUME NEW t \in Seq(Byte), NEW a \in Nat, NEW b \in Nat, a <= b, b <= Len(t)
    PROVE  SubSeq(t, a + 1, b) \o SubSeq(t, b + 1, Len(t)) = SubSeq(t, a + 1, Len(t))
<1>1. PICK x, y, z : /\ x = SubSeq(t, a + 1, b) /\ y = SubSeq(t, b + 1, Len(t))
                     /\ z = SubSeq(t, a + 1, Len(t))
  OBVIOUS
<1>2. x \in Seq(Byte) /\ Len(x) = b - a /\ \A k \in 1..(b - a) : x[k] = t[a + k]
  BY <1>1
<1>3. y \in Seq(Byte) /\ Len(y) = Len(t) - b /\ \A k \in 1..(Len(t) - b) : y[k] = t[b + k]
  BY <1>1
<1>4. z \in Seq(Byte) /\ Len(z) = Len(t) - a /\ \A k \in 1..(Len(t) - a) : z[k] = t[a + k]
  BY <1>1
<1>5. PICK u : u = x \o y
  OBVIOUS
<1>6. u \in Seq(Byte) /\ Len(u) = Len(t) - a
  <2>0. x \in Seq(Byte) /\ y \in Seq(Byte)
    BY <1>2, <1>3
  <2>1. Len(u) = Len(x) + Len(y) /\ u \in Seq(Byte)
    BY <1>5, <2>0
  <2>2. Len(t) \in Nat /\ (b - a) + (Len(t) - b) = Len(t) - a
    OBVIOUS
  <2> QED
    BY <1>2, <1>3, <2>1, <2>2
<1>7. ASSUME NEW k \in 1..(Len(t) - a) PROVE u[k] = z[k]
  <2>1. CASE k <= b - a
    <3>1. u[k] = x[k]
      BY <1>2, <1>3, <1>5, <2>1
    <3> QED
      BY <1>2, <1>4, <2>1, <3>1
  <2>2. CASE ~(k <= b - a)
    <3>1. u[k] = y[k - (b - a)] /\ k - (b - a) \in 1..(Len(t) - b)
      BY <1>2, <1>3, <1>5, <2>2
    <3>2. b + (k - (b - a)) = a + k
      OBVIOUS
    <3> QED
      BY <1>3, <1>4, <3>1, <3>2
  <2> QED
    BY <2>1, <2>2
<1>8. Len(t) - a \in Nat
  OBVIOUS
<1>9. u = z
  BY <1>4, <1>6, <1>7, <1>8, SameElements
<1> QED
  BY <1>1, <1>5, <1>9

\* What is taken from a text is also there with more behind it.
LEMMA TakenLonger ==
    ASSUME NEW t \in Seq(Byte), NEW b \in Seq(Byte), NEW n \in Nat, NEW w \in 1..4, Fits(t, n, w)
    PROVE  Fits(t \o b, n, w) /\ Taken(t \o b, n, w) = Taken(t, n, w)
<1>0. n + w <= Len(t)
  BY Zenon DEF Fits
<1>1. PICK u \in Seq(Byte) : u = t \o b
  BY Concats
<1>2. Len(t) <= Len(u) /\ \A k \in 1..Len(t) : u[k] = t[k]
  BY <1>1
<1>3. n + w <= Len(u) /\ \A k \in 1..w : u[n + k] = t[n + k]
  BY <1>0, <1>2
<1>4. Fits(u, n, w)
  BY <1>3, FitsSame
<1>5. PICK x, y : x = Taken(t, n, w) /\ y = Taken(u, n, w)
  OBVIOUS
<1>6. w \in Nat
  OBVIOUS
<1>7. x \in Seq(Byte) /\ Len(x) = w /\ \A k \in 1..w : x[k] = t[n + k]
  BY <1>0, <1>5, <1>6, TakenIs
<1>8. y \in Seq(Byte) /\ Len(y) = w /\ \A k \in 1..w : y[k] = u[n + k]
  BY <1>3, <1>5, <1>6, TakenIs
<1>9. x = y
  <2>1. \A k \in 1..w : x[k] = y[k]
    BY <1>3, <1>7, <1>8, Zenon
  <2> QED
    BY <1>6, <1>7, <1>8, <2>1, SameElements
<1> QED
  BY <1>1, <1>4, <1>5, <1>9

\* A whole character behind t is the one at its end.
LEMMA TakenLast ==
    ASSUME NEW t \in Seq(Byte), NEW b, Whole(b)
    PROVE  Fits(t \o b, Len(t), Len(b)) /\ Taken(t \o b, Len(t), Len(b)) = b
<1>0. b \in Seq(Byte) /\ Len(b) \in 1..4
  BY DEF Whole
<1>1. PICK u \in Seq(Byte), n \in Nat, w \in 1..4 : u = t \o b /\ n = Len(t) /\ w = Len(b)
  <2>1. t \o b \in Seq(Byte) /\ Len(t) \in Nat
    BY <1>0
  <2> QED
    BY <1>0, <2>1
<1>2. b \in Seq(Byte) /\ n + w = Len(u) /\ \A k \in 1..w : u[n + k] = b[k]
  BY <1>1 DEF Whole
<1>3. PICK x : x = Taken(u, n, w)
  OBVIOUS
<1>4. w \in Nat
  BY <1>1
<1>5. x \in Seq(Byte) /\ Len(x) = w /\ \A k \in 1..w : x[k] = u[n + k]
  <2>1. n + w <= Len(u)
    BY <1>2
  <2>2. /\ Taken(u, n, w) \in Seq(Byte) /\ Len(Taken(u, n, w)) = w
        /\ \A k \in 1..w : Taken(u, n, w)[k] = u[n + k]
    BY <1>1, <1>4, <2>1, TakenIs
  <2> QED
    BY <1>3, <2>2, Zenon
<1>6. x = b
  <2>1. Len(b) = w /\ \A k \in 1..w : x[k] = b[k]
    BY <1>1, <1>2, <1>5
  <2> QED
    BY <1>2, <1>4, <1>5, <2>1, SameElements
<1>7. Fits(u, n, w)
  <2>1. n + w <= Len(u) /\ Whole(Taken(u, n, w))
    BY <1>2, <1>3, <1>6
  <2> QED
    BY <1>1, <2>1, FitsWhole
<1> QED
  BY <1>1, <1>3, <1>6, <1>7

\* With one more character behind it, t has what it had, and that.
Extended(t, b, drop, n) == From(t \o b, drop, n) = From(t, drop, n) \o Kept(b, drop)

\* So it is from each place where t can be cut.
LEMMA FromExtended ==
    ASSUME NEW t \in Seq(Byte), NEW cuts, Cut(t, cuts), NEW b, Whole(b), NEW drop
    PROVE  \A n \in cuts : Extended(t, b, drop, n)
<1> DEFINE K == {m \in 0..Len(t) : Len(t) - m \in cuts /\ ~Extended(t, b, drop, Len(t) - m)}
<1>0. PICK l \in Nat, u \in Seq(Byte), kept \in Seq(Byte) :
        l = Len(t) /\ u = t \o b /\ kept = Kept(b, drop)
  <2>1. b \in Seq(Byte) /\ <<>> \in Seq(Byte)
    BY DEF Whole
  <2>2. Kept(b, drop) \in Seq(Byte)
    BY <2>1 DEF Kept
  <2>3. t \o b \in Seq(Byte) /\ Len(t) \in Nat
    BY <2>1, Concats
  <2> QED
    BY <2>2, <2>3
<1>c. /\ cuts \subseteq 0..l
      /\ \A n \in cuts : n # l => \E w \in 1..4 : Fits(t, n, w) /\ n + w \in cuts
  BY <1>0 DEF Cut
<1>b. b \in Seq(Byte)
  BY DEF Whole
<1>1. ASSUME K # {} PROVE FALSE
  <2>1. PICK m \in K : \A y \in K : m <= y
    <3>1. K \in SUBSET Nat
      OBVIOUS
    <3> QED
      BY <1>1, <3>1, LeastOf
  <2>2. /\ m \in Nat /\ m <= l
        /\ \A k \in Nat : (k < m /\ l - k \in cuts) => Extended(t, b, drop, l - k)
    <3>1. m \in 0..l
      BY <1>0, <2>1
    <3>2. ASSUME NEW k \in Nat, k < m, l - k \in cuts PROVE Extended(t, b, drop, l - k)
      <4>1. k \notin K /\ k \in 0..Len(t)
        BY <1>0, <2>1, <3>1, <3>2
      <4> QED
        BY <1>0, <3>2, <4>1
    <3> QED
      BY <3>1, <3>2
  <2>3. PICK n \in Nat : n = l - m
    BY <2>2
  <2>4. n \in cuts /\ ~Extended(t, b, drop, n)
    BY <1>0, <2>1, <2>3
  <2> HIDE DEF K
  <2>5. CASE n = l
    <3>1. From(t, drop, n) = <<>>
      BY <1>0, <2>5, FromEnd
    <3>2. PICK w \in 1..4 : w = Len(b)
      BY DEF Whole
    <3>3. Fits(u, n, w) /\ Taken(u, n, w) = b /\ Len(u) = n + w
      BY <1>0, <1>b, <2>5, <3>2, TakenLast
    <3>4. From(u, drop, n + w) = <<>>
      BY <1>0, <3>3, FromEnd
    <3>5. KeptFirst(u, drop, n, w)
      BY <1>0, <3>2, <3>3, FromTakes
    <3>6. From(u, drop, n) = kept \o <<>>
      BY <1>0, <3>3, <3>4, <3>5, Zenon DEF KeptFirst
    <3>7. kept \o <<>> = <<>> \o kept
      BY <1>0
    <3> QED
      BY <1>0, <2>4, <3>1, <3>6, <3>7, Zenon DEF Extended
  <2>6. CASE n # l
    <3>1. PICK w \in 1..4 : Fits(t, n, w) /\ n + w \in cuts
      BY <1>c, <2>4, <2>6
    <3>2. Extended(t, b, drop, n + w)
      <4>1. n + w \in 0..l
        BY <1>c, <3>1
      <4>2. l - (n + w) \in Nat /\ l - (n + w) < m /\ l - (l - (n + w)) = n + w
        BY <2>2, <2>3, <3>1, <4>1
      <4> QED
        BY <2>2, <3>1, <4>2
    <3>3. Fits(u, n, w) /\ Taken(u, n, w) = Taken(t, n, w)
      BY <1>0, <1>b, <3>1, TakenLonger
    <3>4. KeptFirst(t, drop, n, w) /\ KeptFirst(u, drop, n, w)
      BY <1>0, <3>1, <3>3, FromTakes
    <3>5. PICK f \in Seq(Byte), x \in Seq(Byte) :
            f = From(t, drop, n + w) /\ x = Kept(Taken(t, n, w), drop)
      <4>1. n + w \in 0..Len(t) /\ w \in Nat
        BY <1>0, <1>c, <3>1
      <4>2. Bounded(t, drop, n + w)
        BY <4>1, FromBounded
      <4>3. Taken(t, n, w) \in Seq(Byte) /\ <<>> \in Seq(Byte)
        BY <4>1, TakenIs
      <4>4. Kept(Taken(t, n, w), drop) \in Seq(Byte)
        BY <4>3, Zenon DEF Kept
      <4> QED
        BY <4>2, <4>4 DEF Bounded
    <3>6. From(t, drop, n) = x \o f
      BY <3>4, <3>5, Zenon DEF KeptFirst
    <3>7. From(u, drop, n + w) = f \o kept
      BY <1>0, <3>2, <3>5, Zenon DEF Extended
    <3>8. From(u, drop, n) = x \o (f \o kept)
      BY <3>3, <3>4, <3>5, <3>7, Zenon DEF KeptFirst
    <3>9. x \o (f \o kept) = (x \o f) \o kept
      BY <1>0, <3>5
    <3> QED
      BY <1>0, <2>4, <3>6, <3>8, <3>9, Zenon DEF Extended
  <2> QED
    BY <2>5, <2>6
<1>2. ASSUME NEW n \in cuts PROVE Extended(t, b, drop, n)
  <2>1. n \in 0..l /\ l - n \in 0..l /\ l - (l - n) = n
    BY <1>0, <1>c
  <2> QED
    BY <1>0, <1>1, <2>1
<1> QED
  BY <1>2

\* A text cut into characters is all of them.
LEMMA CutWellFormed == ASSUME NEW t \in Seq(Byte), NEW cuts, Cut(t, cuts) PROVE WellFormed(t)
<1> DEFINE IsLeft(n) == From(t, {}, n) = SubSeq(t, n + 1, Len(t))
           K == {m \in 0..Len(t) : Len(t) - m \in cuts /\ ~IsLeft(Len(t) - m)}
<1>0. PICK l \in Nat : l = Len(t)
  OBVIOUS
<1>c. /\ cuts \subseteq 0..l /\ 0 \in cuts
      /\ \A n \in cuts : n # l => \E w \in 1..4 : Fits(t, n, w) /\ n + w \in cuts
  BY <1>0 DEF Cut
<1> HIDE DEF IsLeft
<1>1. ASSUME K # {} PROVE FALSE
  <2>1. PICK m \in K : \A y \in K : m <= y
    <3>1. K \in SUBSET Nat
      OBVIOUS
    <3> QED
      BY <1>1, <3>1, LeastOf
  <2>2. m \in Nat /\ m <= l /\ \A k \in Nat : k < m /\ l - k \in cuts => IsLeft(l - k)
    BY <1>0, <2>1
  <2>3. PICK n \in Nat : n = l - m
    BY <2>2
  <2>4. n \in cuts /\ ~IsLeft(n)
    BY <1>0, <2>1, <2>3
  <2> HIDE DEF K
  <2>5. CASE n = l
    <3>1. From(t, {}, n) = <<>>
      BY <1>0, <2>5, FromEnd
    <3>2. SubSeq(t, n + 1, Len(t)) = <<>>
      BY <1>0, <2>5
    <3> QED
      BY <2>4, <3>1, <3>2 DEF IsLeft
  <2>6. CASE n # l
    <3>1. PICK w \in 1..4 : Fits(t, n, w) /\ n + w \in cuts
      BY <1>c, <2>4, <2>6
    <3>2. n + w \in 0..l
      BY <1>c, <3>1
    <3>3. IsLeft(n + w)
      <4>1. l - (n + w) \in Nat /\ l - (n + w) < m /\ l - (l - (n + w)) = n + w
        BY <2>2, <2>3, <3>1, <3>2
      <4> QED
        BY <2>2, <3>1, <4>1
    <3>4. KeptFirst(t, {}, n, w)
      BY <3>1, FromTakes
    <3>5. Kept(Taken(t, n, w), {}) = Taken(t, n, w)
      BY DEF Kept
    <3>6. From(t, {}, n) = SubSeq(t, n + 1, n + w) \o SubSeq(t, n + w + 1, Len(t))
      BY <3>3, <3>4, <3>5, Zenon DEF IsLeft, KeptFirst, Taken
    <3>7. SubSeq(t, n + 1, n + w) \o SubSeq(t, n + w + 1, Len(t)) = SubSeq(t, n + 1, Len(t))
      <4>1. n + w \in Nat /\ n <= n + w /\ n + w <= Len(t)
        BY <1>0, <3>1, <3>2
      <4> QED
        BY <4>1, TwoParts
    <3> QED
      BY <2>4, <3>6, <3>7, Zenon DEF IsLeft
  <2> QED
    BY <2>5, <2>6
<1>2. IsLeft(0)
  <2>1. 0 \in cuts /\ l \in 0..l /\ l - l = 0
    BY <1>c
  <2> QED
    BY <1>0, <1>1, <2>1
<1>3. From(t, {}, 0) = SubSeq(t, 1, Len(t))
  BY <1>2 DEF IsLeft
<1>4. SubSeq(t, 1, Len(t)) = t
  OBVIOUS
<1>5. Following(t, {})[1] = From(t, {}, 0)
  BY DEF From
<1> QED
  BY <1>3, <1>4, <1>5 DEF WellFormed, Characters, Without
-----------------------------------------------------------------------------
(* The dump of any string, byte for byte.                                  *)

\* A character of t after its first m bytes is n bytes long so far and not yet whole.
Unfinished(t, m, n) ==
    /\ m + n <= Len(t) /\ Begin(t[m + 1]) /\ n < Width(t[m + 1])
    /\ n >= 2 => MayCome(t[m + 1], 1, t[m + 2])
    /\ n >= 3 => MayCome(t[m + 1], 2, t[m + 3])

\* How long a character is, and what its second byte is.
LEMMA WidthBounds == ASSUME NEW b, Begin(b) PROVE Width(b) \in 2..4 /\ b \in 194..244
BY LeadBounds DEF Begin

\* A byte that may come next leads from one unfinished character to a longer or to a whole one.
LEMMA Lengthens ==
    ASSUME NEW t \in Seq(Byte), NEW m \in Nat, NEW n \in 1..3, Unfinished(t, m, n),
           m + n < Len(t), MayCome(t[m + 1], n, t[m + n + 1])
    PROVE  IF n + 1 = Width(t[m + 1]) THEN Fits(t, m, n + 1) ELSE Unfinished(t, m, n + 1)
<1>1. PICK b \in 194..244, w \in 2..4 : b = t[m + 1] /\ w = Width(b) /\ Begin(b)
  BY WidthBounds DEF Unfinished
<1>2. n < w /\ m + (n + 1) <= Len(t)
  BY <1>1 DEF Unfinished
<1>3. n = 1 \/ n = 2 \/ n = 3
  OBVIOUS
<1>4. /\ MayCome(b, 1, t[m + 2])
      /\ n >= 2 => MayCome(b, 2, t[m + 3])
      /\ n >= 3 => MayCome(b, 3, t[m + 4])
  <2>1. CASE n = 1
    <3>1. m + n + 1 = m + 2
      BY <2>1
    <3> QED
      BY <1>1, <2>1, <3>1
  <2>2. CASE n = 2
    <3>1. m + n + 1 = m + 3
      BY <2>2
    <3> QED
      BY <1>1, <2>2, <3>1 DEF Unfinished
  <2>3. CASE n = 3
    <3>1. m + n + 1 = m + 4
      BY <2>3
    <3> QED
      BY <1>1, <2>3, <3>1 DEF Unfinished
  <2> QED
    BY <1>3, <2>1, <2>2, <2>3
<1>5. CASE n + 1 = w
  <2>1. t[m + 2] \in Second(b)
    BY <1>4 DEF MayCome
  <2>2. ASSUME NEW k \in 3..(n + 1) PROVE t[m + k] \in 128..191
    <3>1. k = 3 \/ k = 4
      OBVIOUS
    <3>2. CASE k = 3
      BY <1>4, <2>2, <3>2 DEF MayCome
    <3>3. CASE k = 4
      BY <1>4, <2>2, <3>3 DEF MayCome
    <3> QED
      BY <3>1, <3>2, <3>3
  <2>3. Fits(t, m, n + 1)
    BY <1>1, <1>2, <1>5, <2>1, <2>2, Zenon DEF Fits
  <2> QED
    BY <1>1, <1>5, <2>3
<1>6. CASE n + 1 # w
  <2>1. n + 1 < w
    BY <1>2, <1>6
  <2>2. Unfinished(t, m, n + 1)
    BY <1>1, <1>2, <1>4, <2>1 DEF Unfinished
  <2> QED
    BY <1>1, <1>6, <2>2
<1> QED
  BY <1>5, <1>6

\* Bytes that go on with a character begin none.
LEMMA NoneAtTrail ==
    ASSUME NEW t, NEW n, t[n + 1] \notin 0..127, t[n + 1] \notin 194..244
    PROVE  NoneFits(t, n)
BY Zenon DEF NoneFits, Fits

\* An unfinished character that the text or a wrong byte ends is none, from no place in it.
LEMMA EndsEarly ==
    ASSUME NEW t \in Seq(Byte), NEW m \in Nat, NEW n \in 1..3, Unfinished(t, m, n),
           m + n = Len(t) \/ ~MayCome(t[m + 1], n, t[m + n + 1])
    PROVE  \A k \in m..(m + n - 1) : NoneFits(t, k)
<1>1. PICK b \in 194..244, w \in 2..4 : b = t[m + 1] /\ w = Width(b) /\ Begin(b)
  BY WidthBounds DEF Unfinished
<1>2. n < w /\ m + n <= Len(t)
  BY <1>1 DEF Unfinished
<1>3. n = 1 \/ n = 2 \/ n = 3
  OBVIOUS
<1>4. NoneFits(t, m)
  <2> SUFFICES ASSUME NEW v \in 1..4, Fits(t, m, v) PROVE FALSE
    BY DEF NoneFits
  <2>1. b \notin 0..127
    OBVIOUS
  <2>2. /\ m + v <= Len(t) /\ v = w
        /\ t[m + 2] \in Second(b) /\ \A k \in 3..v : t[m + k] \in 128..191
    BY <1>1, <2>1, Zenon DEF Fits
  <2>3. m + n # Len(t)
    BY <1>2, <2>2
  <2>4. CASE n = 1
    <3>1. m + n + 1 = m + 2
      BY <2>4
    <3> QED
      BY <1>1, <2>2, <2>3, <2>4, <3>1 DEF MayCome
  <2>5. CASE n # 1
    <3>1. n + 1 \in 3..v /\ m + n + 1 = m + (n + 1)
      BY <1>2, <2>2, <2>5
    <3>2. t[m + n + 1] \in 128..191
      BY <2>2, <3>1, Zenon
    <3> QED
      BY <2>3, <2>5, <3>2, Zenon DEF MayCome
  <2> QED
    BY <2>4, <2>5
<1>5. n >= 2 => NoneFits(t, m + 1)
  <2> SUFFICES ASSUME n >= 2 PROVE NoneFits(t, m + 1)
    OBVIOUS
  <2>1. t[m + 2] \in 128..191
    <3>1. MayCome(b, 1, t[m + 2])
      BY <1>1 DEF Unfinished
    <3>2. Beginning(b)
      BY <1>1, WidthIs
    <3> QED
      BY <3>1, <3>2 DEF MayCome, Beginning
  <2>2. t[(m + 1) + 1] = t[m + 2]
    OBVIOUS
  <2>3. PICK x \in 128..191 : x = t[(m + 1) + 1]
    BY <2>1, <2>2
  <2>4. x \notin 0..127 /\ x \notin 194..244
    OBVIOUS
  <2>5. t[(m + 1) + 1] \notin 0..127 /\ t[(m + 1) + 1] \notin 194..244
    BY <2>3, <2>4, Zenon
  <2> QED
    BY ONLY <2>5, NoneAtTrail, Zenon
<1>6. n >= 3 => NoneFits(t, m + 2)
  <2> SUFFICES ASSUME n >= 3 PROVE NoneFits(t, m + 2)
    OBVIOUS
  <2>1. t[m + 3] \in 128..191
    BY <1>1 DEF Unfinished, MayCome
  <2>2. t[(m + 2) + 1] = t[m + 3]
    OBVIOUS
  <2>3. PICK x \in 128..191 : x = t[(m + 2) + 1]
    BY <2>1, <2>2
  <2>4. x \notin 0..127 /\ x \notin 194..244
    OBVIOUS
  <2>5. t[(m + 2) + 1] \notin 0..127 /\ t[(m + 2) + 1] \notin 194..244
    BY <2>3, <2>4, Zenon
  <2> QED
    BY ONLY <2>5, NoneAtTrail, Zenon
<1>7. ASSUME NEW k \in m..(m + n - 1) PROVE NoneFits(t, k)
  <2>1. k = m \/ (k = m + 1 /\ n >= 2) \/ (k = m + 2 /\ n >= 3)
    BY <1>3
  <2> QED
    BY <1>4, <1>5, <1>6, <2>1
<1> QED
  BY <1>7

\* A byte that may not come next is rejected.
LEMMA FollowsNot ==
    ASSUME NEW b \in 194..244, NEW w, w = Width(b), NEW k \in 1..3, k < w,
           NEW x \in Byte, ~MayCome(b, k, x)
    PROVE  Moves(At(b, w, k), Type(x)) = REJECT
<1> USE DEF REJECT
<1>0. x \in Int /\ 0 <= x /\ x <= 255
  BY DEF Byte
<1>1. CASE k # 1
  <2>0. ~(128 <= x /\ x <= 191)
    BY <1>0, <1>1 DEF MayCome
  <2>1. Moves(2, Type(x)) = 1 /\ Moves(3, Type(x)) = 1
    BY <1>0, <2>0, SMT DEF Moves, Type
  <2>2. At(b, w, k) = 2 \/ At(b, w, k) = 3
    BY <1>1 DEF At
  <2> QED
    BY <2>1, <2>2, Zenon
<1>2. CASE k = 1
  <2>1. At(b, w, k) = Begins[Type(b) + 1] /\ x \notin Second(b)
    BY <1>2 DEF At, MayCome
  <2>2. CASE b <= 223
    <3>1. At(b, w, k) = 2 /\ x \notin 128..191
      BY <2>1, <2>2, Lead
    <3>2. Moves(2, Type(x)) = 1
      BY <1>0, <3>1, SMT DEF Moves, Type
    <3> QED
      BY <3>1, <3>2
  <2>3. CASE b = 224
    <3>1. At(b, w, k) = 4 /\ x \notin 160..191
      BY <2>1, <2>3, Lead
    <3>2. Moves(4, Type(x)) = 1
      BY <1>0, <3>1, SMT DEF Moves, Type
    <3> QED
      BY <3>1, <3>2
  <2>4. CASE b \in 225..239 /\ b # 237
    <3>1. At(b, w, k) = 3 /\ x \notin 128..191
      BY <2>1, <2>4, Lead
    <3>2. Moves(3, Type(x)) = 1
      BY <1>0, <3>1, SMT DEF Moves, Type
    <3> QED
      BY <3>1, <3>2
  <2>5. CASE b = 237
    <3>1. At(b, w, k) = 5 /\ x \notin 128..159
      BY <2>1, <2>5, Lead
    <3>2. Moves(5, Type(x)) = 1
      BY <1>0, <3>1, SMT DEF Moves, Type
    <3> QED
      BY <3>1, <3>2
  <2>6. CASE b = 240
    <3>1. At(b, w, k) = 6 /\ x \notin 144..191
      BY <2>1, <2>6, Lead
    <3>2. Moves(6, Type(x)) = 1
      BY <1>0, <3>1, SMT DEF Moves, Type
    <3> QED
      BY <3>1, <3>2
  <2>7. CASE b \in 241..243
    <3>1. At(b, w, k) = 7 /\ x \notin 128..191
      BY <2>1, <2>7, Lead
    <3>2. Moves(7, Type(x)) = 1
      BY <1>0, <3>1, SMT DEF Moves, Type
    <3> QED
      BY <3>1, <3>2
  <2>8. CASE b = 244
    <3>1. At(b, w, k) = 8 /\ x \notin 128..143
      BY <2>1, <2>8, Lead
    <3>2. Moves(8, Type(x)) = 1
      BY <1>0, <3>1, SMT DEF Moves, Type
    <3> QED
      BY <3>1, <3>2
  <2> QED
    BY <2>2, <2>3, <2>4, <2>5, <2>6, <2>7, <2>8
<1> QED
  BY <1>1, <1>2

\* Where a byte leads between two characters, and what it brings.
LEMMA FirstByte ==
    ASSUME NEW x \in Byte
    PROVE  /\ x \in 0..127 => Begins[Type(x) + 1] = 0 /\ x % Mask[Type(x) + 1] = x
           /\ Begin(x) => Begins[Type(x) + 1] \in 2..8 /\ x % Mask[Type(x) + 1] = Bits(x)
           /\ x \notin 0..127 /\ ~Begin(x) => Begins[Type(x) + 1] = 1
<1>0. x \in Int /\ 0 <= x /\ x <= 255
  BY DEF Byte
<1>1. CASE x \in 0..127
  <2>1. Type(x) = 0
    BY <1>1, TypeOfPlain
  <2>2. Begins[0 + 1] = 0 /\ Mask[0 + 1] = 256
    BY DEF Begins, Mask
  <2>3. x % 256 = x
    BY <1>0, <1>1, SMT
  <2> QED
    BY <1>1, <2>1, <2>2, <2>3 DEF Begin
<1>2. CASE Begin(x)
  <2>0. x \in 194..244
    BY <1>2 DEF Begin
  <2>1. Begins[Type(x) + 1] \in 2..8
    BY <2>0, LeadBounds
  <2>2. x % Mask[Type(x) + 1] = Bits(x)
    <3>0. Mask[2 + 1] = 64 /\ Mask[10 + 1] = 1 /\ Mask[3 + 1] = 32 /\ Mask[4 + 1] = 16
          /\ Mask[11 + 1] = 1 /\ Mask[6 + 1] = 4 /\ Mask[5 + 1] = 8
      BY DEF Mask
    <3>1. CASE x <= 223
      <4>1. Type(x) = 2
        BY <2>0, <3>1 DEF Type
      <4>2. x % 64 = Bits(x)
        BY <2>0, <3>1, SMT DEF Bits
      <4> QED
        BY <3>0, <4>1, <4>2
    <3>2. CASE x = 224
      <4>1. Type(x) = 10
        BY <2>0, <3>2 DEF Type
      <4>2. x % 1 = Bits(x)
        BY <2>0, <3>2, SMT DEF Bits
      <4> QED
        BY <3>0, <4>1, <4>2
    <3>3. CASE x \in 225..239 /\ x # 237
      <4>1. Type(x) = 3
        BY <2>0, <3>3 DEF Type
      <4>2. x % 32 = Bits(x)
        BY <2>0, <3>3, SMT DEF Bits
      <4> QED
        BY <3>0, <4>1, <4>2
    <3>4. CASE x = 237
      <4>1. Type(x) = 4
        BY <2>0, <3>4 DEF Type
      <4>2. x % 16 = Bits(x)
        BY <2>0, <3>4, SMT DEF Bits
      <4> QED
        BY <3>0, <4>1, <4>2
    <3>5. CASE x = 240
      <4>1. Type(x) = 11
        BY <2>0, <3>5 DEF Type
      <4>2. x % 1 = Bits(x)
        BY <2>0, <3>5, SMT DEF Bits
      <4> QED
        BY <3>0, <4>1, <4>2
    <3>6. CASE x \in 241..243
      <4>1. Type(x) = 6
        BY <2>0, <3>6 DEF Type
      <4>2. x % 4 = Bits(x)
        BY <2>0, <3>6, SMT DEF Bits
      <4> QED
        BY <3>0, <4>1, <4>2
    <3>7. CASE x = 244
      <4>1. Type(x) = 5
        BY <2>0, <3>7 DEF Type
      <4>2. x % 8 = Bits(x)
        BY <2>0, <3>7, SMT DEF Bits
      <4> QED
        BY <3>0, <4>1, <4>2
    <3> QED
      BY <2>0, <3>1, <3>2, <3>3, <3>4, <3>5, <3>6, <3>7
  <2> QED
    BY <1>2, <2>0, <2>1, <2>2
<1>3. CASE x \notin 0..127 /\ ~Begin(x)
  <2>1. Type(x) \in {1, 7, 8, 9}
    BY <1>0, <1>3 DEF Begin, Type
  <2>2. Begins[1 + 1] = 1 /\ Begins[7 + 1] = 1 /\ Begins[8 + 1] = 1 /\ Begins[9 + 1] = 1
    BY DEF Begins
  <2> QED
    BY <1>3, <2>1, <2>2
<1> QED
  BY <1>1, <1>2, <1>3
-----------------------------------------------------------------------------
(* What is written is read as what it was written for.                     *)

\* x is what is written for the character y.
Plainly(x, y) == x = y /\ Whole(y) /\ y[1] >= 32 /\ y[1] \notin {Quote, Backslash}
Shortly(x, y) == \E c \in DOMAIN Short : x = <<Backslash, Short[c]>> /\ y = <<c>>
InHex(x, y) ==
    \E c \in Int :
      /\ IsScalar(c) /\ y = Utf8(c)
      /\ x = IF c < 65536 THEN Hex(c) ELSE Hex(HighOf(c)) \o Hex(LowOf(c))

Emitted(x, y) == Plainly(x, y) \/ Shortly(x, y) \/ InHex(x, y)

\* Bytes are numbers.
LEMMA BytesAreInts == ASSUME NEW t \in Seq(Byte) PROVE t \in Seq(Int)
<1>1. \A k \in 1..Len(t) : t[k] \in Int
  <2>1. \A k \in 1..Len(t) : t[k] \in Byte
    OBVIOUS
  <2>2. \A x \in Byte : x \in Int
    BY DEF Byte
  <2> QED
    BY <2>1, <2>2
<1> QED
  BY <1>1

\* Two escapes are a sequence of twelve numbers.
LEMMA HexPair ==
    ASSUME NEW a \in Int, NEW b \in Int
    PROVE  Hex(a) \o Hex(b) \in Seq(Int) /\ Len(Hex(a) \o Hex(b)) = 12
<1>1. PICK x \in Seq(Int), y \in Seq(Int) : x = Hex(a) /\ y = Hex(b) /\ Len(x) = 6 /\ Len(y) = 6
  BY HexInts
<1>2. x \o y \in Seq(Int) /\ Len(x \o y) = Len(x) + Len(y)
  BY Concatenated
<1> QED
  BY <1>1, <1>2

\* Something is written for every character, and characters are whole.
LEMMA EmittedTypes ==
    ASSUME NEW x, NEW y, Emitted(x, y)
    PROVE  x \in Seq(Int) /\ Len(x) \in 1..12 /\ Whole(y)
<1>1. CASE Plainly(x, y)
  <2>1. x = y /\ Whole(y) /\ y \in Seq(Byte) /\ Len(y) \in 1..4
    BY <1>1 DEF Plainly, Whole
  <2> QED
    BY <2>1, BytesAreInts
<1>2. CASE Shortly(x, y)
  <2>1. PICK c \in DOMAIN Short : x = <<Backslash, Short[c]>> /\ y = <<c>>
    BY <1>2 DEF Shortly
  <2>2. c \in 0..127 /\ Short[c] \in Int
    BY SMT DEF Short
  <2> QED
    BY <2>1, <2>2 DEF Backslash, Whole, Fits, Byte
<1>3. CASE InHex(x, y)
  <2>1. PICK c \in Int :
          /\ IsScalar(c) /\ y = Utf8(c)
          /\ x = IF c < 65536 THEN Hex(c) ELSE Hex(HighOf(c)) \o Hex(LowOf(c))
    BY <1>3 DEF InHex
  <2>2. Whole(y)
    BY <2>1, CharacterBytes DEF Whole
  <2>3. HighOf(c) \in Int /\ LowOf(c) \in Int
    BY SMT DEF HighOf, LowOf
  <2>4. Hex(c) \in Seq(Int) /\ Len(Hex(c)) = 6
    BY HexInts
  <2>5. /\ Hex(HighOf(c)) \o Hex(LowOf(c)) \in Seq(Int)
        /\ Len(Hex(HighOf(c)) \o Hex(LowOf(c))) = 12
    BY <2>3, HexPair
  <2>6. x \in Seq(Int) /\ (Len(x) = 6 \/ Len(x) = 12)
    <3>1. CASE c < 65536
      <4>1. x = Hex(c)
        BY <2>1, <3>1
      <4> QED
        BY <2>4, <4>1
    <3>2. CASE ~(c < 65536)
      <4>1. x = Hex(HighOf(c)) \o Hex(LowOf(c))
        BY <2>1, <3>2
      <4> QED
        BY <2>5, <4>1
    <3> QED
      BY <3>1, <3>2
  <2> QED
    BY <2>2, <2>6
<1> QED
  BY <1>1, <1>2, <1>3 DEF Emitted

\* How a code point is written.
LEMMA DumpedIs ==
    ASSUME NEW c \in Int, NEW b
    PROVE  /\ c \in DOMAIN Short => Dumped(c, b) = <<Backslash, Short[c]>>
           /\ IsHex(c) /\ c <= 65535 => Dumped(c, b) = Hex(c)
           /\ IsHex(c) /\ ~(c <= 65535) => Dumped(c, b) = Hex(HighOf(c)) \o Hex(LowOf(c))
           /\ c \notin DOMAIN Short /\ ~IsHex(c) => Dumped(c, b) = <<b>>
<1>0. IsHex(c) => c \notin DOMAIN Short
  BY DEF IsHex
<1>1. CASE c \in DOMAIN Short
  BY <1>0, <1>1, SMT DEF Dumped
<1>2. CASE IsHex(c) /\ c <= 65535
  BY <1>0, <1>2, SMT DEF Dumped
<1>3. CASE IsHex(c) /\ ~(c <= 65535)
  <2>1. c > 65535
    BY <1>3
  <2> QED
    BY <1>0, <1>3, <2>1, SMT DEF Dumped
<1>4. CASE c \notin DOMAIN Short /\ ~IsHex(c)
  BY <1>4, SMT DEF Dumped
<1> QED
  BY <1>1, <1>2, <1>3, <1>4

\* A byte below 128 is written as itself or as an escape.
LEMMA DumpedPlain ==
    ASSUME NEW x \in 0..127, ensure_ascii \in BOOLEAN
    PROVE  Emitted(Dumped(x, x), <<x>>)
<1>1. CASE x \in DOMAIN Short
  <2>1. Dumped(x, x) = <<Backslash, Short[x]>>
    BY <1>1, DumpedIs
  <2> QED
    BY <1>1, <2>1 DEF Emitted, Shortly
<1>2. CASE x \notin DOMAIN Short /\ IsHex(x)
  <2>0. x <= 65535
    OBVIOUS
  <2>1. Dumped(x, x) = Hex(x)
    BY <1>2, <2>0, DumpedIs
  <2>2. Utf8(x) = <<x>> /\ IsScalar(x) /\ x < 65536 /\ x \in Int
    BY DEF Utf8, IsScalar
  <2>3. InHex(Dumped(x, x), <<x>>)
    BY <2>1, <2>2 DEF InHex
  <2> QED
    BY <2>3 DEF Emitted
<1>3. CASE x \notin DOMAIN Short /\ ~IsHex(x)
  <2>1. Dumped(x, x) = <<x>>
    BY <1>3, DumpedIs
  <2>2. x >= 32 /\ x # 34 /\ x # 92
    BY <1>3 DEF Short, IsHex
  <2>3. Whole(<<x>>)
    BY DEF Whole, Fits, Byte
  <2>4. Plainly(<<x>>, <<x>>)
    BY <2>2, <2>3 DEF Plainly, Quote, Backslash
  <2> QED
    BY <2>1, <2>4 DEF Emitted
<1> QED
  BY <1>1, <1>2, <1>3

\* A longer character is written as its bytes, or as an escape.
LEMMA DumpedMany ==
    ASSUME NEW t \in Seq(Byte), NEW n \in Nat, NEW w \in 2..4, Fits(t, n, w),
           ensure_ascii \in BOOLEAN, NEW b
    PROVE  /\ ensure_ascii => Emitted(Dumped(Part(t, n, w), b), Taken(t, n, w))
           /\ ~ensure_ascii => /\ Dumped(Part(t, n, w), b) = <<b>>
                               /\ Emitted(Taken(t, n, w), Taken(t, n, w))
<1>1. PICK c \in Int, u \in {Taken(t, n, w)} : c = Part(t, n, w)
                         /\ u = Taken(t, n, w) /\ IsScalar(c) /\ 128 <= c /\ Utf8(c) = u
  BY FitsEncodes DEF Encodes
<1>2. c \notin DOMAIN Short
  BY <1>1 DEF Short
<1>3. CASE ensure_ascii
  <2>1. IsHex(c)
    BY <1>1, <1>2, <1>3 DEF IsHex
  <2>2. Dumped(c, b) = IF c < 65536 THEN Hex(c) ELSE Hex(HighOf(c)) \o Hex(LowOf(c))
    <3>1. CASE c < 65536
      BY <1>2, <2>1, <3>1, DumpedIs
    <3>2. CASE ~(c < 65536)
      <4>1. ~(c <= 65535) /\ c > 65535
        BY <3>2
      <4> QED
        BY <1>2, <2>1, <4>1, DumpedIs
    <3> QED
      BY <3>1, <3>2
  <2>3. InHex(Dumped(c, b), u)
    <3>1. PICK z : z = Dumped(c, b)
      OBVIOUS
    <3>2. InHex(z, u)
      BY <1>1, <2>2, <3>1 DEF InHex
    <3> QED
      BY <3>1, <3>2
  <2> QED
    BY <1>1, <1>3, <2>3 DEF Emitted
<1>4. CASE ~ensure_ascii
  <2>1. ~IsHex(c)
    BY <1>1, <1>4 DEF IsHex
  <2>2. Dumped(c, b) = <<b>>
    BY <1>2, <2>1, DumpedIs
  <2>3. n + w <= Len(t) /\ w \in Nat /\ w \in 1..4
    BY FitsMany
  <2>4. Whole(u)
    BY <1>1, <2>3, FitsWhole
  <2>5. u[1] = t[n + 1]
    BY <1>1, <2>3, TakenIs
  <2>6. t[n + 1] \in 194..244
    BY FitsMany
  <2>7. Plainly(u, u)
    <3>1. PICK x \in 194..244 : x = u[1]
      BY <2>5, <2>6
    <3>2. x >= 32 /\ x # 34 /\ x # 92
      OBVIOUS
    <3> QED
      BY <2>4, <3>1, <3>2 DEF Plainly, Quote, Backslash
  <2> QED
    BY <1>1, <1>4, <2>2, <2>7 DEF Emitted
<1> QED
  BY <1>3, <1>4

\* What replaces bytes is written for the replacement character.
LEMMA ReplacementEmitted ==
    ASSUME ensure_ascii \in BOOLEAN
    PROVE  Emitted(Replacement, Utf8(ReplacementCharacter))
<1>1. Utf8(65533) = <<239, 191, 189>>
  <2>1. 65533 \div 4096 = 15 /\ Trail(65533 \div 64) = 191 /\ Trail(65533) = 189
    BY SMT DEF Trail
  <2>2. Three(65533) = <<239, 191, 189>>
    BY <2>1, SMT DEF Three
  <2> QED
    BY <2>2, SMT DEF Utf8
<1>2. IsScalar(65533)
  BY SMT DEF IsScalar
<1>3. CASE ensure_ascii
  <2>1. Replacement = Hex(65533)
    BY <1>3 DEF Replacement, ReplacementCharacter
  <2>2. InHex(Hex(65533), Utf8(65533))
    BY <1>2 DEF InHex
  <2> QED
    BY <2>1, <2>2 DEF Emitted, ReplacementCharacter
<1>4. CASE ~ensure_ascii
  <2>1. Replacement = <<239, 191, 189>>
    BY <1>4 DEF Replacement
  <2>2. Whole(Utf8(65533))
    BY <1>2, CharacterBytes DEF Whole
  <2>3. Plainly(<<239, 191, 189>>, <<239, 191, 189>>)
    BY <1>1, <2>2 DEF Plainly, Quote, Backslash
  <2> QED
    BY <1>1, <2>1, <2>3 DEF Emitted, ReplacementCharacter
<1> QED
  BY <1>3, <1>4
-----------------------------------------------------------------------------
\* x is in t after its first p elements.
Occurs(x, t, p) == p + Len(x) <= Len(t) /\ \A k \in 1..Len(x) : t[p + k] = x[k]

\* Something in O at p is written for a character in v at q, and D goes on behind both.
Reads(O, v, D, p, q) ==
    \E x, y : /\ Emitted(x, y) /\ Occurs(x, O, p) /\ Occurs(y, v, q)
              /\ <<p + Len(x), q + Len(y)>> \in D

\* O is what is written for v: D has the places in O and in v where one thing that is written
\* ends and the next begins.
ReadsBy(O, v, D) ==
    /\ D \subseteq (0..Len(O)) \X (0..Len(v))
    /\ <<0, 0>> \in D /\ <<Len(O), Len(v)>> \in D
    /\ \A p \in 0..Len(O), q \in 0..Len(v) :
         <<p, q>> \in D /\ <<p, q>> # <<Len(O), Len(v)>> => Reads(O, v, D, p, q)

\* What is in a text is there with more behind it, and that is at its end.
LEMMA OccursOn ==
    ASSUME NEW t \in Seq(Int), NEW z \in Seq(Int)
    PROVE  /\ Occurs(z, t \o z, Len(t))
           /\ \A x \in Seq(Int), p \in Nat : Occurs(x, t, p) => Occurs(x, t \o z, p)
<1>1. PICK u \in Seq(Int) : u = t \o z
  BY Concatenated
<1>2. /\ Len(u) = Len(t) + Len(z)
      /\ \A k \in 1..Len(t) : u[k] = t[k]
      /\ \A k \in 1..Len(z) : u[Len(t) + k] = z[k]
  BY <1>1
<1>3. Occurs(z, u, Len(t))
  BY <1>2 DEF Occurs
<1>4. ASSUME NEW x \in Seq(Int), NEW p \in Nat, Occurs(x, t, p) PROVE Occurs(x, u, p)
  <2>1. p + Len(x) <= Len(t) /\ \A k \in 1..Len(x) : t[p + k] = x[k]
    BY <1>4 DEF Occurs
  <2>2. p + Len(x) <= Len(u)
    BY <1>2, <2>1
  <2>3. ASSUME NEW k \in 1..Len(x) PROVE u[p + k] = x[k]
    <3>1. p + k \in 1..Len(t)
      BY <2>1
    <3>2. u[p + k] = t[p + k]
      BY <1>2, <3>1
    <3> QED
      BY <2>1, <3>2
  <2> QED
    BY <2>2, <2>3 DEF Occurs
<1> QED
  BY <1>1, <1>3, <1>4

\* One more thing written is one more to read.
LEMMA ReadsAppend ==
    ASSUME NEW O \in Seq(Int), NEW v \in Seq(Byte), NEW D, ReadsBy(O, v, D),
           NEW x, NEW y, Emitted(x, y)
    PROVE  \E E : ReadsBy(O \o x, v \o y, E)
<1>1. x \in Seq(Int) /\ Len(x) \in 1..12 /\ y \in Seq(Byte) /\ Len(y) \in 1..4
  BY EmittedTypes DEF Whole
<1>2. v \in Seq(Int) /\ y \in Seq(Int)
  BY <1>1, BytesAreInts
<1>3. PICK P \in Seq(Int), u \in Seq(Int), l \in Nat, m \in Nat, a \in 1..12, c \in 1..4 :
        /\ P = O \o x /\ u = v \o y
        /\ l = Len(O) /\ m = Len(v) /\ a = Len(x) /\ c = Len(y)
  <2>1. O \o x \in Seq(Int) /\ v \o y \in Seq(Int) /\ Len(O) \in Nat /\ Len(v) \in Nat
    BY <1>1, <1>2, Concatenated
  <2> QED
    BY <1>1, <2>1
<1>4. Len(P) = l + a /\ Len(u) = m + c
  BY <1>1, <1>2, <1>3, Concatenated
<1>5. /\ D \subseteq (0..l) \X (0..m) /\ <<0, 0>> \in D /\ <<l, m>> \in D
      /\ \A p \in 0..l, q \in 0..m : <<p, q>> \in D /\ <<p, q>> # <<l, m>> => Reads(O, v, D, p, q)
  BY <1>3 DEF ReadsBy
<1> DEFINE E == D \cup {<<l + a, m + c>>}
<1>6. E \subseteq (0..(l + a)) \X (0..(m + c)) /\ <<0, 0>> \in E /\ <<l + a, m + c>> \in E
  BY <1>5
<1>7. ASSUME NEW p \in 0..(l + a), NEW q \in 0..(m + c), <<p, q>> \in E,
             <<p, q>> # <<l + a, m + c>>
      PROVE  Reads(P, u, E, p, q)
  <2>1. <<p, q>> \in D /\ p \in 0..l /\ q \in 0..m
    BY <1>5, <1>7
  <2>2. CASE <<p, q>> = <<l, m>>
    <3>1. p = l /\ q = m /\ <<p + a, q + c>> \in E
      BY <2>2
    <3>2. Occurs(x, P, p) /\ Occurs(y, u, q)
      BY <1>1, <1>2, <1>3, <3>1, OccursOn
    <3> QED
      BY <1>3, <3>1, <3>2, Zenon DEF Reads
  <2>3. CASE <<p, q>> # <<l, m>>
    <3>1. PICK x2, y2 : /\ Emitted(x2, y2) /\ Occurs(x2, O, p) /\ Occurs(y2, v, q)
                        /\ <<p + Len(x2), q + Len(y2)>> \in D
      BY <1>5, <2>1, <2>3 DEF Reads
    <3>2. x2 \in Seq(Int) /\ y2 \in Seq(Int)
      BY <3>1, EmittedTypes, BytesAreInts DEF Whole
    <3>3. Occurs(x2, P, p) /\ Occurs(y2, u, q)
      BY <1>1, <1>2, <1>3, <2>1, <3>1, <3>2, OccursOn
    <3>4. <<p + Len(x2), q + Len(y2)>> \in E
      BY <3>1
    <3> QED
      BY <3>1, <3>3, <3>4, Zenon DEF Reads
  <2> QED
    BY <2>2, <2>3
<1> HIDE DEF E
<1>8. ReadsBy(P, u, E)
  BY <1>4, <1>6, <1>7 DEF ReadsBy
<1> QED
  BY <1>3, <1>8

\* Nothing is written for no character.
LEMMA ReadsNone == ReadsBy(<<>>, <<>>, {<<0, 0>>})
BY DEF ReadsBy
-----------------------------------------------------------------------------
(* A text, and what has been made of its first bytes.                      *)

\* v holds what of t's first m bytes is characters, and but for drop nothing else; as long as
\* nothing was left out of it, it is those bytes.
Same(t, v, m) == v = SubSeq(t, 1, m) /\ Characters(t) = v \o From(t, {}, m)
Adding(t, drop, v, m) == Without(v, drop) \o From(t, drop, m) = Without(t, drop)
Holds(t, drop, v, m) ==
    /\ v \in Seq(Byte) /\ m \in 0..Len(t)
    /\ \E cuts : Cut(v, cuts)
    /\ Adding(t, drop, v, m)
    /\ Same(t, v, m) \/ ~WellFormed(t)

\* The characters of a text are those from its first byte on.
LEMMA WithoutFrom == ASSUME NEW t, NEW drop PROVE Without(t, drop) = From(t, drop, 0)
BY DEF Without, From

\* They are bytes.
LEMMA FromBytes ==
    ASSUME NEW t \in Seq(Byte), NEW drop, NEW n \in 0..Len(t)
    PROVE  From(t, drop, n) \in Seq(Byte) /\ Len(From(t, drop, n)) <= Len(t) - n
BY FromBounded DEF Bounded

\* At first nothing is made of any byte.
LEMMA HoldsStart == ASSUME NEW t \in Seq(Byte), NEW drop PROVE Holds(t, drop, <<>>, 0)
<1>1. Cut(<<>>, {0})
  BY DEF Cut
<1>2. <<>> \in Seq(Byte) /\ Len(<<>>) = 0 /\ 0 \in 0..Len(t) /\ SubSeq(t, 1, 0) = <<>>
  OBVIOUS
<1>3. ASSUME NEW d PROVE Without(<<>>, d) = <<>> /\ <<>> \o From(t, d, 0) = Without(t, d)
  <2>1. From(<<>>, d, 0) = <<>>
    BY <1>2, FromEnd
  <2>2. PICK f \in Seq(Byte) : f = From(t, d, 0)
    BY <1>2, FromBytes
  <2>3. <<>> \o f = f
    OBVIOUS
  <2> QED
    BY <2>1, <2>2, <2>3, WithoutFrom
<1>4. Same(t, <<>>, 0)
  BY <1>2, <1>3, Zenon DEF Same, Characters
<1>5. Adding(t, drop, <<>>, 0)
  BY <1>3, Zenon DEF Adding
<1> QED
  BY <1>1, <1>2, <1>4, <1>5, Zenon DEF Holds

\* A first part of a text and the part behind it.
LEMMA FirstParts ==
    ASSUME NEW t \in Seq(Byte), NEW m \in Nat, NEW w \in Nat, m + w <= Len(t)
    PROVE  SubSeq(t, 1, m) \o Taken(t, m, w) = SubSeq(t, 1, m + w)
<1>1. PICK z : z = SubSeq(t, 1, m + w)
  OBVIOUS
<1>2. PICK x \in Seq(Byte) :
        x = SubSeq(t, 1, m) /\ Len(x) = m /\ \A k \in 1..m : x[k] = t[k]
  <2>1. PICK y : y = SubSeq(t, 1, m)
    OBVIOUS
  <2>2. y \in Seq(Byte) /\ Len(y) = m /\ \A k \in 1..m : y[k] = t[k]
    BY <2>1
  <2> QED
    BY <2>1, <2>2
<1>3. z \in Seq(Byte) /\ Len(z) = m + w /\ \A k \in 1..(m + w) : z[k] = t[k]
  BY <1>1
<1>4. PICK y \in Seq(Byte) :
        y = Taken(t, m, w) /\ Len(y) = w /\ \A k \in 1..w : y[k] = t[m + k]
  BY TakenIs
<1>5. PICK u \in Seq(Byte) : u = x \o y
  BY Concats
<1>6. /\ Len(u) = m + w
      /\ \A k \in 1..m : u[k] = x[k]
      /\ \A k \in 1..w : u[m + k] = y[k]
  <2>1. /\ Len(u) = Len(x) + Len(y)
        /\ \A k \in 1..Len(x) : u[k] = x[k]
        /\ \A k \in 1..Len(y) : u[Len(x) + k] = y[k]
    BY <1>5
  <2> QED
    BY <1>2, <1>4, <2>1
<1>7. ASSUME NEW k \in 1..(m + w) PROVE u[k] = z[k]
  <2>1. CASE k <= m
    <3>1. k \in 1..m
      BY <2>1
    <3> QED
      BY <1>2, <1>3, <1>6, <3>1
  <2>2. CASE ~(k <= m)
    <3>1. k - m \in 1..w /\ m + (k - m) = k
      BY <2>2
    <3> QED
      BY <1>3, <1>4, <1>6, <3>1
  <2> QED
    BY <2>1, <2>2
<1>8. m + w \in Nat
  OBVIOUS
<1>9. u = z
  BY <1>3, <1>6, <1>7, <1>8, SameElements
<1> QED
  BY <1>1, <1>2, <1>4, <1>5, <1>9

\* A character behind v is one more that v has.
LEMMA WithoutExtended ==
    ASSUME NEW v \in Seq(Byte), NEW cuts, Cut(v, cuts), NEW b, Whole(b), NEW drop
    PROVE  Without(v \o b, drop) = Without(v, drop) \o Kept(b, drop)
<1>1. 0 \in cuts
  BY DEF Cut
<1>2. Extended(v, b, drop, 0)
  BY <1>1, FromExtended
<1> QED
  BY <1>2, WithoutFrom, Zenon DEF Extended

\* The next character of t is taken over.
LEMMA HoldsTakes ==
    ASSUME NEW t \in Seq(Byte), NEW drop, NEW v, NEW m, Holds(t, drop, v, m),
           NEW w \in 1..4, Fits(t, m, w)
    PROVE  Holds(t, drop, v \o Taken(t, m, w), m + w)
<1>1. v \in Seq(Byte) /\ m \in 0..Len(t) /\ m \in Nat
  BY DEF Holds
<1>2. m + w <= Len(t) /\ m + w \in 0..Len(t) /\ w \in Nat
  <2>1. m + w <= Len(t)
    BY Zenon DEF Fits
  <2> QED
    BY <1>1, <2>1
<1>3. PICK u \in Seq(Byte) : u = Taken(t, m, w) /\ Whole(u)
  <2>1. Taken(t, m, w) \in Seq(Byte)
    BY <1>1, <1>2, TakenIs
  <2>2. Whole(Taken(t, m, w))
    BY <1>1, <1>2, FitsWhole
  <2> QED
    BY <2>1, <2>2
<1>4. PICK cuts : Cut(v, cuts)
  BY DEF Holds
<1>5. \E c : Cut(v \o u, c)
  BY <1>1, <1>3, <1>4, CutAppend
<1>6. ASSUME NEW d PROVE From(t, d, m) = Kept(u, d) \o From(t, d, m + w)
  <2>1. KeptFirst(t, d, m, w)
    BY <1>1, FromTakes
  <2> QED
    BY <1>3, <2>1, Zenon DEF KeptFirst
<1>7. Adding(t, drop, v \o u, m + w)
  <2>1. PICK f \in Seq(Byte), k \in Seq(Byte), x \in Seq(Byte) :
          f = From(t, drop, m + w) /\ k = Kept(u, drop) /\ x = Without(v, drop)
    <3>1. From(t, drop, m + w) \in Seq(Byte)
      BY <1>2, FromBytes
    <3>2. Kept(u, drop) \in Seq(Byte)
      <4>1. <<>> \in Seq(Byte)
        OBVIOUS
      <4> QED
        BY <1>3, <4>1, Zenon DEF Kept
    <3>3. Without(v, drop) \in Seq(Byte)
      <4>1. 0 \in 0..Len(v)
        BY <1>1
      <4> QED
        BY <1>1, <4>1, FromBytes, WithoutFrom
    <3> QED
      BY <3>1, <3>2, <3>3
  <2>2. Without(v \o u, drop) = x \o k
    <3>1. Without(v \o u, drop) = Without(v, drop) \o Kept(u, drop)
      <4>1. Whole(u) /\ v \in Seq(Byte) /\ Cut(v, cuts)
        BY <1>1, <1>3, <1>4
      <4> QED
        BY <4>1, WithoutExtended
    <3> QED
      BY <2>1, <3>1
  <2>3. x \o (k \o f) = Without(t, drop)
    <3>1. Adding(t, drop, v, m)
      BY DEF Holds
    <3> QED
      BY <1>6, <2>1, <3>1, Zenon DEF Adding
  <2>4. (x \o k) \o f = x \o (k \o f)
    BY Concats
  <2> QED
    BY <2>1, <2>2, <2>3, <2>4, Zenon DEF Adding
<1>8. ASSUME Same(t, v, m) PROVE Same(t, v \o u, m + w)
  <2>1. v = SubSeq(t, 1, m) /\ Characters(t) = v \o From(t, {}, m)
    BY <1>8 DEF Same
  <2>2. v \o u = SubSeq(t, 1, m + w)
    BY <1>1, <1>2, <1>3, <2>1, FirstParts
  <2>3. PICK f \in Seq(Byte) : f = From(t, {}, m + w)
    BY <1>2, FromBytes
  <2>4. Kept(u, {}) = u
    BY DEF Kept
  <2>5. Characters(t) = v \o (u \o f)
    BY <1>6, <2>1, <2>3, <2>4, Zenon
  <2>6. (v \o u) \o f = v \o (u \o f)
    BY <1>1, Concats
  <2> QED
    BY <2>2, <2>3, <2>5, <2>6, Zenon DEF Same
<1>9. Same(t, v \o u, m + w) \/ ~WellFormed(t)
  BY <1>8 DEF Holds
<1>10. v \o u \in Seq(Byte)
  BY <1>1, <1>3, Concats
<1>11. Holds(t, drop, v \o u, m + w)
  BY <1>2, <1>5, <1>7, <1>9, <1>10, Zenon DEF Holds
<1> QED
  BY <1>3, <1>11

\* No character begins from place m to place n of t.
NoneTo(t, m, n) == m < n /\ n <= Len(t) /\ \A k \in m..(n - 1) : NoneFits(t, k)

\* Up to three bytes without a character add none.
LEMMA FromDrops ==
    ASSUME NEW t \in Seq(Byte), NEW drop, NEW m \in Nat, NEW n \in Nat, n <= m + 3, NoneTo(t, m, n)
    PROVE  From(t, drop, m) = From(t, drop, n)
<1>1. m < n /\ n <= Len(t) /\ \A k \in m..(n - 1) : NoneFits(t, k)
  BY DEF NoneTo
<1>2. \A k \in m..(n - 1) : From(t, drop, k) = From(t, drop, k + 1)
  <2> SUFFICES ASSUME NEW k \in m..(n - 1) PROVE From(t, drop, k) = From(t, drop, k + 1)
    OBVIOUS
  <2>1. k \in Nat /\ k < Len(t) /\ NoneFits(t, k)
    BY <1>1
  <2> QED
    BY <2>1, FromSkips
<1>3. n = m + 1 \/ n = m + 2 \/ n = m + 3
  BY <1>1
<1>4. From(t, drop, m) = From(t, drop, m + 1)
  BY <1>1, <1>2
<1>5. CASE n = m + 1
  BY <1>4, <1>5
<1>6. CASE n = m + 2
  <2>1. m + 1 \in m..(n - 1) /\ (m + 1) + 1 = n
    BY <1>6
  <2>2. From(t, drop, m + 1) = From(t, drop, n)
    BY <1>2, <2>1
  <2> QED
    BY <1>4, <2>2
<1>7. CASE n = m + 3
  <2>1. m + 1 \in m..(n - 1) /\ (m + 1) + 1 = m + 2 /\ m + 2 \in m..(n - 1) /\ (m + 2) + 1 = n
    BY <1>7
  <2>2. From(t, drop, m + 1) = From(t, drop, m + 2)
    BY <1>2, <2>1
  <2>3. From(t, drop, m + 2) = From(t, drop, n)
    BY <1>2, <2>1
  <2> QED
    BY <1>4, <2>2, <2>3
<1> QED
  BY <1>3, <1>5, <1>6, <1>7

\* A text with a byte that is in no character is ill-formed; such bytes are left out, or a

\* character of drop is put for them.
LEMMA HoldsDrops ==
    ASSUME NEW t \in Seq(Byte), NEW drop, NEW v, NEW m, Holds(t, drop, v, m),
           NEW n \in Nat, n <= m + 3, NoneTo(t, m, n)
    PROVE  /\ ~WellFormed(t)
           /\ Holds(t, drop, v, n)
           /\ \A f \in drop : Whole(f) => Holds(t, drop, v \o f, n)
<1>1. v \in Seq(Byte) /\ m \in 0..Len(t) /\ m \in Nat
  BY DEF Holds
<1>2. m < n /\ n \in 0..Len(t)
  BY DEF NoneTo
<1>3. \A d : From(t, d, m) = From(t, d, n)
  BY <1>1, FromDrops
<1>4. ~WellFormed(t)
  <2> SUFFICES ASSUME WellFormed(t) PROVE FALSE
    OBVIOUS
  <2>1. v = SubSeq(t, 1, m) /\ Characters(t) = v \o From(t, {}, m)
    BY DEF Holds, Same
  <2>2. PICK f \in Seq(Byte) : f = From(t, {}, n) /\ Len(f) <= Len(t) - n
    BY <1>2, FromBytes
  <2>3. Len(v) = m
    BY <1>1, <2>1
  <2>4. t = v \o f
    BY <1>3, <2>1, <2>2, Zenon DEF WellFormed
  <2>5. Len(t) = m + Len(f)
    <3>1. Len(v \o f) = Len(v) + Len(f)
      BY <1>1
    <3> QED
      BY <2>3, <2>4, <3>1
  <2> QED
    BY <1>1, <1>2, <2>2, <2>5
<1>5. Adding(t, drop, v, n)
  BY <1>3, Zenon DEF Holds, Adding
<1>6. \E cuts : Cut(v, cuts)
  BY DEF Holds
<1>7. Holds(t, drop, v, n)
  BY <1>1, <1>2, <1>4, <1>5, <1>6, Zenon DEF Holds
<1>8. ASSUME NEW f \in drop, Whole(f) PROVE Holds(t, drop, v \o f, n)
  <2>1. PICK cuts : Cut(v, cuts)
    BY <1>6
  <2>2. \E c : Cut(v \o f, c)
    BY <1>1, <1>8, <2>1, CutAppend
  <2>3. Kept(f, drop) = <<>>
    BY DEF Kept
  <2>4. PICK x \in Seq(Byte) : x = Without(v, drop)
    <3>1. 0 \in 0..Len(v)
      BY <1>1
    <3> QED
      BY <1>1, <3>1, FromBytes, WithoutFrom
  <2>5. Without(v \o f, drop) = x \o <<>>
    BY <1>1, <1>8, <2>1, <2>3, <2>4, WithoutExtended
  <2>6. x \o <<>> = x
    BY Concats
  <2>7. Adding(t, drop, v \o f, n)
    BY <1>5, <2>4, <2>5, <2>6, Zenon DEF Adding
  <2>8. v \o f \in Seq(Byte)
    BY <1>1, <1>8, Concats DEF Whole
  <2> QED
    BY <1>2, <1>4, <2>2, <2>7, <2>8, Zenon DEF Holds
<1> QED
  BY <1>4, <1>7, <1>8

\* At the end all that was promised is there.
LEMMA HoldsEnd ==
    ASSUME NEW t \in Seq(Byte), NEW drop, NEW v, Holds(t, drop, v, Len(t))
    PROVE  /\ WellFormed(v) /\ (WellFormed(t) => v = t)
           /\ Without(v, drop) = Without(t, drop)
<1>1. v \in Seq(Byte)
  BY DEF Holds
<1>2. WellFormed(v)
  BY <1>1, CutWellFormed DEF Holds
<1>3. WellFormed(t) => v = t
  BY DEF Holds, Same
<1>4. PICK x \in Seq(Byte) : x = Without(v, drop)
  <2>1. 0 \in 0..Len(v)
    BY <1>1
  <2> QED
    BY <1>1, <2>1, FromBytes, WithoutFrom
<1>5. x \o <<>> = Without(t, drop)
  <2>1. From(t, drop, Len(t)) = <<>>
    BY FromEnd
  <2>2. Adding(t, drop, v, Len(t))
    BY DEF Holds
  <2> QED
    BY <1>4, <2>1, <2>2, Zenon DEF Adding
<1>6. x \o <<>> = x
  BY Concats
<1> QED
  BY <1>2, <1>3, <1>4, <1>5, <1>6
-----------------------------------------------------------------------------
(* Where the dump is.                                                      *)

\* Bytes of s that what was accepted was made of, or what was rejected.
Done == i - undumped_chars

\* Those since then are a character's first, and the automaton and the code point follow them.
Within ==
    /\ undumped_chars \in 1..3 /\ Done \in Nat /\ Unfinished(s, Done, undumped_chars)
    /\ state = At(s[Done + 1], Width(s[Done + 1]), undumped_chars)
    /\ codepoint = Part(s, Done, undumped_chars)
Halfway == (undumped_chars = 0 /\ state = 0) \/ Within

\* They are in the buffer, unless they will be escaped.
Pending == IF ensure_ascii THEN <<>> ELSE Taken(s, Done, undumped_chars)

DumpInv ==
    /\ Halfway /\ string_buffer = Accepted \o Pending /\ o \in Seq(Int)
    /\ \E v, D : ReadsBy(o \o Accepted, v, D) /\ Holds(s, Put, v, Done)

\* One byte more makes one byte's bits more of the code point.
LEMMA PartMore ==
    ASSUME NEW t, NEW m \in Nat, NEW n \in 1..3
    PROVE  Part(t, m, n + 1) = More(Part(t, m, n), t[m + n + 1])
<1>1. CASE n = 1
  BY <1>1 DEF Part
<1>2. CASE n = 2
  BY <1>2 DEF Part
<1>3. CASE n = 3
  BY <1>3 DEF Part
<1> QED
  BY <1>1, <1>2, <1>3

\* Between two characters the next byte alone says what happens.
LEMMA BetweenMoves ==
    ASSUME Typed, undumped_chars = 0, state = 0, i < Len(s)
    PROVE  /\ current \in Byte /\ Done = i
           /\ moved = Begins[Type(current) + 1]
           /\ Coded(state, codepoint, current) = current % Mask[Type(current) + 1]
<1>1. current \in Byte /\ i \in Nat
  BY DEF Typed, current
<1> QED
  BY <1>1 DEF moved, Moves, Coded, ACCEPT, Done

\* In a character, a byte that may come brings it on, and any other is rejected.
Brings(m, n, b, w) ==
    /\ n < w /\ current = s[m + n + 1]
    /\ MayCome(b, n, current) => moved = Then(b, w, n)
    /\ ~MayCome(b, n, current) => moved = REJECT
    /\ Coded(state, codepoint, current) = Part(s, m, n + 1)

\* It does so wherever in a character the dump is.
LEMMA WithinMoves ==
    ASSUME Typed, Within, i < Len(s)
    PROVE  /\ current \in Byte
           /\ \E m \in Nat, n \in 1..3, b \in 194..244, w \in 2..4 :
                /\ m = Done /\ n = undumped_chars /\ b = s[m + 1] /\ Width(b) = w
                /\ m + n = i /\ Brings(m, n, b, w)
<1>1. current \in Byte
  BY DEF Typed, current
<1>2. PICK m \in Nat, n \in 1..3 : m = Done /\ n = undumped_chars
  BY DEF Within
<1>3. PICK b \in 194..244, w \in 2..4 : b = s[m + 1] /\ Width(b) = w /\ n < w
  BY <1>2, WidthBounds DEF Within, Unfinished
<1>4. i \in Nat /\ m + n = i /\ m + n + 1 = i + 1
  BY <1>2 DEF Done, Typed
<1>5. current = s[m + n + 1]
  BY <1>4 DEF current
<1>6. state = At(b, w, n) /\ codepoint = Part(s, m, n)
  BY <1>2, <1>3, Zenon DEF Within
<1>7. state # 0
  <2>1. At(b, w, n) = Begins[Type(b) + 1] \/ At(b, w, n) = 2 \/ At(b, w, n) = 3
    BY DEF At
  <2>2. Begins[Type(b) + 1] \in 2..8
    BY LeadBounds
  <2> QED
    BY <1>6, <2>1, <2>2
<1>8. moved = Moves(At(b, w, n), Type(current))
  BY <1>6 DEF moved
<1>9. MayCome(b, n, current) => moved = Then(b, w, n)
  BY <1>3, <1>8, Follows
<1>10. ~MayCome(b, n, current) => moved = REJECT
  BY <1>1, <1>3, <1>8, FollowsNot
<1>11. Coded(state, codepoint, current) = More(codepoint, current)
  BY <1>7 DEF Coded, More, ACCEPT
<1>12. Coded(state, codepoint, current) = Part(s, m, n + 1)
  BY <1>5, <1>6, <1>11, PartMore
<1>13. Brings(m, n, b, w)
  BY <1>3, <1>5, <1>9, <1>10, <1>12, Zenon DEF Brings
<1> QED
  BY <1>1, <1>2, <1>3, <1>4, <1>13

\* Concatenation of numbers.
LEMMA Numbers ==
    ASSUME NEW a \in Seq(Int), NEW b \in Seq(Int), NEW c \in Seq(Int)
    PROVE  /\ (a \o b) \o c = a \o (b \o c)
           /\ a \o b \in Seq(Int) /\ a \o <<>> = a
OBVIOUS

\* Whether or not the buffer was written out, what was written and accepted is the same.
LEMMA FlushesAll ==
    ASSUME NEW buffer \in Seq(Int), o \in Seq(Int), Flushes(buffer)
    PROVE  /\ o' \o Accepted' = o \o buffer /\ string_buffer' = Accepted' /\ o' \in Seq(Int)
<1>1. CASE Full(buffer)
  <2>1. o' = o \o buffer /\ string_buffer' = <<>> /\ bytes_after_last_accept' = 0
    BY <1>1 DEF Flushes
  <2>2. o \o buffer \in Seq(Int)
    BY Numbers
  <2>3. Accepted' = <<>>
    BY <2>1 DEF Accepted
  <2>4. (o \o buffer) \o <<>> = o \o buffer
    BY <2>2, Numbers
  <2> QED
    BY <2>1, <2>2, <2>3, <2>4
<1>2. CASE ~Full(buffer)
  <2>1. o' = o /\ string_buffer' = buffer /\ bytes_after_last_accept' = Len(buffer)
    BY <1>2 DEF Flushes
  <2>2. SubSeq(buffer, 1, Len(buffer)) = buffer
    OBVIOUS
  <2>3. Accepted' = buffer
    BY <2>1, <2>2 DEF Accepted
  <2> QED
    BY <2>1, <2>3
<1> QED
  BY <1>1, <1>2

\* Nothing taken is nothing.
LEMMA TakenNone == ASSUME NEW t, NEW n \in Nat PROVE Taken(t, n, 0) = <<>>
BY DEF Taken

\* One taken is the element there.
LEMMA TakenOne ==
    ASSUME NEW t \in Seq(Byte), NEW n \in Nat, n < Len(t)
    PROVE  Taken(t, n, 1) = <<t[n + 1]>>
<1>1. PICK u \in Seq(Byte) : u = Taken(t, n, 1) /\ Len(u) = 1 /\ u[1] = t[n + 1]
  <2>1. PICK w \in Nat : w = 1 /\ n + w <= Len(t)
    OBVIOUS
  <2>2. /\ Taken(t, n, w) \in Seq(Byte) /\ Len(Taken(t, n, w)) = w
        /\ \A k \in 1..w : Taken(t, n, w)[k] = t[n + k]
    BY <2>1, TakenIs
  <2> QED
    BY <2>1, <2>2
<1>2. u = <<u[1]>>
  BY <1>1
<1> QED
  BY <1>1, <1>2

\* One more taken is the next element.
LEMMA TakenMore ==
    ASSUME NEW t \in Seq(Byte), NEW n \in Nat, NEW w \in Nat, n + w < Len(t)
    PROVE  Taken(t, n, w) \o <<t[n + w + 1]>> = Taken(t, n, w + 1)
<1>1. PICK x \in Seq(Byte) : x = Taken(t, n, w) /\ Len(x) = w /\ \A k \in 1..w : x[k] = t[n + k]
  BY TakenIs
<1>2. PICK z \in Seq(Byte) :
        z = Taken(t, n, w + 1) /\ Len(z) = w + 1 /\ \A k \in 1..(w + 1) : z[k] = t[n + k]
  <2>1. n + (w + 1) <= Len(t) /\ w + 1 \in Nat
    OBVIOUS
  <2> QED
    BY <2>1, TakenIs
<1>3. PICK y \in Seq(Byte) : y = <<t[n + w + 1]>> /\ Len(y) = 1 /\ y[1] = t[n + w + 1]
  <2>1. PICK c \in Byte : c = t[n + w + 1]
    OBVIOUS
  <2>2. <<c>> \in Seq(Byte) /\ Len(<<c>>) = 1 /\ <<c>>[1] = c
    OBVIOUS
  <2> QED
    BY <2>1, <2>2
<1>4. PICK u \in Seq(Byte) : u = x \o y
  BY Concats
<1>5. Len(u) = w + 1 /\ (\A k \in 1..w : u[k] = x[k]) /\ u[w + 1] = y[1]
  BY <1>1, <1>3, <1>4
<1>6. ASSUME NEW k \in 1..(w + 1) PROVE u[k] = z[k]
  <2>1. CASE k \in 1..w
    BY <1>1, <1>2, <1>5, <2>1
  <2>2. CASE k \notin 1..w
    <3>1. k = w + 1 /\ n + k = n + w + 1
      BY <2>2
    <3> QED
      BY <1>2, <1>3, <1>5, <3>1
  <2> QED
    BY <2>1, <2>2
<1>7. w + 1 \in Nat
  OBVIOUS
<1>8. u = z
  BY <1>2, <1>5, <1>6, <1>7, SameElements
<1> QED
  BY <1>1, <1>2, <1>3, <1>4, <1>8

\* What is accepted is a whole character, and something is added to the buffer for it.
AcceptsFor(c, x, w) ==
    /\ Fits(s, Done, w) /\ Done \in Nat /\ Done + w = i + 1
    /\ Emitted(x, Taken(s, Done, w))
    /\ string_buffer \o Dumped(c, current) = Accepted \o x

\* DumpAccept adds something for a whole character.
LEMMA Accepts ==
    ASSUME Typed, DumpInv, DumpAccept
    PROVE  \E x : \E w \in 1..4 : AcceptsFor(Coded(state, codepoint, current), x, w)
<1>0. i < Len(s) /\ moved = 0
  BY DEF DumpAccept, Reading, ACCEPT
<1>1. PICK c : c = Coded(state, codepoint, current)
  OBVIOUS
<1>2. Accepted \in Seq(Int) /\ string_buffer = Accepted \o Pending
  BY AcceptedBytes DEF DumpInv
<1>3. CASE undumped_chars = 0 /\ state = 0
  <2>1. /\ current \in Byte /\ Done = i
        /\ moved = Begins[Type(current) + 1] /\ c = current % Mask[Type(current) + 1]
    BY <1>0, <1>1, <1>3, BetweenMoves
  <2>2. PICK x \in 0..127 : x = current /\ c = x
    <3>1. ~(Begins[Type(current) + 1] \in 2..8) /\ Begins[Type(current) + 1] # 1
      BY <1>0, <2>1
    <3>2. current \in 0..127
      BY <2>1, <3>1, FirstByte
    <3> QED
      BY <2>1, <3>2, FirstByte
  <2>3. i \in Nat /\ s \in Seq(Byte) /\ current = s[i + 1]
    BY DEF Typed, current
  <2>4. Fits(s, i, 1)
    <3>1. s[i + 1] \in 0..127 /\ i + 1 <= Len(s)
      BY <1>0, <2>2, <2>3
    <3> QED
      BY <3>1 DEF Fits
  <2>5. Taken(s, i, 1) = <<x>>
    BY <1>0, <2>2, <2>3, TakenOne
  <2>6. Emitted(Dumped(x, x), <<x>>)
    BY DumpedPlain DEF Typed
  <2>7. Pending = <<>>
    BY <1>3, <2>1, <2>3, TakenNone DEF Pending
  <2>8. string_buffer = Accepted
    BY <1>2, <2>7, Numbers
  <2>9. AcceptsFor(c, Dumped(x, x), 1)
    BY <2>1, <2>2, <2>3, <2>4, <2>5, <2>6, <2>8 DEF AcceptsFor
  <2> QED
    BY <1>1, <2>9
<1>4. CASE Within
  <2>1. PICK m \in Nat, n \in 1..3, b \in 194..244, w \in 2..4 :
          /\ m = Done /\ n = undumped_chars /\ b = s[m + 1] /\ Width(b) = w
          /\ m + n = i /\ Brings(m, n, b, w)
    BY <1>0, <1>4, WithinMoves
  <2>2. /\ n < w /\ current = s[m + n + 1]
        /\ MayCome(b, n, current) => moved = Then(b, w, n)
        /\ ~MayCome(b, n, current) => moved = REJECT
        /\ c = Part(s, m, n + 1)
    BY <1>1, <2>1 DEF Brings
  <2>3. MayCome(b, n, current) /\ Then(b, w, n) = 0
    BY <1>0, <2>2 DEF REJECT
  <2>4. n + 1 = w
    BY <2>3 DEF Then, At
  <2>5. s \in Seq(Byte) /\ i \in Nat /\ ensure_ascii \in BOOLEAN
    BY DEF Typed
  <2>6. Fits(s, m, w)
    <3>1. Unfinished(s, m, n)
      BY <1>4, <2>1 DEF Within
    <3>2. m + n < Len(s) /\ MayCome(s[m + 1], n, s[m + n + 1])
      BY <1>0, <2>1, <2>2, <2>3
    <3>3. Width(s[m + 1]) = n + 1
      BY <2>1, <2>4
    <3> QED
      BY <2>4, <2>5, <3>1, <3>2, <3>3, Lengthens
  <2>7. PICK u \in Seq(Byte) : u = Taken(s, m, w)
    <3>1. m + w <= Len(s) /\ w \in Nat
      BY <1>0, <2>1, <2>4
    <3> QED
      BY <2>5, <3>1, TakenIs
  <2>8. /\ ensure_ascii => Emitted(Dumped(c, current), u)
        /\ ~ensure_ascii => Dumped(c, current) = <<current>> /\ Emitted(u, u)
    BY <2>2, <2>4, <2>5, <2>6, <2>7, DumpedMany
  <2>9. m + w = i + 1 /\ w \in 1..4
    BY <2>1, <2>4
  <2>10. CASE ensure_ascii
    <3>1. string_buffer = Accepted
      BY <1>2, <2>10, Numbers DEF Pending
    <3>2. AcceptsFor(c, Dumped(c, current), w)
      BY <2>1, <2>6, <2>7, <2>8, <2>9, <2>10, <3>1 DEF AcceptsFor
    <3> QED
      BY <1>1, <2>9, <3>2
  <2>11. CASE ~ensure_ascii
    <3>1. PICK p \in Seq(Int) : p = Taken(s, m, n)
      <4>1. m + n <= Len(s) /\ n \in Nat
        BY <1>0, <2>1, <2>5
      <4>2. Taken(s, m, n) \in Seq(Byte)
        BY <2>5, <4>1, TakenIs
      <4> QED
        BY <4>2, BytesAreInts
    <3>2. string_buffer = Accepted \o p
      BY <1>2, <2>1, <2>11, <3>1 DEF Pending
    <3>3. PICK d \in Seq(Int) : d = <<current>>
      <4>1. current \in Byte
        BY <1>0, <1>4, WithinMoves
      <4>2. PICK x \in Int : x = current
        BY <4>1 DEF Byte
      <4>3. <<x>> \in Seq(Int)
        OBVIOUS
      <4> QED
        BY <4>2, <4>3
    <3>4. p \o d = u
      <4>1. m + n < Len(s) /\ n \in Nat
        BY <1>0, <2>1
      <4> QED
        BY <2>2, <2>4, <2>5, <2>7, <3>1, <3>3, <4>1, TakenMore
    <3>5. (Accepted \o p) \o d = Accepted \o (p \o d)
      BY <1>2, Numbers
    <3>6. string_buffer \o Dumped(c, current) = Accepted \o u
      BY <2>8, <2>11, <3>2, <3>3, <3>4, <3>5
    <3>7. AcceptsFor(c, u, w)
      BY <2>1, <2>6, <2>7, <2>8, <2>9, <2>11, <3>6 DEF AcceptsFor
    <3> QED
      BY <1>1, <2>9, <3>7
  <2> QED
    BY <2>5, <2>10, <2>11
<1> QED
  BY <1>3, <1>4 DEF DumpInv, Halfway

\* A rejected byte, and those of a character that it ends early, are in no character.
LEMMA RejectedAreNone ==
    ASSUME Typed, Halfway, i < Len(s), moved = REJECT
    PROVE  Reread \in Nat /\ Reread <= Done + 3 /\ NoneTo(s, Done, Reread)
<1>0. i \in Nat /\ s \in Seq(Byte) /\ Len(s) \in Nat
  BY DEF Typed
<1>1. CASE undumped_chars = 0 /\ state = 0
  <2>1. /\ current \in Byte /\ Done = i /\ moved = Begins[Type(current) + 1]
    BY <1>1, BetweenMoves
  <2>2. current \notin 0..127 /\ ~Begin(current)
    <3>1. PICK z : z = Begins[Type(current) + 1] /\ z = 1
      BY <2>1 DEF REJECT
    <3>2. (current \in 0..127 => z = 0) /\ (Begin(current) => z \in 2..8)
      BY <2>1, <3>1, FirstByte
    <3> QED
      BY <3>1, <3>2
  <2>3. current = s[i + 1]
    BY DEF current
  <2>4. NoneFits(s, i)
    BY <2>2, <2>3, NoneAtTrail DEF Begin
  <2>5. Reread = i + 1
    BY <1>1 DEF Reread
  <2> QED
    BY <1>0, <2>1, <2>4, <2>5 DEF NoneTo
<1>2. CASE Within
  <2>1. PICK m \in Nat, n \in 1..3, b \in 194..244, w \in 2..4 :
          /\ m = Done /\ n = undumped_chars /\ b = s[m + 1] /\ Width(b) = w
          /\ m + n = i /\ Brings(m, n, b, w)
    BY <1>2, WithinMoves
  <2>2. /\ n < w /\ current = s[m + n + 1]
        /\ MayCome(b, n, current) => moved = Then(b, w, n)
    BY <2>1 DEF Brings
  <2>3. Then(b, w, n) # 1
    <3>1. n + 1 # 1
      OBVIOUS
    <3> QED
      BY <3>1 DEF Then, At
  <2>4. ~MayCome(s[m + 1], n, s[m + n + 1])
    BY <2>1, <2>2, <2>3 DEF REJECT
  <2>5. Unfinished(s, m, n)
    BY <1>2, <2>1 DEF Within
  <2>6. \A k \in m..(m + n - 1) : NoneFits(s, k)
    BY <1>0, <2>4, <2>5, EndsEarly
  <2>7. Reread = m + n
    BY <2>1 DEF Reread
  <2> QED
    BY <1>0, <2>1, <2>6, <2>7 DEF NoneTo
<1> QED
  BY <1>1, <1>2 DEF Halfway

\* So are those of a character that the end of the string cuts off.
LEMMA CutOffAreNone ==
    ASSUME Typed, Within, i = Len(s)
    PROVE  Len(s) \in Nat /\ Len(s) <= Done + 3 /\ NoneTo(s, Done, Len(s))
<1>0. i \in Nat /\ s \in Seq(Byte) /\ Len(s) \in Nat
  BY DEF Typed
<1>1. PICK m \in Nat, n \in 1..3 : m = Done /\ n = undumped_chars
  BY DEF Within
<1>2. m + n = Len(s)
  BY <1>0, <1>1 DEF Done
<1>3. Unfinished(s, m, n)
  BY <1>1 DEF Within
<1>4. \A k \in m..(m + n - 1) : NoneFits(s, k)
  BY <1>0, <1>2, <1>3, EndsEarly
<1> QED
  BY <1>0, <1>1, <1>2, <1>4 DEF NoneTo

\* Between two characters the buffer holds what was accepted.
LEMMA DumpInvBetween ==
    ASSUME state' = 0, undumped_chars' = 0, i' \in Nat, Accepted' \in Seq(Int),
           string_buffer' = Accepted', o' \in Seq(Int),
           NEW v, NEW D, ReadsBy(o' \o Accepted', v, D), Holds(s', Put', v, i')
    PROVE  DumpInv'
<1>1. Done' = i'
  <2>1. PICK n \in Nat : n = i'
    OBVIOUS
  <2>2. Done' = n - 0
    BY <2>1 DEF Done
  <2>3. n - 0 = n
    OBVIOUS
  <2> QED
    BY <2>1, <2>2, <2>3
<1>2. Pending' = <<>>
  BY <1>1, TakenNone DEF Pending
<1>3. string_buffer' = Accepted' \o Pending'
  BY <1>2, Numbers
<1> QED
  BY <1>1, <1>3 DEF DumpInv, Halfway

\* Put is what a replacing handler puts.
LEMMA PutSame == ASSUME UNCHANGED options PROVE Put' = Put
BY DEF options, Put

\* What was accepted is written for what it was made of (DumpAccept).
LEMMA AcceptKeeps == ASSUME BufferInv, DumpInv, DumpAccept PROVE DumpInv'
<1>0. Typed
  BY DEF BufferInv
<1>1. PICK c : c = Coded(state, codepoint, current)
  OBVIOUS
<1>2. PICK x : \E w \in 1..4 : AcceptsFor(c, x, w)
  BY <1>0, <1>1, Accepts
<1>3. PICK w \in 1..4 : AcceptsFor(c, x, w)
  BY <1>2
<1>4. /\ Fits(s, Done, w) /\ Done \in Nat /\ Done + w = i + 1
      /\ Emitted(x, Taken(s, Done, w))
      /\ string_buffer \o Dumped(c, current) = Accepted \o x
  BY <1>3 DEF AcceptsFor
<1>5. /\ Flushes(string_buffer \o Dumped(c, current))
      /\ state' = 0 /\ i' = i + 1 /\ undumped_chars' = 0 /\ s' = s /\ UNCHANGED options
  BY <1>1, Zenon DEF DumpAccept, ACCEPT
<1>6. Accepted \in Seq(Int) /\ x \in Seq(Int) /\ o \in Seq(Int) /\ s \in Seq(Byte)
  BY <1>0, <1>4, AcceptedBytes, EmittedTypes DEF DumpInv, Typed
<1>7. PICK buffer \in Seq(Int) : buffer = Accepted \o x
  BY <1>6, Numbers
<1>8. /\ o' \o Accepted' = o \o buffer /\ string_buffer' = Accepted' /\ o' \in Seq(Int)
      /\ Accepted' \in Seq(Int)
  <2>1. Flushes(buffer)
    BY <1>4, <1>5, <1>7
  <2> QED
    BY <1>6, <2>1, FlushesAll, FlushesLeaveRoom
<1>9. PICK v, D : ReadsBy(o \o Accepted, v, D) /\ Holds(s, Put, v, Done)
  BY DEF DumpInv
<1>10. PICK E : ReadsBy(o' \o Accepted', v \o Taken(s, Done, w), E)
  <2>1. (o \o Accepted) \o x = o \o buffer /\ o \o Accepted \in Seq(Int)
    BY <1>6, <1>7, Numbers
  <2>2. v \in Seq(Byte)
    BY <1>9 DEF Holds
  <2>3. \E E : ReadsBy((o \o Accepted) \o x, v \o Taken(s, Done, w), E)
    BY <1>4, <1>9, <2>1, <2>2, ReadsAppend
  <2> QED
    BY <1>8, <2>1, <2>3
<1>11. Holds(s', Put', v \o Taken(s, Done, w), i')
  <2>1. Holds(s, Put, v \o Taken(s, Done, w), Done + w)
    BY <1>4, <1>6, <1>9, HoldsTakes
  <2>2. Put' = Put /\ s' = s /\ i' = Done + w
    BY <1>4, <1>5, PutSame
  <2> QED
    BY <2>1, <2>2
<1>12. i' \in Nat
  BY <1>4, <1>5
<1> QED
  BY <1>5, <1>8, <1>10, <1>11, <1>12, DumpInvBetween

\* A byte in the middle of a character is kept with the others of it (DumpIncomplete).
LEMMA IncompleteKeeps == ASSUME BufferInv, DumpInv, DumpIncomplete PROVE DumpInv'
<1>0. Typed
  BY DEF BufferInv
<1>1. /\ i < Len(s) /\ moved # 0 /\ moved # 1 /\ state' = moved
      /\ codepoint' = Coded(state, codepoint, current)
      /\ i' = i + 1 /\ undumped_chars' = undumped_chars + 1 /\ s' = s /\ UNCHANGED options
      /\ o' = o /\ bytes_after_last_accept' = bytes_after_last_accept
      /\ ensure_ascii' = ensure_ascii
      /\ string_buffer' = IF ensure_ascii THEN string_buffer ELSE Append(string_buffer, current)
  BY DEF DumpIncomplete, Reading, ACCEPT, REJECT, options
<1>2. i \in Nat /\ s \in Seq(Byte) /\ Len(s) \in Nat /\ ensure_ascii \in BOOLEAN
      /\ string_buffer \in Seq(Int) /\ bytes_after_last_accept \in 0..Len(string_buffer)
  BY <1>0 DEF Typed
<1>3. PICK m \in Nat, n \in 0..2 :
        /\ m = Done /\ n = undumped_chars /\ m + n = i
        /\ Unfinished(s, m, n + 1) /\ moved = At(s[m + 1], Width(s[m + 1]), n + 1)
        /\ Coded(state, codepoint, current) = Part(s, m, n + 1)
        /\ current = s[m + n + 1] /\ current \in Byte
  <2>1. CASE undumped_chars = 0 /\ state = 0
    <3>1. /\ current \in Byte /\ Done = i /\ moved = Begins[Type(current) + 1]
          /\ Coded(state, codepoint, current) = current % Mask[Type(current) + 1]
      BY <1>0, <1>1, <2>1, BetweenMoves
    <3>2. current \notin 0..127 /\ (~Begin(current) => moved = 1)
      BY <1>1, <3>1, FirstByte
    <3>3. Begin(current) /\ current % Mask[Type(current) + 1] = Bits(current)
      BY <1>1, <3>1, <3>2, FirstByte
    <3>4. current = s[i + 1]
      BY DEF current
    <3>5. PICK w \in 2..4 : w = Width(s[i + 1])
      BY <3>3, <3>4, WidthBounds
    <3>6. Unfinished(s, i, 0 + 1)
      BY <1>1, <1>2, <3>3, <3>4, <3>5 DEF Unfinished
    <3>7. moved = At(s[i + 1], Width(s[i + 1]), 0 + 1)
      BY <3>1, <3>4 DEF At
    <3>8. Coded(state, codepoint, current) = Part(s, i, 0 + 1)
      BY <3>1, <3>3, <3>4 DEF Part
    <3>9. i + 0 + 1 = i + 1 /\ 0 \in 0..2 /\ i + 0 = i
      BY <1>2
    <3> QED
      BY <1>2, <2>1, <3>1, <3>4, <3>6, <3>7, <3>8, <3>9
  <2>2. CASE Within
    <3>1. PICK m \in Nat, n \in 1..3, b \in 194..244, w \in 2..4 :
            /\ m = Done /\ n = undumped_chars /\ b = s[m + 1] /\ Width(b) = w
            /\ m + n = i /\ Brings(m, n, b, w)
      BY <1>0, <1>1, <2>2, WithinMoves
    <3>2. /\ n < w /\ current = s[m + n + 1]
          /\ MayCome(b, n, current) => moved = Then(b, w, n)
          /\ ~MayCome(b, n, current) => moved = REJECT
          /\ Coded(state, codepoint, current) = Part(s, m, n + 1)
      BY <3>1 DEF Brings
    <3>3. MayCome(b, n, current) /\ moved = Then(b, w, n)
      BY <1>1, <3>2 DEF REJECT
    <3>4. n + 1 # w /\ moved = At(b, w, n + 1)
      BY <1>1, <3>3 DEF Then
    <3>5. n \in 0..2
      BY <3>2, <3>4
    <3>6. Unfinished(s, m, n + 1)
      <4>1. Unfinished(s, m, n)
        BY <2>2, <3>1 DEF Within
      <4>2. m + n < Len(s) /\ MayCome(s[m + 1], n, s[m + n + 1]) /\ n + 1 # Width(s[m + 1])
        BY <1>1, <3>1, <3>2, <3>3, <3>4
      <4> QED
        BY <1>2, <4>1, <4>2, Lengthens
    <3>7. current \in Byte
      BY <1>0, <1>1, <2>2, WithinMoves
    <3>8. moved = At(s[m + 1], Width(s[m + 1]), n + 1)
      BY <3>1, <3>4
    <3> QED
      BY <3>1, <3>2, <3>5, <3>6, <3>7, <3>8
  <2> QED
    BY <2>1, <2>2 DEF DumpInv, Halfway
<1>4. Done' = m /\ undumped_chars' = n + 1
  BY <1>1, <1>3 DEF Done
<1>5. Within'
  <2>1. n + 1 \in 1..3
    BY <1>3
  <2> QED
    BY <1>1, <1>3, <1>4, <2>1 DEF Within
<1>6. PICK a \in Seq(Int) : a = Accepted /\ Accepted' = a
  <2>1. Accepted \in Seq(Int)
    BY <1>0, AcceptedBytes
  <2>2. Accepted' = Accepted
    <3>1. PICK l \in 0..Len(string_buffer) : l = bytes_after_last_accept
      BY <1>2
    <3>2. PICK x \in Int : x = current
      BY <1>3 DEF Byte
    <3>3. SubSeq(Append(string_buffer, x), 1, l) = SubSeq(string_buffer, 1, l)
      BY <1>2
    <3> QED
      BY <1>1, <3>1, <3>2, <3>3 DEF Accepted
  <2> QED
    BY <2>1, <2>2
<1>7. string_buffer' = Accepted' \o Pending'
  <2>1. string_buffer = Accepted \o Pending
    BY DEF DumpInv
  <2>2. CASE ensure_ascii
    BY <1>1, <1>6, <2>1, <2>2 DEF Pending
  <2>3. CASE ~ensure_ascii
    <3>0. m + n < Len(s) /\ n \in Nat
      BY <1>1, <1>3
    <3>1. PICK p \in Seq(Int) : p = Taken(s, m, n)
      <4>1. Taken(s, m, n) \in Seq(Byte)
        BY <1>2, <3>0, TakenIs
      <4> QED
        BY <4>1, BytesAreInts
    <3>2. PICK x \in Int : x = current
      BY <1>3 DEF Byte
    <3>3. string_buffer = a \o p
      BY <1>3, <1>6, <2>1, <2>3, <3>1 DEF Pending
    <3>4. Append(a \o p, x) = a \o (p \o <<x>>)
      <4>0. <<x>> \in Seq(Int)
        OBVIOUS
      <4>1. PICK d \in Seq(Int) : d = <<x>>
        BY <4>0
      <4>2. PICK q \in Seq(Int) : q = a \o p
        BY Numbers
      <4>3. Append(q, x) = q \o <<x>>
        OBVIOUS
      <4> QED
        BY <4>1, <4>2, <4>3, Numbers
    <3>5. p \o <<x>> = Taken(s, m, n + 1)
      BY <1>2, <1>3, <3>0, <3>1, <3>2, TakenMore
    <3>6. Pending' = Taken(s, m, n + 1)
      BY <1>1, <1>4, <2>3 DEF Pending
    <3> QED
      BY <1>1, <1>6, <2>3, <3>2, <3>3, <3>4, <3>5, <3>6
  <2> QED
    BY <1>2, <2>2, <2>3
<1>8. PICK v, D : ReadsBy(o \o Accepted, v, D) /\ Holds(s, Put, v, Done)
  BY DEF DumpInv
<1>9. ReadsBy(o' \o Accepted', v, D) /\ Holds(s', Put', v, Done')
  BY <1>1, <1>3, <1>4, <1>6, <1>8, PutSame
<1>10. o' \in Seq(Int)
  BY <1>1 DEF DumpInv
<1> QED
  BY <1>5, <1>7, <1>9, <1>10 DEF DumpInv, Halfway
-----------------------------------------------------------------------------
(* The page scans what was written.                                        *)

AnyScan == ScanPlain \/ ScanCharacter \/ ScanEscape \/ ScanUnicode \/ ScanBad \/ ScanClose

\* The next byte, or the next two, say how scan_string goes on.
LEMMA WhichScan ==
    ASSUME AnyScan, NEW g \in Int, g = Get(1)
    PROVE  /\ g \in 32..127 /\ g # 34 /\ g # 92 => ScanPlain
           /\ g \in 194..244 => ScanCharacter
           /\ g = 92 /\ Get(2) # 117 => ScanEscape
           /\ g = 92 /\ Get(2) = 117 => ScanUnicode
           /\ g = 34 => ScanClose
<1>1. ScanPlain => g \in 32..127 /\ g # 34 /\ g # 92
  BY DEF ScanPlain, Quote, Backslash
<1>2. ScanCharacter => g \in 194..244
  BY DEF ScanCharacter
<1>3. ScanEscape => g = 92 /\ Get(2) # 117
  BY DEF ScanEscape, Backslash
<1>4. ScanUnicode => g = 92 /\ Get(2) = 117
  BY DEF ScanUnicode, Backslash
<1>5. ScanBad => g \in -1..31 \/ g \in 128..193 \/ g \in 245..255
  BY DEF ScanBad
<1>6. ScanClose => g = 34
  BY DEF ScanClose, Quote
<1> QED
  BY <1>1, <1>2, <1>3, <1>4, <1>5, <1>6 DEF AnyScan

\* x comes next.
Ahead(x) == \A k \in 1..Len(x) : Get(k) = x[k]

\* A plain character is read as it is.
LEMMA ScansPlain ==
    ASSUME AnyScan, NEW x, NEW y, Plainly(x, y), Ahead(x)
    PROVE  Adds(Len(x), y)
<1>1. x = y /\ x \in Seq(Byte) /\ Len(x) \in 1..4 /\ Fits(x, 0, Len(x))
      /\ x[1] >= 32 /\ x[1] \notin {34, 92}
  BY DEF Plainly, Whole, Quote, Backslash
<1>2. PICK w \in 1..4 : w = Len(x)
  BY <1>1
<1>3. PICK g \in Int : g = x[1] /\ g = Get(1)
  <2>1. 1 \in 1..Len(x)
    BY <1>1
  <2>2. Get(1) = x[1]
    BY <2>1 DEF Ahead
  <2>3. x[1] \in Byte
    BY <1>1, <2>1
  <2>4. \A b \in Byte : b \in Int
    BY DEF Byte
  <2> QED
    BY <2>2, <2>3, <2>4
<1>4. \A k \in 1..w : Get(k) = x[k]
  BY <1>2 DEF Ahead
<1>5. PICK n : n = 0 /\ Fits(x, n, w)
  BY <1>1, <1>2
<1>6. x[n + 1] = g
  <2>1. n + 1 = 1
    BY <1>5
  <2> QED
    BY <1>3, <2>1
<1>7. CASE w = 1
  <2>1. ~(g \in 194..244 /\ w = Width(g))
    <3>1. ASSUME g \in 194..244 PROVE w # Width(g)
      <4>1. Width(g) \in 2..4
        BY <3>1, LeadBounds
      <4> QED
        BY <1>7, <4>1
    <3> QED
      BY <3>1
  <2>2. g \in 0..127
    BY <1>5, <1>6, <2>1, Zenon DEF Fits
  <2>3. ScanPlain
    <3>1. g >= 32 /\ g # 34 /\ g # 92
      BY <1>1, <1>3
    <3>2. g \in 32..127
      BY <2>2, <3>1
    <3> QED
      BY <1>3, <3>1, <3>2, WhichScan
  <2>4. Adds(1, <<g>>)
    BY <1>3, <2>3 DEF ScanPlain
  <2>5. x = <<x[1]>>
    <3>1. x \in Seq(Byte) /\ Len(x) = 1
      BY <1>1, <1>2, <1>7
    <3> QED
      BY <3>1
  <2> QED
    BY <1>1, <1>2, <1>3, <1>7, <2>4, <2>5
<1>8. CASE w # 1
  <2>0. w \in 2..4
    BY <1>8
  <2>1. /\ x[n + 1] \in 194..244 /\ w = Width(x[n + 1])
        /\ x[n + 2] \in Second(x[n + 1]) /\ \A k \in 3..w : x[n + k] \in 128..191
    BY <1>5, <1>8, Zenon DEF Fits
  <2>2. g \in 194..244 /\ w = Width(g)
    BY <1>6, <2>1, Zenon
  <2>3. x[2] \in Second(g)
    <3>1. n + 2 = 2
      BY <1>5
    <3> QED
      BY <1>6, <2>1, <3>1, Zenon
  <2>4. \A k \in 3..w : x[k] \in 128..191
    <3> SUFFICES ASSUME NEW k \in 3..w PROVE x[k] \in 128..191
      OBVIOUS
    <3>1. n + k = k
      BY <1>5, <2>0
    <3>2. x[n + k] \in 128..191
      BY <2>1, Zenon
    <3> QED
      BY <3>1, <3>2, Zenon
  <2>5. ScanCharacter
    BY <1>3, <2>2, WhichScan
  <2>6. Get(2) = x[2] /\ \A k \in 3..w : Get(k) = x[k]
    BY <1>4, <2>0
  <2>7. Get(2) \in Second(Get(1)) /\ (\A k \in 3..w : Get(k) \in 128..191) /\ w = Width(Get(1))
    BY <1>3, <2>2, <2>3, <2>4, <2>6
  <2>8. Adds(w, [k \in 1..w |-> Get(k)])
    BY <2>5, <2>7, Zenon DEF ScanCharacter
  <2>9. PICK z : z = [k \in 1..w |-> Get(k)]
    OBVIOUS
  <2>10. \A k \in 1..w : z[k] = x[k]
    BY <1>4, <2>9
  <2>11. x = [k \in 1..w |-> x[k]]
    BY <1>1, <1>2
  <2>12. z = x
    BY <1>4, <2>9, <2>11
  <2> QED
    BY <1>1, <1>2, <2>8, <2>9, <2>12
<1> QED
  BY <1>7, <1>8

\* An escape of one letter is read as what it escapes.
LEMMA ScansShort ==
    ASSUME AnyScan, NEW x, NEW y, Shortly(x, y), Ahead(x)
    PROVE  Adds(Len(x), y)
<1>1. PICK c \in DOMAIN Short : x = <<Backslash, Short[c]>> /\ y = <<c>>
  BY DEF Shortly
<1>2. PICK e : e = Short[c]
  OBVIOUS
<1>3. e \in DOMAIN Escaped /\ e # 117 /\ Escaped[e] = c
  BY <1>2, SMT DEF Short, Escaped
<1>4. Len(x) = 2 /\ Get(1) = 92 /\ Get(2) = e
  BY <1>1, <1>2 DEF Ahead, Backslash
<1>5. ScanEscape
  BY <1>3, <1>4, WhichScan
<1>6. Adds(2, <<Escaped[e]>>)
  BY <1>3, <1>4, <1>5 DEF ScanEscape
<1> QED
  BY <1>1, <1>3, <1>4, <1>6

\* An escape by its code point, or by the two halves of it, is read as the character.
LEMMA ScansHex ==
    ASSUME AnyScan, NEW x, NEW y, InHex(x, y), Ahead(x)
    PROVE  Adds(Len(x), y)
<1>1. PICK c \in Int :
        /\ IsScalar(c) /\ y = Utf8(c)
        /\ x = IF c < 65536 THEN Hex(c) ELSE Hex(HighOf(c)) \o Hex(LowOf(c))
  BY DEF InHex
<1>2. 0 <= c /\ c <= 1114111 /\ ~(55296 <= c /\ c <= 57343)
  BY <1>1 DEF IsScalar
<1>3. ASSUME NEW d \in Int PROVE Hex(d)[1] = 92 /\ Hex(d)[2] = 117 /\ Len(Hex(d)) = 6
  BY HexInts DEF Hex, Backslash
<1>6. y = Utf8(c)
  BY <1>1
<1>4. CASE c < 65536
  <2>1. x = Hex(c)
    BY <1>1, <1>4
  <2>2. Get(1) = 92 /\ Get(2) = 117 /\ \A n \in 1..4 : Get(2 + n) = Hex(c)[n + 2]
    <3>1. PICK h \in Seq(Int) : h = Hex(c) /\ Len(h) = 6 /\ h[1] = 92 /\ h[2] = 117
      BY <1>3, HexInts
    <3>2. \A k \in 1..6 : Get(k) = h[k]
      BY <2>1, <3>1 DEF Ahead
    <3> QED
      BY <3>1, <3>2
  <2>3. GetCodepoint(2) = c
    BY <1>2, <1>4, <2>2, HexReadsBack
  <2>4. ScanUnicode
    BY <2>2, WhichScan
  <2>5. c # Eof /\ ~Low(c) /\ ~High(c)
    BY <1>2 DEF Eof, Low, High
  <2>6. Adds(6, Utf8(c))
    BY <2>3, <2>4, <2>5, Zenon DEF ScanUnicode
  <2>7. Len(x) = 6
    BY <1>3, <2>1
  <2> QED
    BY <1>6, <2>6, <2>7, Zenon
<1>5. CASE ~(c < 65536)
  <2>0. x = Hex(HighOf(c)) \o Hex(LowOf(c)) /\ 65536 <= c
    BY <1>1, <1>5
  <2>1. PICK a \in Int, b \in Int : a = HighOf(c) /\ b = LowOf(c)
    BY DEF HighOf, LowOf
  <2>2. High(a) /\ Low(b) /\ Combined(a, b) = c
    BY <1>2, <2>0, <2>1, EscapesRecombine
  <2>3. PICK g \in Seq(Int), h \in Seq(Int) :
          /\ g = Hex(a) /\ Len(g) = 6 /\ g[1] = 92 /\ g[2] = 117
          /\ h = Hex(b) /\ Len(h) = 6 /\ h[1] = 92 /\ h[2] = 117
    BY <1>3, HexInts
  <2>4. x = g \o h /\ Len(x) = 12
    <3>1. Len(g \o h) = Len(g) + Len(h)
      BY Concatenated
    <3> QED
      BY <2>0, <2>1, <2>3, <3>1
  <2>5. \A k \in 1..6 : Get(k) = g[k] /\ Get(6 + k) = h[k]
    <3> SUFFICES ASSUME NEW k \in 1..6 PROVE Get(k) = g[k] /\ Get(6 + k) = h[k]
      OBVIOUS
    <3>1. PICK u \in Seq(Int) : u = g \o h
      BY Numbers
    <3>2. /\ \A j \in 1..Len(g) : u[j] = g[j]
          /\ \A j \in 1..Len(h) : u[Len(g) + j] = h[j]
      BY <3>1
    <3>3. u[k] = g[k] /\ u[6 + k] = h[k]
      BY <2>3, <3>2
    <3>4. \A j \in 1..12 : Get(j) = x[j]
      BY <2>4 DEF Ahead
    <3>5. k \in 1..12 /\ 6 + k \in 1..12
      OBVIOUS
    <3>6. Get(k) = x[k] /\ Get(6 + k) = x[6 + k]
      BY <3>4, <3>5
    <3> QED
      BY <2>4, <3>1, <3>3, <3>6
  <2>6. Get(1) = 92 /\ Get(2) = 117 /\ Get(7) = 92 /\ Get(8) = 117
    <3>1. /\ Get(1) = g[1] /\ Get(2) = g[2] /\ Get(6 + 1) = h[1] /\ Get(6 + 2) = h[2]
      BY <2>5
    <3> QED
      BY <2>3, <3>1
  <2>7. GetCodepoint(2) = a
    <3>1. 0 <= a /\ a < 65536
      BY <2>2 DEF High
    <3>2. \A n \in 1..4 : Get(2 + n) = Hex(a)[n + 2]
      BY <2>3, <2>5
    <3> QED
      BY <3>1, <3>2, HexReadsBack
  <2>8. GetCodepoint(8) = b
    <3>1. 0 <= b /\ b < 65536
      BY <2>2 DEF Low
    <3>2. ASSUME NEW n \in 1..4 PROVE Get(8 + n) = Hex(b)[n + 2]
      <4>1. 8 + n = 6 + (n + 2) /\ n + 2 \in 1..6
        OBVIOUS
      <4> QED
        BY <2>3, <2>5, <4>1
    <3> QED
      BY <3>1, <3>2, HexReadsBack
  <2>9. ScanUnicode
    BY <2>6, WhichScan
  <2>10. a # Eof /\ ~Low(a)
    BY <2>2 DEF Eof, Low, High
  <2>11. Adds(12, Utf8(Combined(a, b)))
    BY <2>2, <2>6, <2>7, <2>8, <2>9, <2>10, Zenon DEF ScanUnicode, Backslash
  <2> QED
    BY <1>6, <2>2, <2>4, <2>11, Zenon
<1> QED
  BY <1>4, <1>5

\* What was written for a character is read as that character.
LEMMA ScansEmitted ==
    ASSUME AnyScan, NEW x, NEW y, Emitted(x, y), Ahead(x)
    PROVE  Adds(Len(x), y)
BY ScansPlain, ScansShort, ScansHex DEF Emitted
-----------------------------------------------------------------------------
(* From the first byte that is dumped to the last that is read again.      *)

\* The page is behind something that was written, and has what it was written for.
RereadInv ==
    \E O, v, D :
      /\ O \in Seq(Int) /\ text = Append(O, Quote) /\ pos \in Nat
      /\ ReadsBy(O, v, D) /\ Holds(s, Put, v, Len(s))
      /\ <<pos, Len(token_buffer)>> \in D
      /\ token_buffer = SubSeq(v, 1, Len(token_buffer))

TripInv ==
    /\ error_handler \in {"strict", "ignore", "replace"}
    /\ phase = "scan" =>
         /\ state = 0 /\ undumped_chars = 0
         /\ string_buffer = <<>> /\ o = <<>> /\ bytes_after_last_accept = 0
    /\ phase = "dump" => DumpInv
    /\ phase = "type_error" => ~WellFormed(s)
    /\ phase = "parse_error" => i = 0
    /\ phase = "reread" => RereadInv
    /\ phase = "read" => Holds(s, Put, token_buffer, Len(s))

\* The replacement character is a character.
LEMMA ReplacementWhole == Whole(Utf8(ReplacementCharacter))
<1>1. IsScalar(65533)
  BY SMT DEF IsScalar
<1> QED
  BY <1>1, CharacterBytes DEF Whole, ReplacementCharacter

\* A replacement written is read as the replacement character.
LEMMA Replaced ==
    ASSUME Typed, o \in Seq(Int), NEW v \in Seq(Byte), NEW D, ReadsBy(o \o Accepted, v, D)
    PROVE  \E E : ReadsBy(o \o (Accepted \o Replacement), v \o Utf8(ReplacementCharacter), E)
<1>1. PICK a \in Seq(Int), r \in Seq(Int), f \in {Utf8(ReplacementCharacter)} :
        a = Accepted /\ r = Replacement /\ f = Utf8(ReplacementCharacter)
  BY AcceptedBytes, ReplacementInts
<1>2. Emitted(r, f)
  BY <1>1, ReplacementEmitted DEF Typed
<1>3. PICK p \in Seq(Int) : p = o \o a
  BY Numbers
<1>4. p \o r = o \o (a \o r)
  BY <1>3, Numbers
<1>5. \E E : ReadsBy(p \o r, v \o f, E)
  BY <1>1, <1>2, <1>3, ReadsAppend
<1> QED
  BY <1>1, <1>4, <1>5

\* A reject throws only at an ill-formed string; else what is in no character is left out, or

\* replaced (DumpReject).
LEMMA RejectKeeps ==
    ASSUME BufferInv, DumpInv, DumpReject, error_handler \in {"strict", "ignore", "replace"}
    PROVE  \/ phase' = "type_error" /\ ~WellFormed(s')
           \/ phase' = "dump" /\ DumpInv'
<1>0. Typed /\ i < Len(s) /\ moved = REJECT /\ Halfway /\ phase = "dump"
  BY DEF BufferInv, DumpReject, Reading, DumpInv
<1>1. Reread \in Nat /\ Reread <= Done + 3 /\ NoneTo(s, Done, Reread)
  BY <1>0, RejectedAreNone
<1>2. PICK v, D : ReadsBy(o \o Accepted, v, D) /\ Holds(s, Put, v, Done)
  BY DEF DumpInv
<1>3. s \in Seq(Byte) /\ v \in Seq(Byte) /\ o \in Seq(Int) /\ Accepted \in Seq(Int)
      /\ Len(Accepted) = bytes_after_last_accept
  BY <1>0, <1>2, AcceptedBytes DEF Typed, Holds, DumpInv
<1>4. /\ ~WellFormed(s) /\ Holds(s, Put, v, Reread)
      /\ \A f \in Put : Whole(f) => Holds(s, Put, v \o f, Reread)
  BY <1>1, <1>2, <1>3, HoldsDrops
<1>5. CASE error_handler = "strict"
  BY <1>4, <1>5 DEF DumpReject, TypeError, dumpVars
<1>6. CASE error_handler # "strict"
  <2>1. /\ phase' = "dump" /\ state' = 0 /\ i' = Reread /\ undumped_chars' = 0
        /\ s' = s /\ UNCHANGED options
    BY <1>0, <1>6, Zenon DEF DumpReject, ACCEPT
  <2>2. Put' = Put
    BY <2>1, PutSame
  <2>3. CASE error_handler = "replace"
    <3>1. PICK buffer \in Seq(Int) : buffer = Accepted \o Replacement
      BY <1>3, ReplacementInts, Numbers
    <3>2. Flushes(buffer)
      BY <1>6, <2>3, <3>1 DEF DumpReject
    <3>3. /\ o' \o Accepted' = o \o buffer /\ string_buffer' = Accepted' /\ o' \in Seq(Int)
          /\ Accepted' \in Seq(Int)
      BY <1>3, <3>2, FlushesAll, FlushesLeaveRoom
    <3>4. PICK f : f = Utf8(ReplacementCharacter)
      OBVIOUS
    <3>5. PICK E : ReadsBy(o' \o Accepted', v \o f, E)
      BY <1>0, <1>2, <1>3, <3>1, <3>3, <3>4, Replaced
    <3>6. Holds(s, Put, v \o f, Reread)
      <4>1. f \in Put
        BY <2>3, <3>4 DEF Put
      <4>2. Whole(f)
        BY <3>4, ReplacementWhole
      <4> QED
        BY <1>4, <4>1, <4>2
    <3>7. Holds(s', Put', v \o f, i') /\ i' \in Nat
      BY <1>1, <2>1, <2>2, <3>6
    <3>8. DumpInv'
      BY <2>1, <3>3, <3>5, <3>7, DumpInvBetween
    <3> QED
      BY <2>1, <3>8
  <2>4. CASE error_handler # "replace"
    <3>1. string_buffer' = Accepted /\ o' = o /\ bytes_after_last_accept' = Len(Accepted)
      BY <1>3, <1>6, <2>4 DEF DumpReject
    <3>2. Accepted' = Accepted
      <4>1. PICK a \in Seq(Int) : a = Accepted
        BY <1>3
      <4>2. SubSeq(a, 1, Len(a)) = a
        OBVIOUS
      <4>3. Accepted' = SubSeq(a, 1, Len(a))
        BY <3>1, <4>1 DEF Accepted
      <4> QED
        BY <4>1, <4>2, <4>3
    <3>3. /\ ReadsBy(o' \o Accepted', v, D) /\ Accepted' \in Seq(Int)
          /\ string_buffer' = Accepted' /\ o' \in Seq(Int)
      BY <1>2, <1>3, <3>1, <3>2
    <3>4. Holds(s', Put', v, i') /\ i' \in Nat
      BY <1>1, <1>4, <2>1, <2>2
    <3>5. DumpInv'
      BY <2>1, <3>3, <3>4, DumpInvBetween
    <3> QED
      BY <2>1, <3>5
  <2> QED
    BY <2>3, <2>4
<1> QED
  BY <1>5, <1>6

\* The page starts with nothing read.
LEMMA RereadStart ==
    ASSUME NEW O \in Seq(Int), NEW v, NEW D, ReadsBy(O, v, D), Holds(s, Put, v, Len(s)),
           text' = Append(O, Quote), pos' = 0, token_buffer' = <<>>, s' = s, Put' = Put
    PROVE  RereadInv'
<1>1. Len(token_buffer') = 0 /\ SubSeq(v, 1, 0) = <<>>
  OBVIOUS
<1>2. <<0, 0>> \in D
  BY DEF ReadsBy
<1>3. <<pos', Len(token_buffer')>> \in D /\ token_buffer' = SubSeq(v, 1, Len(token_buffer'))
      /\ pos' \in Nat
  BY <1>1, <1>2
<1>4. Holds(s', Put', v, Len(s')) /\ text' = Append(O, Quote)
  OBVIOUS
<1> QED
  BY <1>3, <1>4 DEF RereadInv

\* So it is at the end of a string that a character's first bytes end (DumpEnd).
LEMMA EndKeeps ==
    ASSUME BufferInv, DumpInv, DumpEnd, error_handler \in {"strict", "ignore", "replace"}
    PROVE  \/ phase' = "type_error" /\ ~WellFormed(s')
           \/ phase' = "reread" /\ RereadInv'
<1>0. Typed /\ i = Len(s) /\ Halfway /\ phase = "dump" /\ (state = 0 <=> undumped_chars = 0)
  BY DEF BufferInv, DumpEnd, DumpInv
<1>1. PICK v, D : ReadsBy(o \o Accepted, v, D) /\ Holds(s, Put, v, Done)
  BY DEF DumpInv
<1>2. s \in Seq(Byte) /\ v \in Seq(Byte) /\ o \in Seq(Int) /\ Accepted \in Seq(Int)
  BY <1>0, <1>1, AcceptedBytes DEF Typed, Holds, DumpInv
<1>3. CASE state = 0
  <2>1. Done = Len(s) /\ string_buffer = Accepted
    <3>1. undumped_chars = 0 /\ i \in Nat
      BY <1>0, <1>3 DEF Typed
    <3>2. Done = i
      BY <3>1 DEF Done
    <3>3. Pending = <<>>
      BY <3>1, <3>2, TakenNone DEF Pending
    <3> QED
      BY <1>0, <1>2, <3>2, <3>3, Numbers DEF DumpInv
  <2>2. /\ phase' = "reread" /\ text' = Append(o', Quote) /\ pos' = 0 /\ token_buffer' = <<>>
        /\ s' = s /\ UNCHANGED options
    BY <1>3, Zenon DEF DumpEnd, ACCEPT
  <2>3. o' = o \o Accepted
    BY <1>3, <2>1 DEF DumpEnd, ACCEPT
  <2>4. RereadInv'
    <3>1. PICK O \in Seq(Int) : O = o \o Accepted
      BY <1>2, Numbers
    <3>2. Put' = Put
      BY <2>2, PutSame
    <3> QED
      BY <1>1, <2>1, <2>2, <2>3, <3>1, <3>2, RereadStart
  <2> QED
    BY <2>2, <2>4
<1>4. CASE state # 0
  <2>0. Within
    BY <1>0, <1>4 DEF Halfway
  <2>1. Len(s) \in Nat /\ Len(s) <= Done + 3 /\ NoneTo(s, Done, Len(s))
    BY <1>0, <2>0, CutOffAreNone
  <2>2. /\ ~WellFormed(s) /\ Holds(s, Put, v, Len(s))
        /\ \A f \in Put : Whole(f) => Holds(s, Put, v \o f, Len(s))
    BY <1>1, <1>2, <2>1, HoldsDrops
  <2>3. CASE error_handler = "strict"
    BY <1>4, <2>2, <2>3 DEF DumpEnd, TypeError, dumpVars, ACCEPT
  <2>4. CASE error_handler # "strict"
    <3>1. /\ phase' = "reread" /\ text' = Append(o', Quote) /\ pos' = 0 /\ token_buffer' = <<>>
          /\ s' = s /\ UNCHANGED options
      BY <2>4, Zenon DEF DumpEnd
    <3>2. Put' = Put
      BY <3>1, PutSame
    <3>3. CASE error_handler = "ignore"
      <4>1. o' = o \o Accepted
        BY <1>4, <3>3 DEF DumpEnd, ACCEPT
      <4>2. PICK O \in Seq(Int) : O = o \o Accepted
        BY <1>2, Numbers
      <4>3. RereadInv'
        BY <1>1, <2>2, <3>1, <3>2, <4>1, <4>2, RereadStart
      <4> QED
        BY <3>1, <4>3
    <3>4. CASE error_handler = "replace"
      <4>1. PICK f : f = Utf8(ReplacementCharacter)
        OBVIOUS
      <4>2. PICK O \in Seq(Int) : O = o \o (Accepted \o Replacement)
        BY <1>2, ReplacementInts, Numbers
      <4>3. o' = O
        <5>1. o' = (o \o Accepted) \o Replacement
          BY <1>4, <3>4 DEF DumpEnd, ACCEPT
        <5> QED
          BY <1>2, <4>2, <5>1, ReplacementInts, Numbers
      <4>4. PICK E : ReadsBy(O, v \o f, E)
        BY <1>0, <1>1, <1>2, <4>1, <4>2, Replaced
      <4>5. Holds(s, Put, v \o f, Len(s))
        <5>1. f \in Put
          BY <3>4, <4>1 DEF Put
        <5>2. Whole(f)
          BY <4>1, ReplacementWhole
        <5> QED
          BY <2>2, <5>1, <5>2
      <4>6. RereadInv'
        BY <3>1, <3>2, <4>3, <4>4, <4>5, RereadStart
      <4> QED
        BY <3>1, <4>6
    <3> QED
      BY <2>4, <3>3, <3>4
  <2> QED
    BY <2>3, <2>4
<1> QED
  BY <1>3, <1>4

\* What occurs in a text is the part of it.
LEMMA OccursTaken ==
    ASSUME NEW y \in Seq(Byte), NEW t \in Seq(Byte), NEW q \in Nat, Occurs(y, t, q)
    PROVE  Taken(t, q, Len(y)) = y
<1>1. q + Len(y) <= Len(t) /\ \A k \in 1..Len(y) : t[q + k] = y[k]
  BY DEF Occurs
<1>2. PICK w \in Nat : w = Len(y)
  OBVIOUS
<1>3. PICK x \in Seq(Byte) : x = Taken(t, q, w) /\ Len(x) = w /\ \A k \in 1..w : x[k] = t[q + k]
  BY <1>1, <1>2, TakenIs
<1>4. \A k \in 1..w : x[k] = y[k]
  BY <1>1, <1>2, <1>3
<1>5. x = y
  BY <1>2, <1>3, <1>4, SameElements
<1> QED
  BY <1>2, <1>3, <1>5

\* A turn of scan_string reads what was written for one character, or ends with all of them.
LEMMA RereadKeeps ==
    ASSUME Typed, phase = "reread", RereadInv, AnyScan
    PROVE  \/ phase' = "reread" /\ RereadInv'
           \/ phase' = "read" /\ Holds(s', Put', token_buffer', Len(s'))
<1>0. s \in Seq(Byte) /\ token_buffer \in Seq(Byte)
  BY DEF Typed
<1>1. PICK O, v, D :
        /\ O \in Seq(Int) /\ text = Append(O, Quote) /\ pos \in Nat
        /\ ReadsBy(O, v, D) /\ Holds(s, Put, v, Len(s))
        /\ <<pos, Len(token_buffer)>> \in D
        /\ token_buffer = SubSeq(v, 1, Len(token_buffer))
  BY DEF RereadInv
<1>2. v \in Seq(Byte)
  BY <1>1 DEF Holds
<1>3. PICK q \in Nat : q = Len(token_buffer)
  BY <1>0
<1>4. /\ pos \in 0..Len(O) /\ q \in 0..Len(v) /\ <<pos, q>> \in D
      /\ <<pos, q>> # <<Len(O), Len(v)>> => Reads(O, v, D, pos, q)
  <2>1. D \subseteq (0..Len(O)) \X (0..Len(v))
    BY <1>1 DEF ReadsBy
  <2>2. pos \in 0..Len(O) /\ q \in 0..Len(v) /\ <<pos, q>> \in D
    BY <1>1, <1>3, <2>1
  <2> QED
    BY <1>1, <2>2 DEF ReadsBy
<1>5. Len(text) = Len(O) + 1 /\ text[Len(O) + 1] = 34 /\ \A k \in 1..Len(O) : text[k] = O[k]
  BY <1>1 DEF Quote
<1>6. CASE <<pos, q>> = <<Len(O), Len(v)>>
  <2>1. pos = Len(O) /\ q = Len(v)
    BY <1>6
  <2>2. Get(1) = 34
    BY <1>1, <1>5, <2>1 DEF Get
  <2>3. ScanClose
    BY <2>2, WhichScan
  <2>4. phase' = "read" /\ s' = s /\ token_buffer' = token_buffer /\ UNCHANGED options
    BY <2>3 DEF ScanClose
  <2>5. token_buffer = v
    <3>1. SubSeq(v, 1, Len(v)) = v
      BY <1>2
    <3> QED
      BY <1>1, <1>3, <2>1, <3>1
  <2>6. Put' = Put
    BY <2>4, PutSame
  <2> QED
    BY <1>1, <2>4, <2>5, <2>6
<1>7. CASE <<pos, q>> # <<Len(O), Len(v)>>
  <2>1. PICK x, y : /\ Emitted(x, y) /\ Occurs(x, O, pos) /\ Occurs(y, v, q)
                    /\ <<pos + Len(x), q + Len(y)>> \in D
    BY <1>4, <1>7 DEF Reads
  <2>2. x \in Seq(Int) /\ Len(x) \in 1..12 /\ y \in Seq(Byte) /\ Len(y) \in 1..4
    BY <2>1, EmittedTypes DEF Whole
  <2>3. Ahead(x)
    <3> SUFFICES ASSUME NEW k \in 1..Len(x) PROVE Get(k) = x[k]
      BY DEF Ahead
    <3>1. pos + Len(x) <= Len(O) /\ O[pos + k] = x[k]
      BY <2>1 DEF Occurs
    <3>2. pos + k \in 1..Len(O)
      BY <1>1, <2>2, <3>1
    <3>3. text[pos + k] = O[pos + k] /\ pos + k <= Len(text)
      BY <1>1, <1>5, <3>2
    <3> QED
      BY <3>1, <3>3 DEF Get
  <2>4. Adds(Len(x), y)
    BY <2>1, <2>3, ScansEmitted
  <2>5. /\ pos' = pos + Len(x) /\ token_buffer' = token_buffer \o y
        /\ phase' = "reread" /\ text' = text /\ s' = s /\ UNCHANGED options
    BY <2>4 DEF Adds, dumpVars
  <2>6. Len(token_buffer') = q + Len(y)
    <3>1. Len(token_buffer \o y) = Len(token_buffer) + Len(y)
      BY <1>0, <2>2
    <3> QED
      BY <1>3, <2>5, <3>1
  <2>7. token_buffer' = SubSeq(v, 1, q + Len(y))
    <3>1. Taken(v, q, Len(y)) = y
      BY <1>2, <2>1, <2>2, OccursTaken
    <3>2. q + Len(y) <= Len(v) /\ Len(y) \in Nat
      BY <2>1, <2>2 DEF Occurs
    <3>3. SubSeq(v, 1, q) \o Taken(v, q, Len(y)) = SubSeq(v, 1, q + Len(y))
      BY <1>2, <3>2, FirstParts
    <3> QED
      BY <1>1, <1>3, <2>5, <3>1, <3>3
  <2>8. <<pos', Len(token_buffer')>> \in D /\ pos' \in Nat
    BY <1>1, <2>1, <2>2, <2>5, <2>6
  <2>9. Put' = Put
    BY <2>5, PutSame
  <2>10. RereadInv'
    BY <1>1, <2>5, <2>6, <2>7, <2>8, <2>9 DEF RereadInv
  <2> QED
    BY <2>5, <2>10
<1> QED
  BY <1>6, <1>7

\* At first nothing is written for nothing.
LEMMA TripStart ==
    ASSUME NEW t \in Seq(Byte), NEW drop
    PROVE  ReadsBy(<<>> \o <<>>, <<>>, {<<0, 0>>}) /\ Holds(t, drop, <<>>, 0)
<1>1. <<>> \o <<>> = <<>>
  OBVIOUS
<1> QED
  BY <1>1, ReadsNone, HoldsStart

\* Nothing is accepted yet.
LEMMA TripInit == Init => TripInv
<1> SUFFICES ASSUME Init PROVE TripInv
  OBVIOUS
<1>1. Typed
  BY BufferInit DEF BufferInv
<1>2. /\ error_handler \in {"strict", "ignore", "replace"}
      /\ phase = "scan" \/ phase = "dump"
      /\ i = 0 /\ state = 0 /\ undumped_chars = 0 /\ string_buffer = <<>> /\ o = <<>>
      /\ bytes_after_last_accept = 0
  BY HandlerAssumption, Zenon DEF Init, ACCEPT
<1>3. DumpInv
  <2>1. Done = 0 /\ Accepted = <<>>
    BY <1>2 DEF Done, Accepted
  <2>2. Pending = <<>>
    BY <1>2, <2>1, TakenNone DEF Pending
  <2>3. string_buffer = Accepted \o Pending /\ o \in Seq(Int)
    BY <1>2, <2>1, <2>2
  <2>4. ReadsBy(o \o Accepted, <<>>, {<<0, 0>>}) /\ Holds(s, Put, <<>>, Done)
    BY <1>1, <1>2, <2>1, TripStart DEF Typed
  <2> QED
    BY <1>2, <2>3, <2>4 DEF DumpInv, Halfway
<1> QED
  BY <1>2, <1>3 DEF TripInv

\* A string that was scanned is dumped from its first byte (ScanClose).
LEMMA ScannedStarts ==
    ASSUME Typed, TripInv, phase = "scan", i = 0, ScanClose
    PROVE  phase' = "dump" /\ DumpInv'
<1>1. /\ state = 0 /\ undumped_chars = 0
      /\ string_buffer = <<>> /\ o = <<>> /\ bytes_after_last_accept = 0
  BY DEF TripInv
<1>2. /\ phase' = "dump" /\ s' = token_buffer /\ i' = 0 /\ state' = 0 /\ undumped_chars' = 0
      /\ string_buffer' = <<>> /\ o' = <<>> /\ bytes_after_last_accept' = 0
  BY <1>1 DEF ScanClose
<1>3. s' \in Seq(Byte)
  BY <1>2 DEF Typed
<1>4. Accepted' = <<>>
  BY <1>2 DEF Accepted
<1>5. ReadsBy(o' \o Accepted', <<>>, {<<0, 0>>}) /\ Holds(s', Put', <<>>, 0)
  BY <1>2, <1>3, <1>4, TripStart
<1>6. i' \in Nat /\ Accepted' \in Seq(Int) /\ string_buffer' = Accepted' /\ o' \in Seq(Int)
  BY <1>2, <1>4
<1>7. Holds(s', Put', <<>>, i')
  BY <1>2, <1>5
<1>8. DumpInv'
  BY <1>2, <1>5, <1>6, <1>7, DumpInvBetween
<1> QED
  BY <1>2, <1>8

\* Every step keeps what is written, and what is read of it, in line with the string.
LEMMA TripNext == BufferInv /\ TripInv /\ [Next]_stringVars => TripInv'
<1> SUFFICES ASSUME BufferInv, TripInv, [Next]_stringVars PROVE TripInv'
  OBVIOUS
<1>0. Typed /\ error_handler \in {"strict", "ignore", "replace"}
  BY DEF BufferInv, TripInv
<1>1. CASE UNCHANGED stringVars
  <2>1. UNCHANGED <<phase, text, pos, token_buffer, s, i, state, codepoint, string_buffer, o,
                    bytes_after_last_accept, undumped_chars, ensure_ascii, error_handler>>
    BY <1>1 DEF stringVars, scanVars, dumpVars, options
  <2>2. DumpInv' <=> DumpInv
    BY <2>1 DEF DumpInv, Halfway, Within, Pending, Accepted, Done, Put
  <2>3. RereadInv' <=> RereadInv
    BY <2>1 DEF RereadInv, Put
  <2>4. Put' = Put
    BY <2>1 DEF Put
  <2> QED
    BY <2>1, <2>2, <2>3, <2>4 DEF TripInv
<1>2. CASE Next
  <2>1. UNCHANGED options
    BY <1>2, Zenon
    DEF Next, ScanPlain, ScanCharacter, ScanEscape, ScanUnicode, ScanBad, ScanClose, DumpAccept,
        DumpIncomplete, DumpReject, DumpEnd, Adds, ParseError, TypeError
  <2>2. error_handler' \in {"strict", "ignore", "replace"}
    BY <1>0, <2>1 DEF options
  <2>3. CASE phase = "scan" /\ ~ScanClose
    <3>1. ScanPlain \/ ScanCharacter \/ ScanEscape \/ ScanUnicode \/ ScanBad
      BY <1>2, <2>3
      DEF Next, DumpAccept, DumpIncomplete, DumpReject, DumpEnd, Reading
    <3>2. ParseError \/ (Scanning /\ \E n, bytes : Whole(bytes) /\ Adds(n, bytes))
      BY <3>1, ScanStep
    <3>3. UNCHANGED dumpVars /\ (phase' = "scan" \/ phase' = "parse_error")
      BY <2>3, <3>2 DEF ParseError, Adds
    <3>4. i = 0
      BY <2>3 DEF BufferInv
    <3> QED
      BY <2>2, <2>3, <3>3, <3>4 DEF TripInv, dumpVars
  <2>4. CASE phase = "scan" /\ ScanClose
    <3>1. i = 0
      BY <2>4 DEF BufferInv
    <3>2. phase' = "dump" /\ DumpInv'
      BY <1>0, <2>4, <3>1, ScannedStarts
    <3> QED
      BY <2>2, <3>2 DEF TripInv
  <2>5. CASE phase = "dump"
    <3>1. DumpAccept \/ DumpIncomplete \/ DumpReject \/ DumpEnd
      BY <1>2, <2>5
      DEF Next, ScanPlain, ScanCharacter, ScanEscape, ScanUnicode, ScanBad, ScanClose, Scanning
    <3>2. DumpInv
      BY <2>5 DEF TripInv
    <3>3. CASE DumpAccept \/ DumpIncomplete
      <4>1. phase' = "dump"
        BY <2>5, <3>3 DEF DumpAccept, DumpIncomplete
      <4>2. DumpInv'
        BY <3>2, <3>3, AcceptKeeps, IncompleteKeeps
      <4> QED
        BY <2>2, <4>1, <4>2 DEF TripInv
    <3>4. CASE DumpReject
      <4>1. \/ phase' = "type_error" /\ ~WellFormed(s')
            \/ phase' = "dump" /\ DumpInv'
        BY <1>0, <3>2, <3>4, RejectKeeps
      <4> QED
        BY <2>2, <4>1 DEF TripInv
    <3>5. CASE DumpEnd
      <4>1. \/ phase' = "type_error" /\ ~WellFormed(s')
            \/ phase' = "reread" /\ RereadInv'
        BY <1>0, <3>2, <3>5, EndKeeps
      <4> QED
        BY <2>2, <4>1 DEF TripInv
    <3> QED
      BY <3>1, <3>3, <3>4, <3>5
  <2>6. CASE phase = "reread"
    <3>1. AnyScan
      BY <1>2, <2>6
      DEF Next, DumpAccept, DumpIncomplete, DumpReject, DumpEnd, Reading, AnyScan
    <3>2. RereadInv
      BY <2>6 DEF TripInv
    <3>3. \/ phase' = "reread" /\ RereadInv'
          \/ phase' = "read" /\ Holds(s', Put', token_buffer', Len(s'))
      BY <1>0, <2>6, <3>1, <3>2, RereadKeeps
    <3> QED
      BY <2>2, <3>3 DEF TripInv
  <2>7. phase \in {"scan", "dump", "reread"}
    BY <1>2
    DEF Next, ScanPlain, ScanCharacter, ScanEscape, ScanUnicode, ScanBad, ScanClose, Scanning,
        DumpAccept, DumpIncomplete, DumpReject, DumpEnd, Reading
  <2> QED
    BY <2>3, <2>4, <2>5, <2>6, <2>7
<1> QED
  BY <1>1, <1>2

\* What was dumped can be parsed, and is the string again, whatever its length, its bytes, the

\* options and the size of the buffer; of an ill-formed string every whole character is still
\* there, and dump throws at no other (RoundTrip).
THEOREM StringsRoundTrip == Spec => []RoundTrip
<1>1. BufferInv /\ TripInv => RoundTrip
  <2> SUFFICES ASSUME BufferInv, TripInv PROVE RoundTrip
    OBVIOUS
  <2>1. s \in Seq(Byte)
    BY DEF BufferInv, Typed
  <2>2. ASSUME phase = "read"
        PROVE  /\ WellFormed(token_buffer) /\ (WellFormed(s) => token_buffer = s)
               /\ Without(token_buffer, Put) = Without(s, Put)
    <3>1. Holds(s, Put, token_buffer, Len(s))
      BY <2>2 DEF TripInv
    <3> QED
      BY <2>1, <3>1, HoldsEnd
  <2> QED
    BY <2>2 DEF TripInv, RoundTrip
<1> QED
  BY <1>1, BufferInit, BufferNext, TripInit, TripNext, PTL DEF Spec
=============================================================================
