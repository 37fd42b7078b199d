-------------------------------- MODULE Utf8 --------------------------------
(***************************************************************************)
(* Unicode's own definitions, for comparison with what json.hpp does: how  *)
(* a code point is written in UTF-8 and in UTF-16.                         *)
(***************************************************************************)
EXTENDS Integers, Sequences

\* All code points but the surrogates, D800 to DFFF.
IsScalar(c) == (0 <= c /\ c < 55296) \/ (57344 <= c /\ c <= 1114111)

Trail(c) == 128 + (c % 64)
Two(c) == <<192 + c \div 64, Trail(c)>>
Three(c) == <<224 + c \div 4096, Trail(c \div 64), Trail(c)>>
Four(c) == <<240 + c \div 262144, Trail(c \div 4096), Trail(c \div 64), Trail(c)>>

Utf8(c) ==
    IF c < 128 THEN <<c>>
    ELSE IF c < 2048 THEN Two(c)
    ELSE IF c < 65536 THEN Three(c)
    ELSE Four(c)

\* The code point that one to four bytes would be of.
Code(t) ==
    CASE Len(t) = 1 -> t[1]
      [] Len(t) = 2 -> (t[1] % 32) * 64 + (t[2] % 64)
      [] Len(t) = 3 -> (t[1] % 16) * 4096 + (t[2] % 64) * 64 + (t[3] % 64)
      [] OTHER -> (t[1] % 8) * 262144 + (t[2] % 64) * 4096 + (t[3] % 64) * 64 + (t[4] % 64)

IsCharacter(t) == IsScalar(Code(t)) /\ Utf8(Code(t)) = t

\* Number of bytes of the character that s has at place n; 0 if there is none.
CharacterAt(s, n) ==
    IF \E k \in 1..4 : n + k - 1 <= Len(s) /\ IsCharacter(SubSeq(s, n, n + k - 1))
    THEN CHOOSE k \in 1..4 : n + k - 1 <= Len(s) /\ IsCharacter(SubSeq(s, n, n + k - 1))
    ELSE 0

\* From each place of s, the characters that follow: those of drop, and bytes that belong to
\* none, left out.
Following(s, drop) ==
    LET from[n \in 1..(Len(s) + 1)] ==
          LET k == CharacterAt(s, n)
              t == SubSeq(s, n, n + k - 1)
          IN IF n > Len(s) THEN <<>>
             ELSE IF k = 0 THEN from[n + 1]
             ELSE IF t \in drop THEN from[n + k]
             ELSE t \o from[n + k]
    IN from

Without(s, drop) == Following(s, drop)[1]

Characters(s) == Without(s, {})

WellFormed(s) == Characters(s) = s

\* UTF-16: whether no surrogate lacks its other half, and the same text in UTF-8.
High(u) == 55296 <= u /\ u < 56320
Low(u) == 56320 <= u /\ u < 57344
Paired(units) ==
    \A n \in 1..Len(units) :
      /\ High(units[n]) => n < Len(units) /\ Low(units[n + 1])
      /\ Low(units[n]) => n > 1 /\ High(units[n - 1])

FromUtf16(units) ==
    LET from[n \in 1..(Len(units) + 2)] ==
          IF n > Len(units) THEN <<>>
          ELSE IF High(units[n])
          THEN Utf8((units[n] - 55296) * 1024 + (units[n + 1] - 56320) + 65536) \o from[n + 2]
          ELSE Utf8(units[n]) \o from[n + 1]
    IN from[1]
=============================================================================
