------------------------------ MODULE CSVReader ------------------------------
(***************************************************************************)
(* CSVReader.cpp: readCSV with its two helpers, tokenise and stringToOBE,  *)
(* as one thread runs them on a file that clean_csv.py may have rewritten. *)
(* A line is a sequence of character codes.  Positions are those of the    *)
(* code: they start at 0, and npos becomes -1 in a signed int.             *)
(***************************************************************************)
EXTENDS Integers, Sequences, FiniteSets, FiniteSetsExt

CONSTANTS Files     \* possible contents of the file: sequences of lines

Comma == 44
Point == 46
Zero == 48
Digit == Zero..Zero + 9

ASSUME FilesAreText == Files \subseteq Seq(Seq(Nat))

VARIABLES file,     \* the lines getline has not returned yet
          lineNum, badLines, entries, line,
          start, end, tokens,   \* locals of tokenise
          pc,       \* "raw", "open", "getline", "tokenise", "parse", "done"
          \* auxiliary: no step reads these
          all,      \* the lines of the file that is read
          uncleaned \* the lines before clean_csv.py
countVars == <<lineNum, badLines, entries>>
tokenVars == <<start, end, tokens>>
vars == <<file, countVars, line, tokenVars, pc, all, uncleaned>>

Init ==
    /\ file \in Files /\ all = file /\ uncleaned = file
    /\ lineNum = 0 /\ badLines = 0 /\ entries = <<>> /\ line = <<>>
    /\ start = 0 /\ end = 0 /\ tokens = <<>>
    /\ pc = "raw"

-----------------------------------------------------------------------------
(* clean_csv.py *)

\* A field that begins behind position n of l with "0.", a number and a point.
SpareZero(l, n) ==
    /\ n + 4 < Len(l) /\ l[n] = Comma /\ l[n + 1] = Zero /\ l[n + 2] = Point
    /\ \E m \in n + 3..Len(l) - 2 :
         /\ \A k \in n + 3..m : l[k] \in Digit
         /\ l[m + 1] = Point /\ l[m + 2] \in Digit

\* What v has at the places in S, from left to right, up to place n, for every n.
\* A recursive function, as the proofs unfold it.
AtPlaces(v, S) ==
    LET upTo[n \in Nat] ==
          IF n = 0 THEN <<>>
          ELSE IF n \in S THEN Append(upTo[n - 1], v[n]) ELSE upTo[n - 1]
    IN  upTo

CharsAt(l, ps) == AtPlaces(l, ps)[Len(l)]

\* A slip: the point of the spare zero stays.
CleanedZeroOnly(l) ==
    CharsAt(l, {n \in DOMAIN l : ~(n > 1 /\ SpareZero(l, n - 1))})

\* The substitution takes one spare "0." out of each field but the first.
Cleaned(l) ==
    CharsAt(l, {n \in DOMAIN l : /\ ~(n > 1 /\ SpareZero(l, n - 1))
                                 /\ ~(n > 2 /\ SpareZero(l, n - 2))})

\* The script is run by hand, before the program; the program reads any file.
CleanCsv ==
    /\ pc = "raw"
    /\ file' = [n \in DOMAIN file |-> Cleaned(file[n])]
    /\ all' = file'
    /\ pc' = "open"
    /\ UNCHANGED <<countVars, line, tokenVars, uncleaned>>

UseAsIs ==
    /\ pc = "raw" /\ pc' = "open"
    /\ UNCHANGED <<file, countVars, line, tokenVars, all, uncleaned>>

-----------------------------------------------------------------------------
(* readCSV *)

\* A file that cannot be opened has no lines, and that is no error.
Open ==
    /\ pc = "open"
    /\ pc' \in {"getline", "done"}
    /\ UNCHANGED <<file, countVars, line, tokenVars, all, uncleaned>>

PositionsFrom(l, k, C) == {n \in k..Len(l) - 1 : l[n + 1] \in C}
FirstOr(S) == IF S = {} THEN -1 ELSE Min(S)

find_first_of(l, c, k) == FirstOr(PositionsFrom(l, k, {c}))
find_first_not_of(l, c) == FirstOr({n \in 0..Len(l) - 1 : l[n + 1] # c})

\* end is unassigned until it is set in the loop.
GetLineKeepingTokens ==     \* a slip: tokens outlive their line
    /\ pc = "getline" /\ file # <<>>
    /\ line' = Head(file) /\ file' = Tail(file)
    /\ lineNum' = lineNum + 1
    /\ start' = find_first_not_of(line', Comma) /\ end' = -1
    /\ pc' = "tokenise"
    /\ UNCHANGED <<badLines, entries, tokens, all, uncleaned>>

GetLine ==
    /\ pc = "getline" /\ file # <<>>
    /\ line' = Head(file) /\ file' = Tail(file)
    /\ lineNum' = lineNum + 1
    /\ start' = find_first_not_of(line', Comma) /\ end' = -1 /\ tokens' = <<>>
    /\ pc' = "tokenise"
    /\ UNCHANGED <<badLines, entries, all, uncleaned>>

EndOfFile ==
    /\ pc = "getline" /\ file = <<>>
    /\ pc' = "done"
    /\ UNCHANGED <<file, countVars, line, tokenVars, all, uncleaned>>

\* From position -1, which is npos, nothing is found.
NextEnd == IF start = -1 THEN -1 ELSE find_first_of(line, Comma, start)

\* substr(start, length) of the line.
substr(l, from, length) == SubSeq(l, from + 1, from + length)

\* A slip: a separator at the end of the line is not noticed.
AtEmptyField(e) == start = e
\* The loop is left at the end of the line and at an empty field.
AtBreak(e) == start = Len(line) \/ start = e

TokeniseBreak ==
    /\ end' = NextEnd
    /\ AtBreak(end')
    /\ pc' = "parse"
    /\ UNCHANGED <<start, tokens>>

TokenAt(e) == substr(line, start, (IF e >= 0 THEN e ELSE Len(line)) - start)

TokenisePush ==
    /\ end' = NextEnd
    /\ ~AtBreak(end')
    /\ tokens' = Append(tokens, TokenAt(end'))
    /\ start' = end' + 1
    /\ pc' = IF end' > 0 THEN "tokenise" ELSE "parse"

Tokenise ==
    /\ pc = "tokenise"
    /\ TokeniseBreak \/ TokenisePush
    /\ UNCHANGED <<file, countVars, line, all, uncleaned>>

-----------------------------------------------------------------------------
(* stringToOBE *)

\* Digits with at most one point among them.  Signs, exponents, blanks and the
\* words for infinity and NaN, which stod reads too, are left out.
IsNumber(t) ==
    /\ \A n \in DOMAIN t : t[n] \in Digit \cup {Point}
    /\ Cardinality({n \in DOMAIN t : t[n] = Point}) <= 1
    /\ \E n \in DOMAIN t : t[n] \in Digit

Prefix(t, n) == SubSeq(t, 1, n)
NumberLengths(t) == {n \in 1..Len(t) : IsNumber(Prefix(t, n))}

StodThrows(t) == NumberLengths(t) = {}
\* stod reads the longest prefix that is a number and says nothing of the rest.
stod(t) == Prefix(t, Max(NumberLengths(t)))

Ask == <<97>>       \* the words ask and bid, one character each
Bid == <<98>>

stringToOrderBookType(t) ==
    IF t = Ask THEN "ask" ELSE IF t = Bid THEN "bid" ELSE "unknown"

Loads(ts) == Len(ts) = 5 /\ ~StodThrows(ts[4]) /\ ~StodThrows(ts[5])

OBE(ts) ==
    [price |-> stod(ts[4]), amount |-> stod(ts[5]), timestamp |-> ts[1],
     product |-> ts[2], orderType |-> stringToOrderBookType(ts[3])]

\* What stringToOBE throws is caught for each line.
Parse ==
    /\ pc = "parse"
    /\ IF Loads(tokens)
       THEN entries' = Append(entries, OBE(tokens)) /\ UNCHANGED badLines
       ELSE badLines' = badLines + 1 /\ UNCHANGED entries
    /\ pc' = "getline"
    /\ UNCHANGED <<file, lineNum, line, tokenVars, all, uncleaned>>

Read == Open \/ GetLine \/ EndOfFile \/ Tokenise \/ Parse
Next == CleanCsv \/ UseAsIs \/ Read

Spec == Init /\ [][Next]_vars

\* The program, once started, runs.
FairSpec == Spec /\ WF_vars(Read)

-----------------------------------------------------------------------------
(* Properties *)

TypeOK ==
    /\ file \in Seq(Seq(Nat)) /\ line \in Seq(Nat) /\ tokens \in Seq(Seq(Nat))
    /\ lineNum \in Nat /\ badLines \in Nat
    /\ start \in -1..Len(line) /\ end \in -1..Len(line)
    /\ pc \in {"raw", "open", "getline", "tokenise", "parse", "done"}

\* Where fields begin, counted from 1: a field is a maximal run without separator.
Begins(l) == {n \in DOMAIN l : l[n] # Comma /\ (n > 1 => l[n - 1] = Comma)}
FieldAt(l, n) == SubSeq(l, n, Max({m \in n..Len(l) : \A k \in n..m : l[k] # Comma}))

\* The fields up to the first empty one, where separators at the beginning of the
\* line are no fields.
Kept(l) == {n \in Begins(l) :
              \A m \in Min(Begins(l))..n - 2 : ~(l[m] = Comma /\ l[m + 1] = Comma)}

\* What tokenise promises: these fields, from left to right.  FieldsTo(l)[n] are
\* those that begin at n or before.
FieldsTo(l) == AtPlaces([n \in DOMAIN l |-> FieldAt(l, n)], Kept(l))
Fields(l) == FieldsTo(l)[Len(l)]

\* tokenise mixes positions, -1 for npos and lengths in signed ints, and leaves
\* its loop at two places (CSVReader.cpp:52-59); it returns the fields.
TokeniseCorrect == pc = "parse" => tokens = Fields(line)

\* What is to be loaded from the first n of the lines ls, for every n.
LoadedFrom(ls) ==
    AtPlaces([n \in DOMAIN ls |-> OBE(Fields(ls[n]))],
             {n \in DOMAIN ls : Loads(Fields(ls[n]))})

\* Every line is loaded or counted as bad, by itself: bad lines before it change
\* neither what is read from a line nor the order of the entries.
GoodRowsInOrder ==
    pc = "done" /\ lineNum = Len(all) =>
        /\ entries = LoadedFrom(all)[Len(all)]
        /\ badLines + Len(entries) = lineNum

WholeNumbers(ts) == IsNumber(ts[4]) /\ IsNumber(ts[5])

\* README.md:47, "skips malformed rows": a row that is loaded has a price and an
\* amount that are numbers.
MalformedSkipped == pc = "parse" /\ Loads(tokens) => WholeNumbers(tokens)

\* A number, or a number behind a spare "0.".
Repairable(t) == IsNumber(t) \/ (Len(t) > 2 /\ t[1] = Zero /\ t[2] = Point
                                 /\ t[3] \in Digit /\ t[Len(t)] \in Digit
                                 /\ IsNumber(SubSeq(t, 3, Len(t))))

\* clean_csv.py repairs what it is for (its comment at line 7): if in the original
\* the numbers of a row have at most a spare "0." in front, then nothing that is
\* loaded from the cleaned file was cut short, and no row is lost by the cleaning.
CleanSuffices ==
    pc = "parse" /\ all # uncleaned =>
        LET ts == Fields(uncleaned[lineNum])
        IN  Len(ts) = 5 /\ Repairable(ts[4]) /\ Repairable(ts[5])
              => Loads(tokens) /\ WholeNumbers(tokens)

\* std::string's order on the timestamps.
AtOrBefore(t, u) ==
    \/ Len(t) <= Len(u) /\ t = Prefix(u, Len(t))
    \/ \E n \in 1..Min({Len(t), Len(u)}) :
          t[n] < u[n] /\ Prefix(t, n - 1) = Prefix(u, n - 1)

\* README.md:72, "Initial CSV sort | O(n log n) | One-time, on load": the entries are
\* in time order, so that getEarliestTime, which takes the first, takes the earliest.
SortedOnLoad ==
    pc = "done" => \A m, n \in DOMAIN entries :
        m < n => AtOrBefore(entries[m].timestamp, entries[n].timestamp)

\* Reading ends.
ReaderTerminates == pc = "open" ~> pc = "done"
=============================================================================
