--------------------------- MODULE CSVReaderProofs ---------------------------
(***************************************************************************)
(* What the reader makes of a file, for every file: tokenise returns the   *)
(* fields of its line, and every line is loaded or counted as bad, in      *)
(* order.  The invariant says where in its line tokenise is, and how many  *)
(* lines of the file the entries and the bad lines account for.  And what  *)
(* clean_csv.py makes of a line has the fields of the line, each cleaned.  *)
(***************************************************************************)
EXTENDS CSVReader, WellFoundedInduction, FiniteSetTheorems, TLAPS

-----------------------------------------------------------------------------
(* Least and greatest elements *)

\* A nonempty set of natural numbers has a least element.
LEMMA LeastOf ==
    ASSUME NEW K \in SUBSET Nat, K # {}
    PROVE  \E x \in K : \A y \in K : x <= y
<1>1. PICK x \in K : \A y \in K : ~(<<y, x>> \in OpToRel(<, Nat))
  BY NatLessThanWellFounded, WFMin
<1>2. ASSUME NEW y \in K PROVE x <= y
  <2>1. <<y, x>> \in Nat \X Nat /\ ~(<<y, x>> \in OpToRel(<, Nat))
    BY <1>1
  <2>2. ~(y < x)
    BY <2>1 DEF OpToRel
  <2>3. x \in Nat /\ y \in Nat
    OBVIOUS
  <2> QED
    BY <2>2, <2>3
<1> QED
  BY <1>2

\* Min is that element.
LEMMA MinIsLeast ==
    ASSUME NEW K \in SUBSET Nat, K # {}
    PROVE  Min(K) \in K /\ \A y \in K : Min(K) <= y
<1>1. \E x \in K : \A y \in K : x <= y
  BY LeastOf
<1> QED
  BY <1>1 DEF Min

\* The greatest of the numbers from a to b.
LEMMA MaxOfInterval ==
    ASSUME NEW a \in Int, NEW b \in Int, a <= b
    PROVE  Max(a..b) = b
<1> DEFINE M == CHOOSE x \in a..b : \A y \in a..b : x >= y
<1>1. b \in a..b /\ \A y \in a..b : b >= y
  OBVIOUS
<1>2. M \in a..b /\ M >= b
  BY <1>1
<1>3. M = b
  BY <1>2
<1> QED
  BY <1>3 DEF Max

-----------------------------------------------------------------------------
(* What AtPlaces takes from left to right *)

\* c is that function, up to place m.
Takes(c, v, S, m) ==
    /\ c[0] = <<>>
    /\ \A n \in Nat : n < m =>
         c[n + 1] = IF n + 1 \in S THEN Append(c[n], v[n + 1]) ELSE c[n]

\* Two such functions agree.
LEMMA TakesAgree ==
    ASSUME NEW v, NEW S, NEW m \in Nat, NEW c, NEW d,
           Takes(c, v, S, m), Takes(d, v, S, m)
    PROVE  \A n \in 0..m : c[n] = d[n]
<1> DEFINE K == {n \in 0..m : c[n] # d[n]}
<1> SUFFICES ASSUME K # {} PROVE FALSE
  OBVIOUS
<1>1. PICK n \in K : \A y \in K : n <= y
  <2>1. K \in SUBSET Nat
    OBVIOUS
  <2> QED
    BY <2>1, LeastOf
<1>2. n # 0
  BY <1>1 DEF Takes
<1>3. n - 1 \in Nat /\ n - 1 < m /\ n - 1 \in 0..m /\ n - 1 \notin K /\ (n - 1) + 1 = n
  BY <1>1, <1>2
<1>4. c[n - 1] = d[n - 1]
  BY <1>3
<1> DEFINE k == n - 1
<1>5. /\ c[k + 1] = IF k + 1 \in S THEN Append(c[k], v[k + 1]) ELSE c[k]
      /\ d[k + 1] = IF k + 1 \in S THEN Append(d[k], v[k + 1]) ELSE d[k]
  BY <1>3 DEF Takes
<1>6. c[n] = d[n]
  BY <1>3, <1>4, <1>5
<1> QED
  BY <1>1, <1>6

\* There is one up to each place, one place after the other.
LEMMA TakesExist ==
    ASSUME NEW v, NEW S, NEW m \in Nat
    PROVE  \E c : Takes(c, v, S, m)
<1> DEFINE K == {n \in Nat : ~\E c : Takes(c, v, S, n)}
<1> SUFFICES ASSUME K # {} PROVE FALSE
  OBVIOUS
<1>1. PICK n \in K : \A y \in K : n <= y
  BY LeastOf
<1>2. CASE n = 0
  <2> DEFINE c == [k \in {0} |-> <<>>]
  <2>1. c[0] = <<>>
    OBVIOUS
  <2> HIDE DEF c
  <2>2. Takes(c, v, S, 0)
    BY <2>1 DEF Takes
  <2> QED
    BY <1>2, <2>2
<1>3. CASE n # 0
  <2>1. n - 1 \in Nat /\ n - 1 \notin K /\ n \in Nat
    BY <1>1, <1>3
  <2>2. PICK c : Takes(c, v, S, n - 1)
    BY <2>1
  <2> DEFINE last == IF n \in S THEN Append(c[n - 1], v[n]) ELSE c[n - 1]
             d == [k \in 0..n |-> IF k = n THEN last ELSE c[k]]
  <2>3. d[n] = last /\ \A k \in 0..(n - 1) : d[k] = c[k]
    BY <2>1
  <2> HIDE DEF d
  <2>4. d[0] = <<>>
    BY <2>1, <2>2, <2>3 DEF Takes
  <2>5. ASSUME NEW k \in Nat, k < n
        PROVE  d[k + 1] = IF k + 1 \in S THEN Append(d[k], v[k + 1]) ELSE d[k]
    <3>1. k \in 0..(n - 1) /\ d[k] = c[k]
      BY <2>1, <2>3, <2>5
    <3>2. CASE k + 1 = n
      <4>1. k = n - 1
        BY <2>1, <3>2
      <4> QED
        BY <2>3, <3>1, <3>2, <4>1
    <3>3. CASE k + 1 # n
      <4>1. k < n - 1 /\ k + 1 \in 0..(n - 1)
        BY <2>1, <2>5, <3>3
      <4>2. c[k + 1] = IF k + 1 \in S THEN Append(c[k], v[k + 1]) ELSE c[k]
        BY <2>2, <4>1 DEF Takes
      <4> QED
        BY <2>3, <3>1, <4>1, <4>2
    <3> QED
      BY <3>2, <3>3
  <2>6. Takes(d, v, S, n)
    BY <2>4, <2>5 DEF Takes
  <2> QED
    BY <2>6
<1> QED
  BY <1>2, <1>3

\* c is that function, at every place.
TakesAll(c, v, S) ==
    /\ c[0] = <<>>
    /\ \A n \in Nat :
         c[n + 1] = IF n + 1 \in S THEN Append(c[n], v[n + 1]) ELSE c[n]

\* AtPlaces, unfolded by one place.
LEMMA AtPlacesUnfolds ==
    ASSUME NEW v, NEW S
    PROVE  TakesAll(AtPlaces(v, S), v, S)
<1> DEFINE One(n) == CHOOSE c : Takes(c, v, S, n)
           f == [n \in Nat |-> One(n)[n]]
           F == CHOOSE g : g = [n \in Nat |->
                    IF n = 0 THEN <<>>
                    ELSE IF n \in S THEN Append(g[n - 1], v[n]) ELSE g[n - 1]]
<1>1. ASSUME NEW n \in Nat PROVE Takes(One(n), v, S, n)
  BY TakesExist
<1> HIDE DEF One
<1>2. f[0] = <<>>
  BY <1>1 DEF Takes
<1>3. ASSUME NEW n \in Nat
      PROVE  f[n + 1] = IF n + 1 \in S THEN Append(f[n], v[n + 1]) ELSE f[n]
  <2> DEFINE c == One(n)
             d == One(n + 1)
  <2>1. Takes(c, v, S, n) /\ Takes(d, v, S, n + 1)
    BY <1>1
  <2>2. f[n] = c[n] /\ f[n + 1] = d[n + 1]
    OBVIOUS
  <2> HIDE DEF c, d, f
  <2>3. Takes(d, v, S, n)
    <3>1. \A k \in Nat : k < n => k < n + 1
      OBVIOUS
    <3> QED
      BY <2>1, <3>1 DEF Takes
  <2>4. c[n] = d[n]
    BY <2>1, <2>3, TakesAgree
  <2>5. d[n + 1] = IF n + 1 \in S THEN Append(d[n], v[n + 1]) ELSE d[n]
    BY <2>1 DEF Takes
  <2> QED
    BY <2>2, <2>4, <2>5
<1>4. \E g : g = [n \in Nat |->
          IF n = 0 THEN <<>>
          ELSE IF n \in S THEN Append(g[n - 1], v[n]) ELSE g[n - 1]]
  <2>1. f = [n \in Nat |-> f[n]]
    OBVIOUS
  <2> HIDE DEF f
  <2>2. ASSUME NEW n \in Nat
        PROVE  f[n] = IF n = 0 THEN <<>>
                      ELSE IF n \in S THEN Append(f[n - 1], v[n]) ELSE f[n - 1]
    <3>1. CASE n = 0
      BY <1>2, <3>1
    <3>2. CASE n # 0
      <4>1. n - 1 \in Nat /\ (n - 1) + 1 = n
        BY <3>2
      <4> DEFINE k == n - 1
      <4>2. f[k + 1] = IF k + 1 \in S THEN Append(f[k], v[k + 1]) ELSE f[k]
        BY <1>3, <4>1
      <4> QED
        BY <3>2, <4>1, <4>2
    <3> QED
      BY <3>1, <3>2
  <2> QED
    BY <2>1, <2>2
<1>5. F = [n \in Nat |->
          IF n = 0 THEN <<>>
          ELSE IF n \in S THEN Append(F[n - 1], v[n]) ELSE F[n - 1]]
  BY <1>4
<1>6. AtPlaces(v, S) = F
  BY DEF AtPlaces
<1> HIDE DEF F
<1>7. ASSUME NEW n \in Nat
      PROVE  F[n + 1] = IF n + 1 \in S THEN Append(F[n], v[n + 1]) ELSE F[n]
  <2>1. n + 1 \in Nat /\ n + 1 # 0 /\ (n + 1) - 1 = n
    OBVIOUS
  <2> DEFINE k == n + 1
  <2>2. F[k] = IF k = 0 THEN <<>>
               ELSE IF k \in S THEN Append(F[k - 1], v[k]) ELSE F[k - 1]
    BY <1>5, <2>1
  <2> QED
    BY <2>1, <2>2
<1>8. F[0] = <<>>
  BY <1>5
<1> QED
  BY <1>6, <1>7, <1>8 DEF TakesAll

\* Between two places that have none of S between them nothing is taken.
LEMMA AtPlacesSkips ==
    ASSUME NEW v, NEW S, NEW a \in Nat, NEW b \in Nat, a <= b,
           \A n \in a + 1..b : n \notin S
    PROVE  AtPlaces(v, S)[b] = AtPlaces(v, S)[a]
<1> DEFINE F == AtPlaces(v, S)
           K == {n \in a..b : F[n] # F[a]}
<1>0. TakesAll(F, v, S)
  BY AtPlacesUnfolds
<1> SUFFICES ASSUME K # {} PROVE FALSE
  OBVIOUS
<1>1. PICK n \in K : \A y \in K : n <= y
  <2>1. K \in SUBSET Nat
    OBVIOUS
  <2> QED
    BY <2>1, LeastOf
<1>2. n # a
  BY <1>1
<1> DEFINE k == n - 1
<1>3. k \in Nat /\ k \in a..b /\ k \notin K /\ k + 1 = n /\ n \in a + 1..b
  BY <1>1, <1>2
<1>4. F[k] = F[a]
  BY <1>3
<1>5. F[k + 1] = IF k + 1 \in S THEN Append(F[k], v[k + 1]) ELSE F[k]
  <2> HIDE DEF F, k
  <2> QED
    BY <1>0, <1>3 DEF TakesAll
<1> QED
  BY <1>1, <1>3, <1>4, <1>5

\* What is taken is a sequence of what v has at the places.
LEMMA AtPlacesType ==
    ASSUME NEW v, NEW S, NEW T, \A n \in S : v[n] \in T, NEW m \in Nat
    PROVE  AtPlaces(v, S)[m] \in Seq(T)
<1> DEFINE F == AtPlaces(v, S)
           K == {n \in Nat : F[n] \notin Seq(T)}
<1>0. TakesAll(F, v, S)
  BY AtPlacesUnfolds
<1> SUFFICES ASSUME K # {} PROVE FALSE
  OBVIOUS
<1>1. PICK n \in K : \A y \in K : n <= y
  BY LeastOf
<1>2. n # 0
  <2>1. F[0] = <<>> /\ <<>> \in Seq(T)
    BY <1>0 DEF TakesAll
  <2> QED
    BY <1>1, <2>1
<1> DEFINE k == n - 1
<1>3. k \in Nat /\ k \notin K /\ k + 1 = n
  BY <1>1, <1>2
<1>4. F[k] \in Seq(T)
  BY <1>3
<1>5. F[k + 1] = IF k + 1 \in S THEN Append(F[k], v[k + 1]) ELSE F[k]
  <2> HIDE DEF F, k
  <2> QED
    BY <1>0, <1>3 DEF TakesAll
<1>6. F[n] \in Seq(T)
  <2>1. F[n] = IF n \in S THEN Append(F[k], v[n]) ELSE F[k]
    BY <1>3, <1>5
  <2> HIDE DEF F, k
  <2> QED
    BY <1>4, <2>1
<1> QED
  BY <1>1, <1>6

-----------------------------------------------------------------------------
(* tokenise *)

\* Where tokenise may stand in l: behind the separators at the beginning or behind
\* the separator of a field, with no empty field before it.
Reached(l, s) ==
    /\ Begins(l) # {} /\ Min(Begins(l)) <= s + 1
    /\ s = 0 \/ l[s] = Comma
    /\ \A m \in Min(Begins(l))..s - 1 : ~(l[m] = Comma /\ l[m + 1] = Comma)

\* The first field of a line, if it has one.
LEMMA FirstField ==
    ASSUME NEW l \in Seq(Nat), Begins(l) # {}
    PROVE  /\ Min(Begins(l)) \in 1..Len(l) /\ l[Min(Begins(l))] # Comma
           /\ \A n \in Begins(l) : Min(Begins(l)) <= n
<1>1. Begins(l) \in SUBSET Nat
  BY DEF Begins
<1>2. Min(Begins(l)) \in Begins(l) /\ \A n \in Begins(l) : Min(Begins(l)) <= n
  BY <1>1, MinIsLeast
<1> QED
  BY <1>2 DEF Begins

\* FieldsTo, unfolded by one place.
LEMMA FieldsUnfold ==
    ASSUME NEW l \in Seq(Nat)
    PROVE  /\ FieldsTo(l)[0] = <<>>
           /\ \A n \in 0..Len(l) - 1 :
                FieldsTo(l)[n + 1] = IF n + 1 \in Kept(l)
                                     THEN Append(FieldsTo(l)[n], FieldAt(l, n + 1))
                                     ELSE FieldsTo(l)[n]
<1> DEFINE v == [n \in DOMAIN l |-> FieldAt(l, n)]
           F == FieldsTo(l)
<1>1. TakesAll(F, v, Kept(l))
  BY AtPlacesUnfolds DEF FieldsTo
<1>2. \A n \in 1..Len(l) : v[n] = FieldAt(l, n)
  OBVIOUS
<1> HIDE DEF v, F
<1>3. ASSUME NEW n \in 0..Len(l) - 1
      PROVE  F[n + 1] = IF n + 1 \in Kept(l) THEN Append(F[n], FieldAt(l, n + 1)) ELSE F[n]
  <2>1. n \in Nat /\ n + 1 \in 1..Len(l)
    OBVIOUS
  <2>2. F[n + 1] = IF n + 1 \in Kept(l) THEN Append(F[n], v[n + 1]) ELSE F[n]
    BY <1>1, <2>1 DEF TakesAll
  <2> QED
    BY <1>2, <2>1, <2>2
<1>4. F[0] = <<>>
  BY <1>1 DEF TakesAll
<1> QED
  BY <1>3, <1>4 DEF F

\* No field is added between two places where none begins.
LEMMA FieldsSkip ==
    ASSUME NEW l \in Seq(Nat), NEW a \in Nat, NEW b \in Nat, a <= b,
           \A n \in a + 1..b : n \notin Kept(l)
    PROVE  FieldsTo(l)[b] = FieldsTo(l)[a]
BY AtPlacesSkips DEF FieldsTo

\* A line of separators has no field.
LEMMA NoFields ==
    ASSUME NEW l \in Seq(Nat), find_first_not_of(l, Comma) = -1
    PROVE  Begins(l) = {} /\ Fields(l) = <<>>
<1> DEFINE S == {n \in 0..Len(l) - 1 : l[n + 1] # Comma}
<1>1. S = {}
  <2> SUFFICES ASSUME S # {} PROVE FALSE
    OBVIOUS
  <2>1. Min(S) \in S
    <3>1. S \in SUBSET Nat
      OBVIOUS
    <3> QED
      BY <3>1, MinIsLeast
  <2> QED
    BY <2>1 DEF find_first_not_of, FirstOr
<1>2. ASSUME NEW n \in 1..Len(l) PROVE l[n] = Comma
  <2>1. n - 1 \in 0..Len(l) - 1 /\ (n - 1) + 1 = n
    OBVIOUS
  <2> QED
    BY <1>1, <2>1
<1>3. Begins(l) = {}
  BY <1>2 DEF Begins
<1>4. Len(l) \in Nat /\ 0 <= Len(l) /\ 0 \in Nat
  OBVIOUS
<1>5. FieldsTo(l)[Len(l)] = FieldsTo(l)[0]
  BY <1>3, <1>4, FieldsSkip DEF Kept
<1> QED
  BY <1>3, <1>5, FieldsUnfold DEF Fields

\* Behind the separators at the beginning of the line.
LEMMA ReachesStart ==
    ASSUME NEW l \in Seq(Nat), NEW s, s = find_first_not_of(l, Comma), s # -1
    PROVE  /\ s \in 0..Len(l) - 1
           /\ Reached(l, s) /\ FieldsTo(l)[s] = <<>>
<1> DEFINE S == {n \in 0..Len(l) - 1 : l[n + 1] # Comma}
<1>1. S # {} /\ s = Min(S)
  BY DEF find_first_not_of, FirstOr
<1>2. s \in S /\ \A n \in S : s <= n
  <2>1. S \in SUBSET Nat
    OBVIOUS
  <2> QED
    BY <1>1, <2>1, MinIsLeast
<1>3. s \in 0..Len(l) - 1 /\ l[s + 1] # Comma /\ s \in Nat
  BY <1>2
<1>4. ASSUME NEW n \in 1..s PROVE l[n] = Comma
  <2>1. n - 1 \in 0..Len(l) - 1 /\ (n - 1) + 1 = n /\ n - 1 < s
    BY <1>3
  <2>2. n - 1 \notin S
    BY <1>2, <1>3, <2>1
  <2> QED
    BY <2>1, <2>2
<1> HIDE DEF S
<1>5. s = 0 \/ l[s] = Comma
  BY <1>3, <1>4
<1>6. s + 1 \in Begins(l)
  <2>1. s + 1 \in DOMAIN l
    BY <1>3
  <2>2. s + 1 > 1 => l[(s + 1) - 1] = Comma
    BY <1>3, <1>5
  <2> QED
    BY <1>3, <2>1, <2>2 DEF Begins
<1>7. ASSUME NEW n \in Begins(l) PROVE s + 1 <= n
  <2>1. n \in 1..Len(l) /\ l[n] # Comma
    BY DEF Begins
  <2> QED
    BY <1>3, <1>4, <2>1
<1>8. Min(Begins(l)) = s + 1
  <2>1. Min(Begins(l)) \in Begins(l)
    <3>1. Begins(l) \in SUBSET Nat
      BY DEF Begins
    <3> QED
      BY <1>6, <3>1, MinIsLeast
  <2>2. s + 1 <= Min(Begins(l))
    BY <1>7, <2>1
  <2>3. Min(Begins(l)) <= s + 1 /\ Min(Begins(l)) \in 1..Len(l)
    BY <1>6, FirstField
  <2> QED
    BY <1>3, <2>2, <2>3
<1>9. Reached(l, s)
  BY <1>3, <1>5, <1>6, <1>8 DEF Reached
<1>10. \A n \in 0 + 1..s : n \notin Kept(l)
  BY <1>3, <1>7 DEF Kept
<1>11. FieldsTo(l)[s] = FieldsTo(l)[0]
  <2>1. 0 \in Nat /\ 0 <= s
    BY <1>3
  <2> QED
    BY <1>3, <1>10, <2>1, FieldsSkip
<1> QED
  BY <1>3, <1>9, <1>11, FieldsUnfold

\* The next separator behind position s, if there is one.
LEMMA NextSeparator ==
    ASSUME NEW l \in Seq(Nat), NEW s \in 0..Len(l), NEW e, e = find_first_of(l, Comma, s)
    PROVE  \/ e = -1 /\ \A n \in s + 1..Len(l) : l[n] # Comma
           \/ /\ e \in s..Len(l) - 1 /\ l[e + 1] = Comma
              /\ \A n \in s + 1..e : l[n] # Comma
<1> DEFINE S == {n \in s..Len(l) - 1 : l[n + 1] = Comma}
<1>1. e = IF S = {} THEN -1 ELSE Min(S)
  <2>1. S = PositionsFrom(l, s, {Comma})
    BY DEF PositionsFrom
  <2> QED
    BY <2>1 DEF find_first_of, FirstOr
<1>2. CASE S = {}
  <2>1. ASSUME NEW n \in s + 1..Len(l) PROVE l[n] # Comma
    <3>1. n - 1 \in s..Len(l) - 1 /\ (n - 1) + 1 = n
      OBVIOUS
    <3> QED
      BY <1>2, <3>1
  <2> QED
    BY <1>1, <1>2, <2>1
<1>3. CASE S # {}
  <2>1. e \in S /\ \A n \in S : e <= n
    <3>1. S \in SUBSET Nat
      OBVIOUS
    <3> QED
      BY <1>1, <1>3, <3>1, MinIsLeast
  <2>2. e \in s..Len(l) - 1 /\ l[e + 1] = Comma /\ e \in Int
    BY <2>1
  <2>3. ASSUME NEW n \in s + 1..e PROVE l[n] # Comma
    <3>1. n - 1 \in s..Len(l) - 1 /\ (n - 1) + 1 = n /\ n - 1 < e
      BY <2>2
    <3>2. n - 1 \notin S
      BY <2>1, <2>2, <3>1
    <3> QED
      BY <3>1, <3>2
  <2> QED
    BY <2>2, <2>3
<1> QED
  BY <1>2, <1>3

\* At the end of the line, and at an empty field, all fields were taken.
LEMMA BreakTakesAll ==
    ASSUME NEW l \in Seq(Nat), NEW s \in 0..Len(l), Reached(l, s),
           s = Len(l) \/ s = find_first_of(l, Comma, s)
    PROVE  Fields(l) = FieldsTo(l)[s]
<1>1. Len(l) \in Nat /\ s \in Nat
  OBVIOUS
<1>2. CASE s = Len(l)
  BY <1>2 DEF Fields
<1>3. CASE s # Len(l)
  <2> DEFINE first == Min(Begins(l))
  <2>0. s # -1 /\ s = find_first_of(l, Comma, s)
    BY <1>1, <1>3
  <2>1. l[s + 1] = Comma /\ s + 1 \in 1..Len(l)
    <3>1. l[s + 1] = Comma
      BY <2>0, NextSeparator
    <3>2. s + 1 \in 1..Len(l)
      BY <1>1, <1>3
    <3> QED
      BY <3>1, <3>2
  <2>2. first \in 1..Len(l) /\ l[first] # Comma /\ first <= s + 1
    BY FirstField DEF Reached
  <2>3. first # s + 1
    BY <2>1, <2>2
  <2> HIDE DEF first
  <2>4. first <= s /\ s # 0
    BY <1>1, <2>2, <2>3
  <2>5. l[s] = Comma
    BY <2>4 DEF Reached
  <2>6. ASSUME NEW n \in s + 1..Len(l) PROVE n \notin Kept(l)
    <3>1. CASE n = s + 1
      BY <2>1, <3>1 DEF Kept, Begins
    <3>2. CASE n # s + 1
      <4>1. s \in first..n - 2
        BY <1>1, <2>2, <2>4, <3>2
      <4> QED
        BY <2>1, <2>5, <4>1 DEF Kept, first
    <3> QED
      BY <3>1, <3>2
  <2>7. FieldsTo(l)[Len(l)] = FieldsTo(l)[s]
    BY <1>1, <2>6, FieldsSkip
  <2> QED
    BY <2>7 DEF Fields
<1> QED
  BY <1>2, <1>3

\* A field that ends behind position b is the one that begins behind position s.
LEMMA FieldIs ==
    ASSUME NEW l \in Seq(Nat), NEW s \in 0..Len(l) - 1, NEW b \in s + 1..Len(l),
           \A n \in s + 1..b : l[n] # Comma, b = Len(l) \/ l[b + 1] = Comma
    PROVE  FieldAt(l, s + 1) = SubSeq(l, s + 1, b)
<1> DEFINE M == {m \in s + 1..Len(l) : \A k \in s + 1..m : l[k] # Comma}
<1>1. M = s + 1..b
  <2>1. ASSUME NEW m \in s + 1..b PROVE m \in M
    OBVIOUS
  <2>2. ASSUME NEW m \in M, m > b PROVE FALSE
    <3>1. b + 1 \in s + 1..m /\ b # Len(l)
      BY <2>2
    <3> QED
      BY <3>1
  <2> QED
    BY <2>1, <2>2
<1>2. Max(s + 1..b) = b
  BY MaxOfInterval
<1> QED
  BY <1>1, <1>2 DEF FieldAt

\* A step of the loop takes the field that begins where tokenise stands, and only
\* that one.
LEMMA PushTakesField ==
    ASSUME NEW l \in Seq(Nat), NEW s \in 0..Len(l), Reached(l, s), s # Len(l),
           NEW b \in s + 1..Len(l), \A n \in s + 1..b : l[n] # Comma,
           NEW c \in b..b + 1, c <= Len(l), c = b + 1 => l[c] = Comma,
           b = Len(l) \/ l[b + 1] = Comma
    PROVE  FieldsTo(l)[c] = Append(FieldsTo(l)[s], SubSeq(l, s + 1, b))
<1>1. s \in 0..Len(l) - 1 /\ s + 1 \in 1..Len(l) /\ l[s + 1] # Comma /\ c \in Nat
  OBVIOUS
<1>2. s + 1 \in Begins(l)
  <2>1. s + 1 > 1 => l[(s + 1) - 1] = Comma
    BY <1>1 DEF Reached
  <2> QED
    BY <1>1, <2>1 DEF Begins
<1>3. s + 1 \in Kept(l)
  <2>1. (s + 1) - 2 = s - 1
    OBVIOUS
  <2> QED
    BY <1>2, <2>1 DEF Kept, Reached
<1>4. FieldsTo(l)[s + 1] = Append(FieldsTo(l)[s], FieldAt(l, s + 1))
  BY <1>1, <1>3, FieldsUnfold
<1>5. ASSUME NEW n \in (s + 1) + 1..c PROVE n \notin Kept(l)
  <2>1. CASE n = b + 1
    BY <1>1, <2>1 DEF Kept, Begins
  <2>2. CASE n # b + 1
    <3>1. n - 1 \in s + 1..b /\ n > 1
      BY <1>1, <2>2
    <3> QED
      BY <3>1 DEF Kept, Begins
  <2> QED
    BY <2>1, <2>2
<1>6. FieldsTo(l)[c] = FieldsTo(l)[s + 1]
  BY <1>1, <1>5, FieldsSkip
<1>7. FieldAt(l, s + 1) = SubSeq(l, s + 1, b)
  BY <1>1, FieldIs
<1> QED
  BY <1>4, <1>6, <1>7

\* Behind the separator of the field that was taken no empty field was passed.
LEMMA PushReaches ==
    ASSUME NEW l \in Seq(Nat), NEW s \in 0..Len(l), Reached(l, s),
           NEW b \in s + 1..Len(l) - 1, \A n \in s + 1..b : l[n] # Comma,
           l[b + 1] = Comma
    PROVE  Reached(l, b + 1)
<1> DEFINE first == Min(Begins(l))
<1>1. first \in 1..Len(l) /\ first <= s + 1
  BY FirstField DEF Reached
<1> HIDE DEF first
<1>2. ASSUME NEW m \in first..(b + 1) - 1 PROVE ~(l[m] = Comma /\ l[m + 1] = Comma)
  <2>1. CASE m <= s - 1
    <3>1. m \in first..s - 1
      BY <1>1, <2>1
    <3> QED
      BY <3>1 DEF Reached, first
  <2>2. CASE m = s
    <3>1. m + 1 \in s + 1..b
      BY <2>2
    <3> QED
      BY <3>1
  <2>3. CASE m > s
    <3>1. m \in s + 1..b
      BY <1>1, <2>3
    <3> QED
      BY <3>1
  <2> QED
    BY <1>1, <2>1, <2>2, <2>3
<1>3. first <= (b + 1) + 1
  BY <1>1
<1> QED
  BY <1>2, <1>3 DEF Reached, first

-----------------------------------------------------------------------------
(* clean_csv.py, stringToOBE and the rows *)

\* A cleaned line is a line.
LEMMA CleanedType ==
    ASSUME NEW l \in Seq(Nat)
    PROVE  Cleaned(l) \in Seq(Nat)
<1> DEFINE ps == {n \in DOMAIN l : /\ ~(n > 1 /\ SpareZero(l, n - 1))
                                   /\ ~(n > 2 /\ SpareZero(l, n - 2))}
<1>1. Cleaned(l) = AtPlaces(l, ps)[Len(l)]
  BY DEF Cleaned, CharsAt
<1>2. \A n \in ps : l[n] \in Nat
  OBVIOUS
<1>3. Len(l) \in Nat
  OBVIOUS
<1> HIDE DEF ps
<1> QED
  BY <1>1, <1>2, <1>3, AtPlacesType

\* LoadedFrom, unfolded by one line.
LEMMA LoadedUnfold ==
    ASSUME NEW ls \in Seq(Seq(Nat))
    PROVE  /\ LoadedFrom(ls)[0] = <<>>
           /\ \A n \in 0..Len(ls) - 1 :
                LoadedFrom(ls)[n + 1] =
                  IF Loads(Fields(ls[n + 1]))
                  THEN Append(LoadedFrom(ls)[n], OBE(Fields(ls[n + 1])))
                  ELSE LoadedFrom(ls)[n]
<1> DEFINE v == [n \in DOMAIN ls |-> OBE(Fields(ls[n]))]
           S == {n \in DOMAIN ls : Loads(Fields(ls[n]))}
           F == LoadedFrom(ls)
<1>1. TakesAll(F, v, S)
  BY AtPlacesUnfolds DEF LoadedFrom
<1>2. \A n \in 1..Len(ls) : /\ v[n] = OBE(Fields(ls[n]))
                            /\ n \in S <=> Loads(Fields(ls[n]))
  OBVIOUS
<1> HIDE DEF v, S, F
<1>3. ASSUME NEW n \in 0..Len(ls) - 1
      PROVE  F[n + 1] = IF Loads(Fields(ls[n + 1]))
                        THEN Append(F[n], OBE(Fields(ls[n + 1]))) ELSE F[n]
  <2>1. n \in Nat /\ n + 1 \in 1..Len(ls)
    OBVIOUS
  <2>2. F[n + 1] = IF n + 1 \in S THEN Append(F[n], v[n + 1]) ELSE F[n]
    BY <1>1, <2>1 DEF TakesAll
  <2> QED
    BY <1>2, <2>1, <2>2
<1>4. F[0] = <<>>
  BY <1>1 DEF TakesAll
<1> QED
  BY <1>3, <1>4 DEF F

-----------------------------------------------------------------------------
(* The invariant of the reader *)

Entry == {OBE(ts) : ts \in Seq(Seq(Nat))}

\* The fields before the position of tokenise are its tokens.
TokenInv ==
    pc = "tokenise" =>
        \/ start = -1 /\ tokens = <<>> /\ Fields(line) = <<>>
        \/ /\ start \in 0..Len(line) /\ Reached(line, start)
           /\ tokens = FieldsTo(line)[start]

\* The lines that were loaded or counted as bad: all that getline returned but the
\* one in hand.
Handled == IF pc \in {"tokenise", "parse"} THEN lineNum - 1 ELSE lineNum

RowsInv ==
    /\ pc = "raw" => lineNum = 0
    /\ Len(all) = lineNum + Len(file)
    /\ \A n \in DOMAIN file : file[n] = all[lineNum + n]
    /\ pc \in {"tokenise", "parse"} => lineNum > 0 /\ line = all[lineNum]
    /\ entries = LoadedFrom(all)[Handled]
    /\ badLines + Len(entries) = Handled

ReaderInv ==
    /\ TypeOK /\ all \in Seq(Seq(Nat)) /\ entries \in Seq(Entry)
    /\ TokenInv /\ TokeniseCorrect
    /\ RowsInv

\* Nothing was read at the start.
LEMMA ReaderInvInit == Init => ReaderInv
<1> SUFFICES ASSUME Init PROVE ReaderInv
  OBVIOUS
<1>1. file \in Seq(Seq(Nat)) /\ all = file
  BY FilesAreText DEF Init
<1>2. TypeOK /\ entries \in Seq(Entry) /\ Len(entries) = 0
  BY <1>1 DEF Init, TypeOK
<1>3. RowsInv
  <2>1. Handled = 0
    BY DEF Init, Handled
  <2> QED
    BY <1>1, <1>2, <2>1, LoadedUnfold DEF Init, RowsInv
<1> QED
  BY <1>1, <1>2, <1>3 DEF Init, ReaderInv, TokenInv, TokeniseCorrect

\* The script is run before anything is read.
LEMMA CleanInv == ASSUME ReaderInv, CleanCsv PROVE ReaderInv'
<1>1. /\ file \in Seq(Seq(Nat)) /\ lineNum = 0 /\ entries = <<>> /\ badLines = 0
      /\ Len(entries) = 0
  <2>1. lineNum = 0 /\ Handled = 0
    BY DEF ReaderInv, RowsInv, CleanCsv, Handled
  <2>2. entries = <<>>
    BY <2>1, LoadedUnfold DEF ReaderInv, RowsInv
  <2> QED
    BY <2>1, <2>2 DEF ReaderInv, RowsInv, TypeOK
<1>2. file' \in Seq(Seq(Nat)) /\ all' = file'
  <2>1. \A n \in 1..Len(file) : Cleaned(file[n]) \in Seq(Nat)
    BY <1>1, CleanedType
  <2>2. file' = [n \in 1..Len(file) |-> Cleaned(file[n])] /\ Len(file) \in Nat
    BY <1>1 DEF CleanCsv
  <2> QED
    BY <2>1, <2>2 DEF CleanCsv
<1>3. TypeOK' /\ (entries \in Seq(Entry))'
  BY <1>2 DEF ReaderInv, TypeOK, CleanCsv, countVars, tokenVars
<1>4. RowsInv'
  <2>1. Handled' = 0 /\ lineNum' = 0 /\ entries' = <<>> /\ badLines' = 0
    BY <1>1 DEF Handled, CleanCsv, countVars
  <2>2. LoadedFrom(all')[0] = <<>>
    BY <1>2, LoadedUnfold
  <2> QED
    BY <1>1, <1>2, <2>1, <2>2 DEF RowsInv, CleanCsv
<1> QED
  BY <1>2, <1>3, <1>4 DEF ReaderInv, TokenInv, TokeniseCorrect, CleanCsv

\* The program may read the file as it is, and may not find it; no line is left in
\* the end.
LEMMA PassInv ==
    ASSUME ReaderInv, UseAsIs \/ Open \/ EndOfFile
    PROVE  ReaderInv'
<1>1. /\ UNCHANGED <<file, countVars, line, tokenVars, all>>
      /\ pc \in {"raw", "open", "getline"} /\ pc' \in {"open", "getline", "done"}
  BY DEF UseAsIs, Open, EndOfFile
<1>2. Handled = lineNum /\ Handled' = lineNum
  BY <1>1 DEF Handled, countVars
<1>3. RowsInv'
  BY <1>1, <1>2 DEF ReaderInv, RowsInv, countVars
<1>4. TypeOK'
  BY <1>1 DEF ReaderInv, TypeOK, countVars, tokenVars
<1> QED
  BY <1>1, <1>3, <1>4 DEF ReaderInv, TokenInv, TokeniseCorrect, countVars, tokenVars

\* getline takes the next line.
LEMMA GetLineInv == ASSUME ReaderInv, GetLine PROVE ReaderInv'
<1>1. /\ file \in Seq(Seq(Nat)) /\ file # <<>> /\ all \in Seq(Seq(Nat)) /\ lineNum \in Nat
      /\ Len(all) = lineNum + Len(file)
      /\ \A n \in 1..Len(file) : file[n] = all[lineNum + n]
  <2>1. file \in Seq(Seq(Nat)) /\ lineNum \in Nat
    BY DEF ReaderInv, TypeOK
  <2>2. DOMAIN file = 1..Len(file)
    BY <2>1
  <2>3. file # <<>>
    BY DEF GetLine
  <2> QED
    BY <2>1, <2>2, <2>3 DEF ReaderInv, RowsInv
<1>2. /\ line' \in Seq(Nat) /\ line' = file[1]
      /\ file' \in Seq(Seq(Nat)) /\ Len(file) = Len(file') + 1
      /\ \A n \in 1..Len(file') : file'[n] = file[n + 1]
  BY <1>1 DEF GetLine
<1>3. \/ start' = -1
      \/ start' \in 0..Len(line') - 1 /\ Reached(line', start') /\ FieldsTo(line')[start'] = <<>>
  BY <1>2, ReachesStart DEF GetLine
<1>4. start' = -1 => Fields(line') = <<>>
  BY <1>2, NoFields DEF GetLine
<1>5. Len(line') \in Nat
  BY <1>2
<1>6. TypeOK'
  <2>1. start' \in -1..Len(line') /\ end' \in -1..Len(line')
    BY <1>3, <1>5 DEF GetLine
  <2>2. tokens' = <<>> /\ <<>> \in Seq(Seq(Nat))
    BY DEF GetLine
  <2> QED
    BY <1>1, <1>2, <2>1, <2>2 DEF ReaderInv, TypeOK, GetLine
<1>7. TokenInv' /\ TokeniseCorrect'
  BY <1>3, <1>4, <1>5 DEF TokenInv, TokeniseCorrect, GetLine
<1>8. RowsInv'
  <2>1. Handled' = lineNum /\ Handled = lineNum
    BY <1>1 DEF Handled, GetLine
  <2>2. lineNum' = lineNum + 1 /\ UNCHANGED <<all, entries, badLines>> /\ pc' = "tokenise"
    BY DEF GetLine
  <2>3. line' = all[lineNum']
    <3>1. 1 \in 1..Len(file)
      BY <1>1
    <3> QED
      BY <1>1, <1>2, <2>2, <3>1
  <2>4. ASSUME NEW n \in 1..Len(file') PROVE file'[n] = all[lineNum' + n]
    <3>1. n + 1 \in 1..Len(file) /\ lineNum + (n + 1) = lineNum' + n
      BY <1>1, <1>2, <2>2
    <3> QED
      BY <1>1, <1>2, <3>1
  <2>5. Len(all') = lineNum' + Len(file') /\ DOMAIN file' = 1..Len(file')
    BY <1>1, <1>2, <2>2
  <2>6. entries = LoadedFrom(all)[lineNum] /\ badLines + Len(entries) = lineNum
    BY <2>1 DEF ReaderInv, RowsInv
  <2>7. lineNum' > 0
    BY <1>1, <2>2
  <2> QED
    BY <2>1, <2>2, <2>3, <2>4, <2>5, <2>6, <2>7 DEF RowsInv
<1> QED
  BY <1>6, <1>7, <1>8 DEF ReaderInv, GetLine

\* A step of tokenise keeps the fields it has taken in its tokens.
LEMMA TokeniseInv == ASSUME ReaderInv, Tokenise PROVE ReaderInv'
<1>1. /\ line \in Seq(Nat) /\ tokens \in Seq(Seq(Nat)) /\ start \in -1..Len(line)
      /\ pc = "tokenise" /\ Len(line) \in Nat
      /\ UNCHANGED <<file, countVars, line, all>>
      /\ pc' \in {"tokenise", "parse"} /\ end' = NextEnd
  BY DEF ReaderInv, TypeOK, Tokenise, TokeniseBreak, TokenisePush
<1>2. CASE start = -1
  <2>1. end' = -1 /\ pc' = "parse" /\ UNCHANGED <<start, tokens>>
    BY <1>1, <1>2 DEF Tokenise, TokeniseBreak, TokenisePush, NextEnd, AtBreak
  <2> QED
    BY <1>1, <1>2, <2>1
    DEF ReaderInv, TypeOK, TokenInv, TokeniseCorrect, RowsInv, Handled, countVars
<1>3. CASE start # -1
  <2> DEFINE e == end'
  <2>1. /\ start \in 0..Len(line) /\ Reached(line, start)
        /\ tokens = FieldsTo(line)[start]
    BY <1>1, <1>3 DEF ReaderInv, TokenInv
  <2>2. e = find_first_of(line, Comma, start)
    BY <1>1, <1>3 DEF NextEnd
  <2>3. \/ e = -1 /\ \A n \in start + 1..Len(line) : line[n] # Comma
        \/ /\ e \in start..Len(line) - 1 /\ line[e + 1] = Comma
           /\ \A n \in start + 1..e : line[n] # Comma
    BY <1>1, <2>1, <2>2, NextSeparator
  <2>4. CASE TokeniseBreak
    <3>1. Fields(line) = tokens
      BY <1>1, <2>1, <2>2, <2>4, BreakTakesAll DEF TokeniseBreak, AtBreak
    <3>2. UNCHANGED <<start, tokens>> /\ pc' = "parse"
      BY <2>4 DEF TokeniseBreak
    <3>3. e \in -1..Len(line)
      BY <1>1, <2>3
    <3>4. TypeOK'
      BY <1>1, <3>2, <3>3 DEF ReaderInv, TypeOK, countVars
    <3>5. TokenInv' /\ TokeniseCorrect'
      BY <1>1, <3>1, <3>2 DEF TokenInv, TokeniseCorrect
    <3>6. RowsInv'
      BY <1>1, <3>2 DEF ReaderInv, RowsInv, Handled, countVars
    <3> QED
      BY <1>1, <3>4, <3>5, <3>6 DEF ReaderInv, countVars
  <2>5. CASE TokenisePush
    <3> DEFINE b == IF e >= 0 THEN e ELSE Len(line)
    <3>1. start # Len(line) /\ start # e
      BY <2>5 DEF TokenisePush, AtBreak
    <3> HIDE DEF e
    <3>2. b \in start + 1..Len(line) /\ \A n \in start + 1..b : line[n] # Comma
      BY <1>1, <2>1, <2>3, <3>1
    <3>3. b = Len(line) \/ line[b + 1] = Comma
      BY <2>3
    <3>4. tokens' = Append(tokens, SubSeq(line, start + 1, b)) /\ start' = e + 1
      <4>1. start + (b - start) = b
        BY <1>1, <3>2
      <4>2. TokenAt(e) = SubSeq(line, start + 1, b)
        BY <4>1 DEF TokenAt, substr
      <4> QED
        BY <2>5, <4>2 DEF TokenisePush, e
    <3>5. tokens' \in Seq(Seq(Nat))
      <4>1. SubSeq(line, start + 1, b) \in Seq(Nat)
        BY <1>1, <2>1, <3>2
      <4> QED
        BY <1>1, <3>4, <4>1
    <3>6. CASE e = -1
      <4>1. b = Len(line) /\ start' = 0 /\ pc' = "parse"
        BY <2>5, <3>4, <3>6 DEF TokenisePush, e
      <4>2. tokens' = FieldsTo(line)[b]
        <5>1. b \in b..b + 1 /\ b <= Len(line) /\ b # b + 1
          BY <1>1, <4>1
        <5> HIDE DEF b
        <5> QED
          BY <1>1, <2>1, <3>1, <3>2, <3>3, <3>4, <5>1, PushTakesField
      <4>3. TypeOK'
        BY <1>1, <3>5, <3>6, <4>1 DEF ReaderInv, TypeOK, e, countVars
      <4> QED
        BY <1>1, <4>1, <4>2, <4>3
        DEF ReaderInv, TokenInv, TokeniseCorrect, Fields, RowsInv, Handled, countVars
    <3>7. CASE e # -1
      <4>1. /\ e \in start + 1..Len(line) - 1 /\ line[e + 1] = Comma /\ b = e
            /\ e > 0 /\ e + 1 \in 0..Len(line)
        <5>1. e \in start..Len(line) - 1 /\ line[e + 1] = Comma
          BY <2>3, <3>7
        <5>2. /\ e \in start + 1..Len(line) - 1
              /\ e > 0 /\ e + 1 \in 0..Len(line)
          BY <1>1, <2>1, <3>1, <5>1
        <5>3. b = e
          BY <5>2
        <5> QED
          BY <5>1, <5>2, <5>3
      <4>2. pc' = "tokenise"
        BY <2>5, <4>1 DEF TokenisePush, e
      <4>3. tokens' = FieldsTo(line)[e + 1]
        <5>1. /\ e + 1 \in b..b + 1 /\ e + 1 <= Len(line)
              /\ e + 1 = b + 1 => line[e + 1] = Comma
          BY <1>1, <4>1
        <5> HIDE DEF b
        <5> QED
          BY <1>1, <2>1, <3>1, <3>2, <3>3, <3>4, <5>1, PushTakesField
      <4>4. Reached(line, e + 1)
        BY <1>1, <2>1, <3>2, <4>1, PushReaches
      <4>5. TypeOK'
        BY <1>1, <3>4, <3>5, <4>1, <4>2 DEF ReaderInv, TypeOK, e, countVars
      <4> QED
        BY <1>1, <3>4, <4>1, <4>2, <4>3, <4>4, <4>5
        DEF ReaderInv, TokenInv, TokeniseCorrect, RowsInv, Handled, countVars
    <3> QED
      BY <3>6, <3>7
  <2> QED
    BY <2>4, <2>5 DEF Tokenise
<1> QED
  BY <1>2, <1>3

\* The line in hand is loaded or counted as bad.
LEMMA ParseInv == ASSUME ReaderInv, Parse PROVE ReaderInv'
<1>1. /\ all \in Seq(Seq(Nat)) /\ lineNum \in Nat /\ lineNum > 0 /\ line = all[lineNum]
      /\ entries \in Seq(Entry) /\ tokens \in Seq(Seq(Nat)) /\ tokens = Fields(line)
      /\ badLines \in Nat /\ lineNum <= Len(all)
      /\ entries = LoadedFrom(all)[lineNum - 1] /\ badLines + Len(entries) = lineNum - 1
  BY DEF ReaderInv, TypeOK, RowsInv, TokeniseCorrect, Handled, Parse
<1> DEFINE k == lineNum - 1
<1>2. k \in 0..Len(all) - 1 /\ k + 1 = lineNum /\ k \in Nat
  BY <1>1
<1>3. LoadedFrom(all)[lineNum] = IF Loads(tokens) THEN Append(entries, OBE(tokens))
                                 ELSE entries
  <2>1. \A n \in 0..Len(all) - 1 :
          LoadedFrom(all)[n + 1] = IF Loads(Fields(all[n + 1]))
                                   THEN Append(LoadedFrom(all)[n], OBE(Fields(all[n + 1])))
                                   ELSE LoadedFrom(all)[n]
    BY <1>1, LoadedUnfold
  <2> HIDE DEF k
  <2>2. LoadedFrom(all)[k] = entries
    BY <1>1 DEF k
  <2> QED
    BY <1>1, <1>2, <2>1, <2>2
<1>4. OBE(tokens) \in Entry
  BY <1>1 DEF Entry
<1>5. /\ entries' \in Seq(Entry) /\ badLines' \in Nat
      /\ entries' = LoadedFrom(all)[lineNum] /\ badLines' + Len(entries') = lineNum
  <2>1. CASE Loads(tokens)
    <3>1. entries' = Append(entries, OBE(tokens)) /\ badLines' = badLines
      BY <2>1 DEF Parse
    <3>2. entries' \in Seq(Entry) /\ Len(entries') = Len(entries) + 1
      BY <1>1, <1>4, <3>1
    <3>3. Len(entries) \in Nat
      BY <1>1
    <3> QED
      BY <1>1, <1>3, <2>1, <3>1, <3>2, <3>3
  <2>2. CASE ~Loads(tokens)
    <3>1. entries' = entries /\ badLines' = badLines + 1
      BY <2>2 DEF Parse
    <3> DEFINE L == Len(entries)
    <3>2. /\ L \in Nat /\ badLines \in Nat /\ lineNum \in Nat
          /\ badLines + L = lineNum - 1
      BY <1>1
    <3> HIDE DEF L
    <3>3. badLines' \in Nat /\ badLines' + L = lineNum
      BY <3>1, <3>2
    <3> QED
      BY <1>1, <1>3, <2>2, <3>1, <3>3 DEF L
  <2> QED
    BY <2>1, <2>2
<1>6. UNCHANGED <<file, lineNum, line, tokenVars, all>> /\ pc' = "getline"
  BY DEF Parse
<1>7. TypeOK'
  BY <1>5, <1>6 DEF ReaderInv, TypeOK, tokenVars
<1>8. RowsInv'
  <2>1. Handled' = lineNum
    BY <1>6 DEF Handled
  <2> QED
    BY <1>5, <1>6, <2>1 DEF ReaderInv, RowsInv
<1> QED
  BY <1>5, <1>6, <1>7, <1>8 DEF ReaderInv, TokenInv, TokeniseCorrect

\* Every step keeps the invariant.
LEMMA ReaderInvStep == ReaderInv /\ [Next]_vars => ReaderInv'
<1> SUFFICES ASSUME ReaderInv, [Next]_vars PROVE ReaderInv'
  OBVIOUS
<1>1. CASE UNCHANGED vars
  BY <1>1 DEF ReaderInv, TypeOK, TokenInv, TokeniseCorrect, RowsInv, Handled, vars,
              countVars, tokenVars
<1>2. CASE CleanCsv
  BY <1>2, CleanInv
<1>3. CASE UseAsIs \/ Open \/ EndOfFile
  BY <1>3, PassInv
<1>4. CASE GetLine
  BY <1>4, GetLineInv
<1>5. CASE Tokenise
  BY <1>5, TokeniseInv
<1>6. CASE Parse
  BY <1>6, ParseInv
<1> QED
  BY <1>1, <1>2, <1>3, <1>4, <1>5, <1>6 DEF Next, Read

\* Where tokenise is in its line and which lines are accounted for, at every step,
\* with the types of the reader's variables.
THEOREM ReaderInvariant == Spec => []ReaderInv
BY ReaderInvInit, ReaderInvStep, PTL DEF Spec

\* The reader's variables keep their types; the positions stay in the line.
THEOREM ReaderTypeCorrect == Spec => []TypeOK
<1>1. ReaderInv => TypeOK
  BY DEF ReaderInv
<1> QED
  BY <1>1, ReaderInvariant, PTL

\* Whatever the line, tokenise returns its fields up to the first empty one,
\* although it mixes positions, -1 for npos and lengths (CSVReader.cpp:45-63).
THEOREM TokensAreFields == Spec => []TokeniseCorrect
<1>1. ReaderInv => TokeniseCorrect
  BY DEF ReaderInv
<1> QED
  BY <1>1, ReaderInvariant, PTL

\* Whatever the file, each of its lines is loaded in its place or counted as bad.
THEOREM RowsAreLoadedInOrder == Spec => []GoodRowsInOrder
<1>1. ReaderInv => GoodRowsInOrder
  <2> SUFFICES ASSUME ReaderInv, pc = "done", lineNum = Len(all)
               PROVE  /\ entries = LoadedFrom(all)[Len(all)]
                      /\ badLines + Len(entries) = lineNum
    BY DEF GoodRowsInOrder
  <2> QED
    BY DEF ReaderInv, RowsInv, Handled
<1> QED
  BY <1>1, ReaderInvariant, PTL

-----------------------------------------------------------------------------
(* Where clean_csv.py leaves the fields of a line *)

Dropped(l, n) == (n > 1 /\ SpareZero(l, n - 1)) \/ (n > 2 /\ SpareZero(l, n - 2))
LeftOf(l) == {n \in DOMAIN l : ~Dropped(l, n)}

\* A cleaned line has what is left.
LEMMA CleanedIs ==
    ASSUME NEW l PROVE Cleaned(l) = AtPlaces(l, LeftOf(l))[Len(l)]
<1>1. LeftOf(l) = {n \in DOMAIN l : /\ ~(n > 1 /\ SpareZero(l, n - 1))
                                    /\ ~(n > 2 /\ SpareZero(l, n - 2))}
  BY DEF LeftOf, Dropped
<1> QED
  BY <1>1 DEF Cleaned, CharsAt

Extends(q, p) == Len(p) <= Len(q) /\ \A k \in 1..Len(p) : q[k] = p[k]

\* What was taken up to a place stays when more is taken.
LEMMA TakenStays ==
    ASSUME NEW v, NEW S, \A n \in S : v[n] \in Nat, NEW a \in Nat, NEW b \in Nat, a <= b
    PROVE  Extends(AtPlaces(v, S)[b], AtPlaces(v, S)[a])
<1> DEFINE F == AtPlaces(v, S)
           Stays(n) == Extends(F[n], F[a])
           K == {n \in a..b : ~Stays(n)}
<1>0. TakesAll(F, v, S) /\ \A n \in Nat : F[n] \in Seq(Nat)
  BY AtPlacesUnfolds, AtPlacesType
<1> HIDE DEF F
<1>1. Len(F[a]) \in Nat
  BY <1>0
<1>2. ASSUME K # {} PROVE FALSE
  <2>1. PICK n \in K : \A y \in K : n <= y
    <3>1. K \in SUBSET Nat
      OBVIOUS
    <3> QED
      BY <1>2, <3>1, LeastOf
  <2>2. n # a
    BY <1>1, <2>1 DEF Extends
  <2> DEFINE m == n - 1
  <2>3. m \in Nat /\ m \in a..b /\ m \notin K /\ m + 1 = n
    BY <2>1, <2>2
  <2>4. Stays(m)
    BY <2>3
  <2>5. F[m + 1] = IF m + 1 \in S THEN Append(F[m], v[m + 1]) ELSE F[m]
    <3> HIDE DEF m
    <3> QED
      BY <1>0, <2>3 DEF TakesAll
  <2>6. Stays(m + 1)
    <3> HIDE DEF m
    <3>1. F[m] \in Seq(Nat)
      BY <1>0, <2>3
    <3>2. CASE m + 1 \notin S
      BY <2>4, <2>5, <3>2 DEF Extends
    <3>3. CASE m + 1 \in S
      <4>1. F[m + 1] = Append(F[m], v[m + 1])
        BY <2>5, <3>3
      <4>2. v[m + 1] \in Nat
        BY <3>3
      <4>3. Len(F[m + 1]) = Len(F[m]) + 1 /\ \A k \in 1..Len(F[m]) : F[m + 1][k] = F[m][k]
        BY <3>1, <4>1, <4>2
      <4> QED
        BY <1>1, <2>4, <3>1, <4>3 DEF Extends
    <3> QED
      BY <3>2, <3>3
  <2> QED
    BY <2>1, <2>3, <2>6
<1>3. Stays(b)
  <2>1. b \in a..b
    OBVIOUS
  <2> QED
    BY <1>2, <2>1
<1> QED
  BY <1>3 DEF F

\* A place of S has its element where the ones before it end.
LEMMA TakenAt ==
    ASSUME NEW v, NEW S, \A n \in S : v[n] \in Nat, NEW m \in Nat
    PROVE  /\ m + 1 \in S => /\ Len(AtPlaces(v, S)[m + 1]) = Len(AtPlaces(v, S)[m]) + 1
                             /\ AtPlaces(v, S)[m + 1][Len(AtPlaces(v, S)[m]) + 1] = v[m + 1]
           /\ m + 1 \notin S => AtPlaces(v, S)[m + 1] = AtPlaces(v, S)[m]
           /\ Len(AtPlaces(v, S)[m]) \in Nat
<1> DEFINE F == AtPlaces(v, S)
<1>0. TakesAll(F, v, S) /\ F[m] \in Seq(Nat)
  BY AtPlacesUnfolds, AtPlacesType
<1> HIDE DEF F
<1>1. F[m + 1] = IF m + 1 \in S THEN Append(F[m], v[m + 1]) ELSE F[m]
  BY <1>0 DEF TakesAll
<1>2. ASSUME m + 1 \in S PROVE Len(F[m + 1]) = Len(F[m]) + 1 /\ F[m + 1][Len(F[m]) + 1] = v[m + 1]
  <2>1. F[m + 1] = Append(F[m], v[m + 1]) /\ v[m + 1] \in Nat
    BY <1>1, <1>2
  <2> QED
    BY <1>0, <2>1
<1>3. Len(F[m]) \in Nat
  BY <1>0
<1> QED
  BY <1>1, <1>2, <1>3 DEF F

\* h takes the places of l to places of c: one after the other, but that it stays at a
\* place within a field for a while; separators go to separators, and only they.
SameFields(h, l, c) ==
    /\ h \in [0..Len(l) -> Nat] /\ h[0] = 0 /\ h[Len(l)] = Len(c)
    /\ \A n \in 0..Len(l) - 1 :
         \/ h[n + 1] = h[n] + 1
         \/ h[n + 1] = h[n] /\ n > 0 /\ l[n] # Comma /\ l[n + 1] # Comma
    /\ \A n \in 1..Len(l) : h[n] \in 1..Len(c) /\ (l[n] = Comma <=> c[h[n]] = Comma)

\* Both characters of a spare zero go where the digit behind them goes.
Goes(l, n) == LET taken == Len(AtPlaces(l, LeftOf(l))[n])
              IN  IF n = 0 \/ n \in LeftOf(l) THEN taken ELSE taken + 1

\* The characters of a spare zero and the digit behind them.
LEMMA SpareIs ==
    ASSUME NEW l \in Seq(Nat), NEW n \in Nat, n > 0, SpareZero(l, n)
    PROVE  /\ n + 4 < Len(l) /\ l[n] = Comma /\ l[n + 1] = Zero /\ l[n + 2] = Point
           /\ l[n + 3] \in Digit
           /\ n \in LeftOf(l) /\ n + 1 \notin LeftOf(l) /\ n + 2 \notin LeftOf(l)
           /\ n + 3 \in LeftOf(l)
<1>1. /\ n + 4 < Len(l) /\ l[n] = Comma /\ l[n + 1] = Zero /\ l[n + 2] = Point
      /\ l[n + 3] \in Digit
  BY DEF SpareZero
<1>2. Comma # Zero /\ Comma # Point /\ Comma \notin Digit /\ Point \notin Digit
      /\ Zero # Point
  BY DEF Comma, Zero, Point, Digit
<1>3. /\ n \in DOMAIN l /\ n + 1 \in DOMAIN l /\ n + 2 \in DOMAIN l /\ n + 3 \in DOMAIN l
  BY <1>1
<1>4. n + 1 \notin LeftOf(l)
  <2>1. n + 1 > 1 /\ (n + 1) - 1 = n
    OBVIOUS
  <2> QED
    BY <2>1 DEF LeftOf, Dropped
<1>5. n + 2 \notin LeftOf(l)
  <2>1. n + 2 > 2 /\ (n + 2) - 2 = n
    OBVIOUS
  <2> QED
    BY <2>1 DEF LeftOf, Dropped
<1>6. n \in LeftOf(l)
  <2>1. ~SpareZero(l, n - 1)
    <3>1. (n - 1) + 1 = n
      OBVIOUS
    <3> QED
      BY <1>1, <1>2, <3>1 DEF SpareZero
  <2>2. ~SpareZero(l, n - 2)
    <3>1. (n - 2) + 2 = n
      OBVIOUS
    <3> QED
      BY <1>1, <1>2, <3>1 DEF SpareZero
  <2> QED
    BY <1>3, <2>1, <2>2 DEF LeftOf, Dropped
<1>7. n + 3 \in LeftOf(l)
  <2>1. ~SpareZero(l, (n + 3) - 1)
    <3>1. (n + 3) - 1 = n + 2
      OBVIOUS
    <3> QED
      BY <1>1, <1>2, <3>1 DEF SpareZero
  <2>2. ~SpareZero(l, (n + 3) - 2)
    <3>1. (n + 3) - 2 = n + 1
      OBVIOUS
    <3> QED
      BY <1>1, <1>2, <3>1 DEF SpareZero
  <2> QED
    BY <1>3, <2>1, <2>2 DEF LeftOf, Dropped
<1> QED
  BY <1>1, <1>4, <1>5, <1>6, <1>7

\* What is not left is of a spare zero.
LEMMA DroppedIs ==
    ASSUME NEW l \in Seq(Nat), NEW n \in 1..Len(l), n \notin LeftOf(l)
    PROVE  \E m \in Nat : m > 0 /\ SpareZero(l, m) /\ (n = m + 1 \/ n = m + 2)
<1>1. Dropped(l, n)
  BY DEF LeftOf
<1>2. CASE n > 1 /\ SpareZero(l, n - 1)
  <2>1. n - 1 \in Nat /\ n - 1 > 0 /\ n = (n - 1) + 1
    BY <1>2
  <2> QED
    BY <1>2, <2>1
<1>3. CASE n > 2 /\ SpareZero(l, n - 2)
  <2>1. n - 2 \in Nat /\ n - 2 > 0 /\ n = (n - 2) + 2
    BY <1>3
  <2> QED
    BY <1>3, <2>1
<1> QED
  BY <1>1, <1>2, <1>3 DEF Dropped

\* What is left of a line, one place after the other.
LEMMA LeftTaken ==
    ASSUME NEW l \in Seq(Nat), NEW m \in Nat
    PROVE  LET F == AtPlaces(l, LeftOf(l))
           IN  /\ Len(F[m]) \in Nat
               /\ m + 1 \in LeftOf(l) => /\ Len(F[m + 1]) = Len(F[m]) + 1
                                         /\ F[m + 1][Len(F[m]) + 1] = l[m + 1]
               /\ m + 1 \notin LeftOf(l) => F[m + 1] = F[m]
               /\ m <= Len(l) => Extends(Cleaned(l), F[m])
<1> DEFINE S == LeftOf(l)
           F == AtPlaces(l, S)
<1>1. Cleaned(l) = F[Len(l)] /\ Len(l) \in Nat
  BY CleanedIs
<1>2. \A n \in S : l[n] \in Nat
  BY DEF LeftOf
<1> HIDE DEF S
<1>3. /\ m + 1 \in S => Len(F[m + 1]) = Len(F[m]) + 1 /\ F[m + 1][Len(F[m]) + 1] = l[m + 1]
      /\ m + 1 \notin S => F[m + 1] = F[m]
      /\ Len(F[m]) \in Nat
  BY <1>2, TakenAt
<1>4. ASSUME m <= Len(l) PROVE Extends(F[Len(l)], F[m])
  BY <1>1, <1>2, <1>4, TakenStays
<1> QED
  BY <1>1, <1>3, <1>4 DEF S

\* Where a place that is left, or one of a spare zero, goes.
LEMMA GoesTo ==
    ASSUME NEW l \in Seq(Nat), NEW n \in 1..Len(l)
    PROVE  /\ Goes(l, n) \in 1..Len(Cleaned(l))
           /\ n \in LeftOf(l) => Cleaned(l)[Goes(l, n)] = l[n]
           /\ n \notin LeftOf(l) => Cleaned(l)[Goes(l, n)] \in Digit
<1> DEFINE S == LeftOf(l)
           F == AtPlaces(l, S)
           c == Cleaned(l)
<1>0. Len(l) \in Nat /\ c = F[Len(l)] /\ c \in Seq(Nat)
  BY CleanedIs, CleanedType
<1>1. ASSUME NEW m \in Nat
      PROVE  /\ m + 1 \in S => Len(F[m + 1]) = Len(F[m]) + 1 /\ F[m + 1][Len(F[m]) + 1] = l[m + 1]
             /\ m + 1 \notin S => F[m + 1] = F[m]
             /\ Len(F[m]) \in Nat
  BY LeftTaken
<1>2. ASSUME NEW a \in Nat, a <= Len(l)
      PROVE  Extends(c, F[a])
  BY <1>2, LeftTaken
<1> HIDE DEF S, F, c
<1>3. ASSUME NEW m \in S
      PROVE  /\ Goes(l, m) = Len(F[m]) /\ m - 1 \in Nat /\ Len(F[m]) = Len(F[m - 1]) + 1
             /\ Goes(l, m) \in 1..Len(c) /\ c[Goes(l, m)] = l[m]
  <2>1. m \in 1..Len(l) /\ m - 1 \in Nat /\ (m - 1) + 1 = m
    BY DEF S, LeftOf
  <2> DEFINE k == m - 1
  <2>2. Len(F[k + 1]) = Len(F[k]) + 1 /\ F[k + 1][Len(F[k]) + 1] = l[k + 1] /\ Len(F[k]) \in Nat
    <3> HIDE DEF k
    <3> QED
      BY <1>1, <2>1 DEF k
  <2>3. Len(F[m]) <= Len(c) /\ \A i \in 1..Len(F[m]) : c[i] = F[m][i]
    BY <1>0, <1>2, <2>1 DEF Extends
  <2>4. Goes(l, m) = Len(F[m])
    BY DEF Goes, S, F
  <2>5. /\ Len(F[m]) = Len(F[m - 1]) + 1 /\ F[m][Len(F[m])] = l[m]
        /\ Len(F[m]) \in Nat /\ Len(F[m]) > 0
    <3>1. k + 1 = m
      BY <2>1
    <3> QED
      BY <2>2, <3>1
  <2>6. Len(c) \in Nat /\ Len(F[m]) \in 1..Len(F[m]) /\ Len(F[m]) \in 1..Len(c)
    BY <1>0, <2>3, <2>5
  <2>7. c[Len(F[m])] = l[m]
    BY <2>3, <2>5, <2>6
  <2> QED
    BY <2>1, <2>4, <2>5, <2>6, <2>7
<1>4. ASSUME n \notin S PROVE Goes(l, n) \in 1..Len(c) /\ c[Goes(l, n)] \in Digit
  <2>1. PICK m \in Nat : m > 0 /\ SpareZero(l, m) /\ (n = m + 1 \/ n = m + 2)
    BY <1>4, DroppedIs DEF S
  <2>2. /\ l[m + 3] \in Digit
        /\ m + 1 \notin S /\ m + 2 \notin S /\ m + 3 \in S
    BY <2>1, SpareIs DEF S
  <2>3. /\ Goes(l, m + 3) = Len(F[m + 3]) /\ Len(F[m + 3]) = Len(F[m + 2]) + 1
        /\ Goes(l, m + 3) \in 1..Len(c) /\ c[Goes(l, m + 3)] \in Digit
    <3>1. (m + 3) - 1 = m + 2
      OBVIOUS
    <3> QED
      BY <1>3, <2>2, <3>1
  <2>4. F[m + 2] = F[m + 1]
    <3>1. (m + 1) + 1 = m + 2 /\ m + 1 \in Nat
      OBVIOUS
    <3> QED
      BY <1>1, <2>2, <3>1
  <2>5. Goes(l, n) = Len(F[n]) + 1
    BY <1>4 DEF Goes, S, F
  <2>6. Goes(l, n) = Goes(l, m + 3)
    BY <2>1, <2>3, <2>4, <2>5
  <2> QED
    BY <2>3, <2>6
<1> QED
  BY <1>3, <1>4 DEF S, c

\* Cleaning keeps separators, and drops only what is inside a field.
LEMMA CleaningKeepsFields ==
    ASSUME NEW l \in Seq(Nat)
    PROVE  SameFields([n \in 0..Len(l) |-> Goes(l, n)], l, Cleaned(l))
<1> DEFINE S == LeftOf(l)
           F == AtPlaces(l, S)
           c == Cleaned(l)
           h == [n \in 0..Len(l) |-> Goes(l, n)]
<1>0. Len(l) \in Nat /\ c = F[Len(l)] /\ c \in Seq(Nat)
  BY CleanedIs, CleanedType
<1>1. ASSUME NEW m \in Nat
      PROVE  /\ m + 1 \in S => Len(F[m + 1]) = Len(F[m]) + 1
             /\ m + 1 \notin S => F[m + 1] = F[m]
             /\ Len(F[m]) \in Nat
  BY LeftTaken
<1>2. F[0] = <<>>
  BY AtPlacesUnfolds DEF TakesAll
<1>3. \A n \in Nat : Goes(l, n) = IF n = 0 \/ n \in S THEN Len(F[n]) ELSE Len(F[n]) + 1
  BY DEF Goes
<1>4. Comma # Zero /\ Comma # Point /\ Comma \notin Digit
  BY DEF Comma, Zero, Point, Digit
<1>5. \A n \in 0..Len(l) : h[n] = Goes(l, n)
  OBVIOUS
<1> HIDE DEF F, c
<1>6. h \in [0..Len(l) -> Nat]
  <2>1. ASSUME NEW n \in 0..Len(l) PROVE Goes(l, n) \in Nat
    BY <1>1, <1>3
  <2> QED
    BY <2>1
<1>7. h[0] = 0
  BY <1>2, <1>3, <1>5, <1>0
<1> HIDE DEF h
<1>8. h[Len(l)] = Len(c)
  <2>1. Len(l) = 0 \/ Len(l) \in S
    <3> SUFFICES ASSUME Len(l) # 0, Len(l) \notin S PROVE FALSE
      OBVIOUS
    <3>1. PICK m \in Nat : m > 0 /\ SpareZero(l, m) /\ (Len(l) = m + 1 \/ Len(l) = m + 2)
      BY <1>0, DroppedIs
    <3> QED
      BY <1>0, <3>1, SpareIs
  <2> QED
    BY <1>0, <1>3, <1>5, <2>1
<1>9. ASSUME NEW n \in 0..Len(l) - 1
      PROVE  \/ h[n + 1] = h[n] + 1
             \/ h[n + 1] = h[n] /\ n > 0 /\ l[n] # Comma /\ l[n + 1] # Comma
  <2>0. /\ n \in Nat /\ n + 1 \in 1..Len(l) /\ h[n] = Goes(l, n) /\ h[n + 1] = Goes(l, n + 1)
        /\ Len(F[n]) \in Nat
    BY <1>0, <1>1, <1>5
  <2>1. CASE n + 1 \in S /\ (n = 0 \/ n \in S)
    <3>1. Goes(l, n + 1) = Len(F[n + 1]) /\ Goes(l, n) = Len(F[n])
      BY <1>3, <2>0, <2>1
    <3>2. Len(F[n + 1]) = Len(F[n]) + 1
      BY <1>1, <2>0, <2>1
    <3> QED
      BY <2>0, <3>1, <3>2
  <2>2. CASE n + 1 \in S /\ ~(n = 0 \/ n \in S)
    <3>1. n \in 1..Len(l) /\ n \notin S
      BY <2>0, <2>2
    <3>2. PICK m \in Nat : m > 0 /\ SpareZero(l, m) /\ (n = m + 1 \/ n = m + 2)
      BY <3>1, DroppedIs
    <3>3. /\ l[m + 1] = Zero /\ l[m + 2] = Point /\ l[m + 3] \in Digit
          /\ m + 2 \notin S
      BY <3>2, SpareIs
    <3>4. n = m + 2 /\ n + 1 = m + 3
      BY <2>2, <3>2, <3>3
    <3>5. h[n + 1] = h[n]
      <4>1. Goes(l, n + 1) = Len(F[n + 1]) /\ Goes(l, n) = Len(F[n]) + 1
        BY <1>3, <2>0, <2>2
      <4>2. Len(F[n + 1]) = Len(F[n]) + 1
        BY <1>1, <2>0, <2>2
      <4> QED
        BY <2>0, <4>1, <4>2
    <3> QED
      BY <1>4, <3>3, <3>4, <3>5
  <2>3. CASE n + 1 \notin S
    <3>1. PICK m \in Nat : m > 0 /\ SpareZero(l, m) /\ (n + 1 = m + 1 \/ n + 1 = m + 2)
      BY <2>0, <2>3, DroppedIs
    <3>2. /\ l[m + 1] = Zero /\ l[m + 2] = Point
          /\ m \in S /\ m + 1 \notin S
      BY <3>1, SpareIs
    <3>3. F[n + 1] = F[n]
      BY <1>1, <2>0, <2>3
    <3>4. CASE n = m
      <4>1. h[n] = Len(F[n]) /\ h[n + 1] = Len(F[n + 1]) + 1
        BY <1>3, <2>0, <2>3, <3>2, <3>4
      <4> QED
        BY <3>3, <4>1
    <3>5. CASE n = m + 1
      <4>1. h[n] = Len(F[n]) + 1 /\ h[n + 1] = Len(F[n + 1]) + 1
        BY <1>3, <2>0, <2>3, <3>2, <3>5
      <4>2. l[n] = Zero /\ l[n + 1] = Point /\ n > 0
        <5>1. n + 1 = m + 2
          BY <3>5
        <5> QED
          BY <3>2, <3>5, <5>1
      <4> QED
        BY <1>4, <3>3, <4>1, <4>2
    <3> QED
      BY <2>0, <3>1, <3>4, <3>5
  <2> QED
    BY <2>1, <2>2, <2>3
<1>10. ASSUME NEW n \in 1..Len(l)
       PROVE  h[n] \in 1..Len(c) /\ (l[n] = Comma <=> c[h[n]] = Comma)
  <2>1. /\ h[n] \in 1..Len(c)
        /\ n \in S => c[h[n]] = l[n]
        /\ n \notin S => c[h[n]] \in Digit
    BY <1>5, GoesTo DEF c
  <2>2. n \notin S => l[n] # Comma
    <3> SUFFICES ASSUME n \notin S PROVE l[n] # Comma
      OBVIOUS
    <3>1. PICK m \in Nat : m > 0 /\ SpareZero(l, m) /\ (n = m + 1 \/ n = m + 2)
      BY DroppedIs
    <3> QED
      BY <1>4, <3>1, SpareIs
  <2> QED
    BY <1>4, <2>1, <2>2
<1> QED
  BY <1>6, <1>7, <1>8, <1>9, <1>10 DEF SameFields, h, c

\* One step of h, seen from behind.
LEMMA StepsBack ==
    ASSUME NEW l \in Seq(Nat), NEW c \in Seq(Nat), NEW h, SameFields(h, l, c),
           NEW n \in 1..Len(l)
    PROVE  /\ h[n] \in Nat /\ h[n - 1] \in Nat
           /\ \/ h[n] = h[n - 1] + 1
              \/ h[n] = h[n - 1] /\ n > 1 /\ l[n - 1] # Comma /\ l[n] # Comma
<1> DEFINE m == n - 1
<1>1. m \in 0..Len(l) - 1 /\ m + 1 = n /\ m \in 0..Len(l) /\ n \in 0..Len(l)
  OBVIOUS
<1> HIDE DEF m
<1>2. \/ h[m + 1] = h[m] + 1
      \/ h[m + 1] = h[m] /\ m > 0 /\ l[m] # Comma /\ l[m + 1] # Comma
  BY <1>1 DEF SameFields
<1>3. h[m] \in Nat /\ h[n] \in Nat
  BY <1>1 DEF SameFields
<1>4. m > 0 <=> n > 1
  BY <1>1
<1> QED
  BY <1>1, <1>2, <1>3, <1>4 DEF m

\* h does not go back.
LEMMA GoesOn ==
    ASSUME NEW l \in Seq(Nat), NEW c \in Seq(Nat), NEW h, SameFields(h, l, c),
           NEW a \in 0..Len(l), NEW b \in a..Len(l)
    PROVE  h[a] <= h[b]
<1> DEFINE K == {n \in a..Len(l) : ~(h[a] <= h[n])}
<1>0. Len(l) \in Nat /\ h[a] \in Nat
  BY DEF SameFields
<1> SUFFICES ASSUME K # {} PROVE FALSE
  BY <1>0
<1>1. PICK n \in K : \A y \in K : n <= y
  <2>1. K \in SUBSET Nat
    OBVIOUS
  <2> QED
    BY <2>1, LeastOf
<1>2. n # a
  BY <1>0, <1>1
<1>3. n \in 1..Len(l) /\ n - 1 \in a..Len(l) /\ n - 1 \notin K
  BY <1>0, <1>1, <1>2
<1>4. h[a] <= h[n - 1]
  BY <1>3
<1>5. h[n] \in Nat /\ h[n - 1] \in Nat /\ h[n - 1] <= h[n]
  BY <1>3, StepsBack
<1> QED
  BY <1>0, <1>1, <1>4, <1>5

\* Every place of c is reached by a step.
LEMMA GoesOnto ==
    ASSUME NEW l \in Seq(Nat), NEW c \in Seq(Nat), NEW h, SameFields(h, l, c),
           NEW p \in 1..Len(c)
    PROVE  \E n \in 1..Len(l) : h[n] = p /\ h[n - 1] + 1 = p
<1> DEFINE K == {n \in 0..Len(l) : h[n] >= p}
<1>0. Len(l) \in Nat /\ Len(c) \in Nat /\ h[Len(l)] = Len(c) /\ h[0] = 0
  BY DEF SameFields
<1>1. PICK n \in K : \A y \in K : n <= y
  <2>1. K \in SUBSET Nat /\ Len(l) \in K
    BY <1>0
  <2> QED
    BY <2>1, LeastOf
<1>2. n # 0
  BY <1>0, <1>1
<1>3. n \in 1..Len(l) /\ n - 1 \in 0..Len(l) /\ n - 1 \notin K
  BY <1>0, <1>1, <1>2
<1>4. h[n] \in Nat /\ h[n - 1] \in Nat /\ (h[n] = h[n - 1] + 1 \/ h[n] = h[n - 1])
  BY <1>3, StepsBack
<1>5. h[n] >= p /\ ~(h[n - 1] >= p)
  BY <1>1, <1>3
<1>6. h[n] = p /\ h[n - 1] + 1 = p
  BY <1>4, <1>5
<1> QED
  BY <1>3, <1>6

\* Where a field begins there is a step, and a field begins there in c.
LEMMA BeginningsGo ==
    ASSUME NEW l \in Seq(Nat), NEW c \in Seq(Nat), NEW h, SameFields(h, l, c),
           NEW n \in 1..Len(l)
    PROVE  /\ n \in Begins(l) => h[n] = h[n - 1] + 1
           /\ h[n] = h[n - 1] + 1 => (n \in Begins(l) <=> h[n] \in Begins(c))
<1>0. /\ Len(l) \in Nat /\ Len(c) \in Nat /\ h[n] \in 1..Len(c)
      /\ l[n] = Comma <=> c[h[n]] = Comma
      /\ n > 1 => h[n - 1] \in 1..Len(c) /\ (l[n - 1] = Comma <=> c[h[n - 1]] = Comma)
      /\ n = 1 => h[n - 1] = 0
  <2>1. n > 1 => n - 1 \in 1..Len(l)
    OBVIOUS
  <2>2. n = 1 => n - 1 = 0
    OBVIOUS
  <2> QED
    BY <2>1, <2>2 DEF SameFields
<1>1. ASSUME n \in Begins(l) PROVE h[n] = h[n - 1] + 1
  <2>1. n > 1 => l[n - 1] = Comma
    BY <1>1 DEF Begins
  <2> QED
    BY <2>1, StepsBack
<1>2. ASSUME h[n] = h[n - 1] + 1 PROVE n \in Begins(l) <=> h[n] \in Begins(c)
  <2>1. h[n] - 1 = h[n - 1]
    BY <1>2, StepsBack
  <2>2. h[n] > 1 <=> n > 1
    <3>1. h[n - 1] \in Nat
      BY StepsBack
    <3>2. CASE n = 1
      BY <1>0, <1>2, <3>2
    <3>3. CASE n > 1
      BY <1>0, <1>2, <3>1, <3>3
    <3> QED
      BY <3>2, <3>3
  <2>3. n \in DOMAIN l /\ h[n] \in DOMAIN c
    BY <1>0
  <2> QED
    BY <1>0, <2>1, <2>2, <2>3 DEF Begins
<1> QED
  BY <1>1, <1>2

\* The first field stays the first.
LEMMA FirstGoes ==
    ASSUME NEW l \in Seq(Nat), NEW c \in Seq(Nat), NEW h, SameFields(h, l, c),
           Begins(l) # {}
    PROVE  Begins(c) # {} /\ Min(Begins(c)) = h[Min(Begins(l))]
<1> DEFINE f == Min(Begins(l))
           g == Min(Begins(c))
<1>1. f \in Begins(l) /\ f \in 1..Len(l) /\ \A n \in Begins(l) : f <= n
  <2>1. Begins(l) \in SUBSET Nat
    BY DEF Begins
  <2> QED
    BY <2>1, MinIsLeast, FirstField
<1>2. h[f] \in Begins(c)
  BY <1>1, BeginningsGo
<1>3. g \in Begins(c) /\ g \in 1..Len(c) /\ g <= h[f]
  <2>1. Begins(c) \in SUBSET Nat
    BY DEF Begins
  <2> QED
    BY <1>2, <2>1, MinIsLeast, FirstField
<1> HIDE DEF f, g
<1>4. PICK n \in 1..Len(l) : h[n] = g /\ h[n - 1] + 1 = g
  BY <1>3, GoesOnto
<1>5. n \in Begins(l)
  BY <1>3, <1>4, BeginningsGo
<1>6. h[f] <= h[n]
  <2>1. f \in 0..Len(l) /\ n \in f..Len(l)
    BY <1>1, <1>5
  <2> QED
    BY <2>1, GoesOn
<1>7. h[f] \in Nat /\ g \in Nat
  <2>1. h[f] \in Nat
    BY <1>1, StepsBack
  <2> QED
    BY <1>3, <2>1
<1>8. g = h[f]
  BY <1>3, <1>4, <1>6, <1>7
<1> QED
  BY <1>2, <1>8 DEF f, g

\* The fields that tokenise keeps stay those it keeps: an empty field stays empty, and
\* none becomes empty.
LEMMA KeptGo ==
    ASSUME NEW l \in Seq(Nat), NEW c \in Seq(Nat), NEW h, SameFields(h, l, c),
           NEW n \in 1..Len(l), h[n] = h[n - 1] + 1
    PROVE  n \in Kept(l) <=> h[n] \in Kept(c)
<1>0. n \in Begins(l) <=> h[n] \in Begins(c)
  BY BeginningsGo
<1> SUFFICES ASSUME n \in Begins(l), h[n] \in Begins(c)
             PROVE  n \in Kept(l) <=> h[n] \in Kept(c)
  BY <1>0 DEF Kept
<1> DEFINE f == Min(Begins(l))
           g == Min(Begins(c))
<1>1. /\ f \in 1..Len(l) /\ l[f] # Comma
      /\ g \in 1..Len(c) /\ c[g] # Comma
      /\ g = h[f]
  BY FirstField, FirstGoes
<1> HIDE DEF f, g
<1>l. Len(l) \in Nat /\ Len(c) \in Nat
  OBVIOUS
<1>2. ASSUME NEW a \in 1..Len(l), NEW b \in 1..Len(l)
      PROVE  /\ h[a] \in 1..Len(c) /\ h[a] \in Nat /\ h[b] \in Nat
             /\ l[a] = Comma <=> c[h[a]] = Comma
             /\ a <= b => h[a] <= h[b]
  <2>1. a \in 0..Len(l) /\ b \in 0..Len(l) /\ (a <= b => b \in a..Len(l))
    BY <1>l
  <2>2. h[a] \in 1..Len(c) /\ (l[a] = Comma <=> c[h[a]] = Comma)
    BY DEF SameFields
  <2>3. a <= b => h[a] <= h[b]
    BY <2>1, GoesOn
  <2>4. h[a] \in Nat /\ h[b] \in Nat
    BY <2>1 DEF SameFields
  <2> QED
    BY <2>2, <2>3, <2>4
<1>3. ASSUME NEW m \in f..n - 2, l[m] = Comma, l[m + 1] = Comma
      PROVE  h[m] \in g..h[n] - 2 /\ c[h[m]] = Comma /\ c[h[m] + 1] = Comma
  <2>1. m \in 1..Len(l) /\ m + 1 \in 1..Len(l) /\ n - 1 \in 1..Len(l)
        /\ f <= m /\ m + 1 <= n - 1
    BY <1>1, <1>l
  <2>2. h[m + 1] = h[m] + 1
    <3>1. PICK k \in 1..Len(l) : k = m + 1
      BY <2>1
    <3>2. k - 1 = m
      BY <2>1, <3>1
    <3>3. h[k] = h[k - 1] + 1 \/ l[k] # Comma
      BY StepsBack
    <3> QED
      BY <1>3, <3>1, <3>2, <3>3
  <2>3. h[f] <= h[m] /\ h[m + 1] <= h[n - 1] /\ c[h[m]] = Comma /\ c[h[m + 1]] = Comma
    BY <1>1, <1>2, <1>3, <2>1
  <2>4. h[m] \in Nat /\ h[n] \in Nat /\ h[n - 1] \in Nat /\ h[f] \in Nat
    BY <1>1, <1>2, <2>1
  <2>5. h[m] >= h[f] /\ h[m] <= h[n] - 2
    BY <2>2, <2>3, <2>4
  <2>6. h[m] \in h[f]..h[n] - 2
    BY <2>4, <2>5
  <2> QED
    BY <1>1, <2>2, <2>3, <2>6
<1>4. ASSUME NEW p \in g..h[n] - 2, c[p] = Comma, c[p + 1] = Comma
      PROVE  \E m \in f..n - 2 : l[m] = Comma /\ l[m + 1] = Comma
  <2>0. h[n] \in 1..Len(c) /\ h[n] \in Nat
    BY <1>2
  <2>1. p \in Nat /\ p + 1 \in 1..Len(c) /\ p \in 1..Len(c) /\ g <= p /\ p <= h[n] - 2
    <3>1. PICK x \in Nat : x = h[n]
      BY <2>0
    <3>2. PICK z \in Nat : z = Len(c)
      BY <1>l
    <3>3. g \in 1..z /\ x \in 1..z
      BY <1>1, <2>0, <3>1, <3>2
    <3>4. p \in g..x - 2
      BY <3>1
    <3>5. p \in Nat /\ p + 1 \in 1..z /\ p \in 1..z /\ g <= p /\ p <= x - 2
      BY <3>3, <3>4
    <3> QED
      BY <3>1, <3>2, <3>5
  <2>2. PICK k \in 1..Len(l) : h[k] = p + 1 /\ h[k - 1] + 1 = p + 1
    <3>1. PICK q \in 1..Len(c) : q = p + 1
      BY <2>1
    <3>2. PICK k \in 1..Len(l) : h[k] = q /\ h[k - 1] + 1 = q
      BY GoesOnto
    <3> QED
      BY <3>1, <3>2
  <2>3. k > 1 /\ k - 1 \in 1..Len(l) /\ h[k - 1] = p
    <3>1. h[k - 1] = p
      <4>1. PICK x \in Nat : x = h[k - 1]
        BY StepsBack
      <4>2. x + 1 = p + 1 /\ p \in Nat
        BY <2>1, <2>2, <4>1
      <4>3. x = p
        BY <4>2
      <4> QED
        BY <4>1, <4>3
    <3>2. k # 1
      <4>1. h[0] = 0 /\ 1 - 1 = 0
        BY DEF SameFields
      <4> QED
        BY <2>1, <3>1, <4>1
    <3> QED
      BY <1>l, <3>1, <3>2
  <2>4. l[k - 1] = Comma /\ l[k] = Comma
    BY <1>2, <1>4, <2>2, <2>3
  <2>5. k - 1 >= f
    <3> SUFFICES ASSUME k - 1 < f PROVE FALSE
      BY <1>1, <2>3
    <3>1. h[k - 1] <= h[f]
      <4>1. f \in 1..Len(l) /\ k - 1 <= f
        BY <1>1, <2>3
      <4> QED
        BY <1>2, <2>3, <4>1
    <3>2. p = g
      <4>1. p <= g
        BY <1>1, <2>3, <3>1
      <4>2. g \in Nat
        BY <1>1
      <4> QED
        BY <2>1, <4>1, <4>2
    <3> QED
      BY <1>1, <1>4, <3>2
  <2>6. k <= n - 1
    <3> SUFFICES ASSUME k > n - 1 PROVE FALSE
      BY <2>3
    <3>1. h[n] <= h[k]
      BY <1>2
    <3> QED
      BY <2>0, <2>1, <2>2, <3>1
  <2>7. k - 1 \in f..n - 2 /\ (k - 1) + 1 = k
    BY <1>1, <2>3, <2>5, <2>6
  <2> QED
    BY <2>4, <2>7
<1> QED
  BY <1>3, <1>4 DEF Kept, f, g

\* The field at n of l ends at e, and goes to a field of c.
Spans(h, l, c, n, e) ==
    /\ \A k \in n..e : l[k] # Comma
    /\ e = Len(l) \/ l[e + 1] = Comma
    /\ FieldAt(l, n) = SubSeq(l, n, e) /\ FieldAt(c, h[n]) = SubSeq(c, h[n], h[e])

\* A field of l is one of c, from where its first character goes to where its last goes.
LEMMA FieldGoes ==
    ASSUME NEW l \in Seq(Nat), NEW c \in Seq(Nat), NEW h, SameFields(h, l, c),
           NEW n \in Begins(l)
    PROVE  \E e \in n..Len(l) : Spans(h, l, c, n, e)
<1> DEFINE s == n - 1
           found == find_first_of(l, Comma, s)
           e == IF found = -1 THEN Len(l) ELSE found
<1>l. Len(l) \in Nat /\ Len(c) \in Nat
  OBVIOUS
<1>1. n \in 1..Len(l) /\ l[n] # Comma /\ s \in 0..Len(l) - 1 /\ s + 1 = n
  BY DEF Begins
<1>2. \/ found = -1 /\ \A m \in s + 1..Len(l) : l[m] # Comma
      \/ /\ found \in s..Len(l) - 1 /\ l[found + 1] = Comma
         /\ \A m \in s + 1..found : l[m] # Comma
  <2> HIDE DEF s, found
  <2>1. s \in 0..Len(l)
    BY <1>1, <1>l
  <2> QED
    BY <2>1, NextSeparator DEF found
<1> HIDE DEF found
<1>3. /\ e \in n..Len(l) /\ \A m \in n..e : l[m] # Comma
      /\ e = Len(l) \/ (l[e + 1] = Comma /\ e < Len(l))
  <2>1. CASE found = -1
    <3>1. e = Len(l) /\ ~(found \in s..Len(l) - 1)
      BY <1>1, <2>1
    <3>2. \A m \in n..Len(l) : l[m] # Comma
      BY <1>1, <1>2, <3>1
    <3>3. n \in 1..Len(l) /\ Len(l) \in n..Len(l)
      BY <1>1, <1>l
    <3> HIDE DEF e
    <3> QED
      BY <3>1, <3>2, <3>3
  <2>2. CASE found # -1
    <3>1. /\ found \in s..Len(l) - 1 /\ l[found + 1] = Comma
          /\ \A m \in n..found : l[m] # Comma
      BY <1>1, <1>2, <2>2
    <3>2. found # s
      BY <1>1, <3>1
    <3>3. found \in n..Len(l) /\ found < Len(l)
      BY <1>1, <1>l, <3>1, <3>2
    <3> QED
      BY <2>2, <3>1, <3>3
  <2> QED
    BY <2>1, <2>2
<1> HIDE DEF e
<1>4. FieldAt(l, n) = SubSeq(l, n, e)
  <2> HIDE DEF s
  <2> QED
    BY <1>1, <1>3, FieldIs
<1>5. /\ e \in 1..Len(l) /\ h[n] \in 1..Len(c) /\ h[e] \in 1..Len(c) /\ h[n] <= h[e]
      /\ h[e] \in Nat /\ h[n] \in Nat
  <2>1. e \in 1..Len(l) /\ n \in 0..Len(l) /\ e \in n..Len(l) /\ e \in 0..Len(l)
    BY <1>1, <1>3, <1>l
  <2>2. h[n] <= h[e]
    BY <2>1, GoesOn
  <2>3. h[n] \in 1..Len(c) /\ h[e] \in 1..Len(c) /\ h[e] \in Nat /\ h[n] \in Nat
    BY <1>1, <2>1 DEF SameFields
  <2> QED
    BY <2>1, <2>2, <2>3
<1>6. h[e] = Len(c) \/ c[h[e] + 1] = Comma
  <2>1. CASE e = Len(l)
    BY <2>1 DEF SameFields
  <2>2. CASE e # Len(l)
    <3>1. PICK k \in 1..Len(l) : k = e + 1
      BY <1>3, <1>5, <2>2, <1>l
    <3>2. l[k] = Comma /\ k - 1 = e
      BY <1>3, <1>5, <2>2, <3>1
    <3>3. h[k] = h[k - 1] + 1
      BY <3>2, StepsBack
    <3>4. c[h[k]] = Comma
      BY <3>2 DEF SameFields
    <3> QED
      BY <3>2, <3>3, <3>4
  <2> QED
    BY <2>1, <2>2
<1>7. ASSUME NEW p \in h[n]..h[e] PROVE c[p] # Comma
  <2>1. p \in 1..Len(c) /\ h[n] <= p /\ p <= h[e] /\ p \in Nat
    BY <1>5, <1>l
  <2>2. PICK m \in 1..Len(l) : h[m] = p /\ h[m - 1] + 1 = p
    BY <2>1, GoesOnto
  <2>3. PICK x \in Nat : x = h[m - 1]
    BY StepsBack
  <2>4. x + 1 = p
    BY <2>2, <2>3
  <2>5. m >= n
    <3> SUFFICES ASSUME m < n PROVE FALSE
      BY <1>1
    <3>1. m \in 0..Len(l) /\ n - 1 \in m..Len(l)
      BY <1>1, <1>l
    <3>2. h[m] <= h[n - 1]
      BY <3>1, GoesOn
    <3>3. h[n] = h[n - 1] + 1
      BY <1>1, BeginningsGo
    <3>4. PICK y \in Nat : y = h[n - 1]
      BY <1>1, StepsBack
    <3>5. p <= y /\ h[n] = y + 1
      BY <2>2, <3>2, <3>3, <3>4
    <3> QED
      BY <2>1, <3>4, <3>5
  <2>6. m <= e
    <3> SUFFICES ASSUME m > e PROVE FALSE
      BY <1>5
    <3>1. e \in 0..Len(l) /\ m - 1 \in e..Len(l)
      BY <1>5, <1>l
    <3>2. h[e] <= h[m - 1]
      BY <3>1, GoesOn
    <3>3. h[e] <= x
      BY <2>3, <3>2
    <3> QED
      BY <1>5, <2>1, <2>3, <2>4, <3>3
  <2>7. l[m] # Comma
    BY <1>1, <1>3, <1>5, <2>5, <2>6
  <2> QED
    BY <2>2, <2>7 DEF SameFields
<1>8. FieldAt(c, h[n]) = SubSeq(c, h[n], h[e])
  <2>1. PICK t \in 0..Len(c) - 1 : t + 1 = h[n]
    <3>1. h[n] - 1 \in 0..Len(c) - 1 /\ (h[n] - 1) + 1 = h[n]
      BY <1>5, <1>l
    <3> QED
      BY <3>1
  <2>2. h[e] \in t + 1..Len(c)
    BY <1>5, <2>1
  <2> QED
    BY <1>6, <1>7, <2>1, <2>2, FieldIs
<1> QED
  BY <1>3, <1>4, <1>8 DEF Spans

\* A part of a sequence, place by place.
LEMMA PartIs ==
    ASSUME NEW s \in Seq(Nat), NEW a \in 1..Len(s), NEW e \in a..Len(s)
    PROVE  /\ SubSeq(s, a, e) \in Seq(Nat) /\ Len(SubSeq(s, a, e)) = e - a + 1
           /\ \A k \in 1..e - a + 1 : SubSeq(s, a, e)[k] = s[a + k - 1]
OBVIOUS

\* Over places that are left h goes step by step, and c has what l has.
LEMMA StraightOver ==
    ASSUME NEW l \in Seq(Nat), NEW a \in 1..Len(l), NEW e \in a..Len(l),
           \A k \in a..e : k \in LeftOf(l)
    PROVE  /\ \A k \in a..e : Goes(l, k) = Goes(l, a) + (k - a)
           /\ SubSeq(Cleaned(l), Goes(l, a), Goes(l, e)) = SubSeq(l, a, e)
<1> DEFINE F == AtPlaces(l, LeftOf(l))
           c == Cleaned(l)
           g == [k \in 0..Len(l) |-> Goes(l, k)]
           K == {k \in a..e : ~(g[k] = g[a] + (k - a))}
<1>l. Len(l) \in Nat /\ c \in Seq(Nat)
  BY CleanedType
<1>1. ASSUME NEW k \in 1..Len(l) PROVE g[k] = Goes(l, k) /\ g[k] \in 1..Len(c) /\ g[k] \in Nat
  <2>1. g[k] = Goes(l, k)
    BY <1>l
  <2>2. Goes(l, k) \in 1..Len(c)
    BY GoesTo
  <2> QED
    BY <1>l, <2>1, <2>2
<1>2. ASSUME NEW k \in a..e, k > a PROVE g[k] = g[k - 1] + 1
  <2>1. PICK m \in Nat : k = m + 1
    <3>1. k - 1 \in Nat /\ k = (k - 1) + 1
      OBVIOUS
    <3> QED
      BY <3>1
  <2>2. m \in LeftOf(l) /\ m + 1 \in LeftOf(l) /\ m \in 1..Len(l) /\ k \in 1..Len(l) /\ k - 1 = m
    <3>1. m \in a..e /\ m \in 1..Len(l) /\ k \in 1..Len(l) /\ k - 1 = m
      BY <1>2, <1>l, <2>1
    <3> QED
      BY <2>1, <3>1
  <2>3. Len(F[m + 1]) = Len(F[m]) + 1
    BY <2>2, LeftTaken
  <2>4. Goes(l, m) = Len(F[m]) /\ Goes(l, m + 1) = Len(F[m + 1])
    BY <2>2 DEF Goes
  <2>5. g[k] = Goes(l, k) /\ g[m] = Goes(l, m)
    BY <1>1, <2>2
  <2> QED
    BY <2>1, <2>2, <2>3, <2>4, <2>5
<1> HIDE DEF g, c, F
<1>3. ASSUME K # {} PROVE FALSE
  <2>1. PICK k \in K : \A y \in K : k <= y
    <3>1. K \in SUBSET Nat
      OBVIOUS
    <3> QED
      BY <1>3, <3>1, LeastOf
  <2>2. g[a] \in Nat
    BY <1>1
  <2>3. k # a
    BY <2>1, <2>2
  <2>4. k > a /\ k - 1 \in a..e /\ k - 1 \notin K /\ k \in a..e
    BY <2>1, <2>3
  <2>5. g[k - 1] = g[a] + ((k - 1) - a) /\ g[k] = g[k - 1] + 1
    BY <1>2, <2>4
  <2>6. g[k] = g[a] + (k - a)
    <3>1. PICK x \in Nat : x = g[a]
      BY <2>2
    <3>2. g[k] = (x + ((k - 1) - a)) + 1
      BY <2>5, <3>1
    <3>3. (x + ((k - 1) - a)) + 1 = x + (k - a)
      BY <2>4
    <3> QED
      BY <3>1, <3>2, <3>3
  <2> QED
    BY <2>1, <2>6
<1>4. ASSUME NEW k \in a..e PROVE g[k] = g[a] + (k - a) /\ k \in 1..Len(l)
  <2>1. k \notin K
    BY <1>3
  <2> QED
    BY <1>l, <2>1
<1>5. PICK b \in 1..Len(c) : b = g[a]
  BY <1>1
<1>6. PICK f \in 1..Len(c) : f = g[e] /\ f = b + (e - a)
  <2>1. e \in a..e /\ e \in 1..Len(l)
    BY <1>l
  <2> QED
    BY <1>1, <1>4, <1>5, <2>1
<1>7. ASSUME NEW k \in 1..e - a + 1 PROVE c[b + k - 1] = l[a + k - 1]
  <2>1. PICK m \in a..e : m = a + k - 1
    <3>1. a + k - 1 \in a..e
      OBVIOUS
    <3> QED
      BY <3>1
  <2>2. g[m] = b + k - 1
    <3>1. g[m] = b + (m - a)
      BY <1>4, <1>5
    <3> QED
      BY <2>1, <3>1, <1>5
  <2>3. m \in LeftOf(l) /\ m \in 1..Len(l)
    BY <1>4
  <2>4. c[Goes(l, m)] = l[m]
    BY <2>3, GoesTo DEF c
  <2> QED
    BY <1>1, <2>1, <2>2, <2>3, <2>4
<1>8. SubSeq(c, b, f) = SubSeq(l, a, e)
  <2>1. /\ SubSeq(c, b, f) \in Seq(Nat) /\ SubSeq(l, a, e) \in Seq(Nat)
        /\ Len(SubSeq(c, b, f)) = f - b + 1 /\ Len(SubSeq(l, a, e)) = e - a + 1
        /\ \A k \in 1..f - b + 1 : SubSeq(c, b, f)[k] = c[b + k - 1]
        /\ \A k \in 1..e - a + 1 : SubSeq(l, a, e)[k] = l[a + k - 1]
    <3>1. e \in a..Len(l) /\ f \in b..Len(c)
      BY <1>l, <1>6
    <3> QED
      BY <1>l, <3>1, PartIs
  <2>2. f - b + 1 = e - a + 1
    BY <1>5, <1>6
  <2> QED
    <3>1. PICK m \in Nat : m = e - a + 1
      OBVIOUS
    <3>2. \A k \in 1..m : SubSeq(c, b, f)[k] = SubSeq(l, a, e)[k]
      BY <1>7, <2>1, <2>2, <3>1
    <3>3. PICK p \in Seq(Nat) : p = SubSeq(c, b, f)
      BY <2>1
    <3>4. PICK q \in Seq(Nat) : q = SubSeq(l, a, e)
      BY <2>1
    <3>5. Len(p) = m /\ Len(q) = m /\ \A k \in 1..m : p[k] = q[k]
      BY <2>1, <2>2, <3>1, <3>2, <3>3, <3>4
    <3>6. p = q
      BY <3>5
    <3> QED
      BY <3>3, <3>4, <3>6
<1>9. Goes(l, a) = b /\ Goes(l, e) = f
  <2>1. e \in 1..Len(l)
    BY <1>l
  <2> QED
    BY <1>1, <1>5, <1>6, <2>1
<1>10. \A k \in a..e : Goes(l, k) = Goes(l, a) + (k - a)
  BY <1>1, <1>4
<1> QED
  BY <1>8, <1>9, <1>10 DEF c

\* A field as it is after cleaning: without a spare zero.
CleanField(l, n) ==
    IF n > 1 /\ SpareZero(l, n - 1) THEN SubSeq(FieldAt(l, n), 3, Len(FieldAt(l, n)))
    ELSE FieldAt(l, n)

\* Of what is inside a field only a spare zero at its beginning is not left.
LEMMA LeftInField ==
    ASSUME NEW l \in Seq(Nat), NEW n \in Begins(l), NEW e \in n..Len(l),
           \A k \in n..e : l[k] # Comma, NEW k \in n..e, k \notin LeftOf(l)
    PROVE  n > 1 /\ SpareZero(l, n - 1) /\ k <= n + 1
<1>1. n \in 1..Len(l) /\ (n > 1 => l[n - 1] = Comma) /\ k \in 1..Len(l)
  BY DEF Begins
<1>2. PICK m \in Nat : m > 0 /\ SpareZero(l, m) /\ (k = m + 1 \/ k = m + 2)
  BY <1>1, DroppedIs
<1>3. l[m] = Comma /\ l[m + 1] = Zero
  BY <1>2, SpareIs
<1>4. m < n
  <2> SUFFICES ASSUME m >= n PROVE FALSE
    BY <1>1, <1>2
  <2>1. m \in n..e
    BY <1>1, <1>2
  <2> QED
    BY <1>3, <2>1
<1>5. m # n - 2
  <2> SUFFICES ASSUME m = n - 2 PROVE FALSE
    OBVIOUS
  <2>1. m + 1 = n - 1 /\ n > 1
    BY <1>1, <1>2
  <2> QED
    BY <1>1, <1>3, <2>1 DEF Comma, Zero
<1>6. m = n - 1 /\ n > 1 /\ k <= n + 1
  BY <1>1, <1>2, <1>4, <1>5
<1> QED
  BY <1>2, <1>6

\* Cleaning makes a field of l the clean field.
LEMMA FieldIsCleaned ==
    ASSUME NEW l \in Seq(Nat), NEW n \in Begins(l)
    PROVE  FieldAt(Cleaned(l), Goes(l, n)) = CleanField(l, n)
<1> DEFINE c == Cleaned(l)
           h == [k \in 0..Len(l) |-> Goes(l, k)]
<1>1. /\ n \in 1..Len(l) /\ (n > 1 => l[n - 1] = Comma) /\ Len(l) \in Nat
      /\ c \in Seq(Nat) /\ SameFields(h, l, c)
  BY CleanedType, CleaningKeepsFields DEF Begins
<1>p. PICK e \in n..Len(l) : Spans(h, l, c, n, e)
  <2> HIDE DEF h, c
  <2>1. c \in Seq(Nat) /\ SameFields(h, l, c)
    BY <1>1
  <2> QED
    BY <2>1, FieldGoes
<1>2. /\ \A k \in n..e : l[k] # Comma
      /\ e = Len(l) \/ l[e + 1] = Comma
      /\ FieldAt(l, n) = SubSeq(l, n, e) /\ FieldAt(c, h[n]) = SubSeq(c, h[n], h[e])
  <2> HIDE DEF h, c
  <2> QED
    BY <1>p DEF Spans
<1>3. h[n] = Goes(l, n) /\ h[e] = Goes(l, e)
  BY <1>1
<1> HIDE DEF h, c
<1>4. CASE n > 1 /\ SpareZero(l, n - 1)
  <2>1. PICK m \in Nat : m = n - 1 /\ m > 0
    BY <1>1, <1>4
  <2>2. /\ n + 3 < Len(l) /\ l[n] = Zero /\ l[n + 1] = Point /\ l[n + 2] \in Digit
        /\ n \notin LeftOf(l) /\ n + 1 \notin LeftOf(l) /\ n + 2 \in LeftOf(l)
    <3>1. m + 1 = n /\ m + 2 = n + 1 /\ m + 3 = n + 2 /\ m + 4 = n + 3 /\ SpareZero(l, m)
      BY <1>1, <1>4, <2>1
    <3> QED
      BY <2>1, <3>1, SpareIs
  <2>3. e >= n + 2
    <3>1. l[n + 1] # Comma /\ l[n + 2] # Comma
      <4>1. Comma # Point /\ Comma \notin Digit
        BY DEF Point, Digit, Comma, Zero
      <4> QED
        BY <2>2, <4>1
    <3>2. e # n /\ e # n + 1
      <4>1. e # Len(l) => l[e + 1] = Comma
        BY <1>2
      <4>2. e = n + 1 => e + 1 = n + 2
        BY <1>1
      <4>3. e # n
        BY <1>1, <2>2, <3>1, <4>1
      <4>4. e # n + 1
        BY <1>1, <2>2, <3>1, <4>1, <4>2
      <4> QED
        BY <4>3, <4>4
    <3> QED
      BY <1>1, <3>2
  <2>4. PICK a \in 1..Len(l) : a = n + 2
    BY <1>1, <2>2
  <2>5. e \in a..Len(l) /\ \A k \in a..e : k \in LeftOf(l)
    <3>1. ASSUME NEW k \in a..e, k \notin LeftOf(l) PROVE FALSE
      <4>1. k \in n..e /\ ~(k <= n + 1)
        BY <1>1, <2>4
      <4> QED
        BY <1>2, <3>1, <4>1, LeftInField
    <3> QED
      BY <1>1, <2>3, <2>4, <3>1
  <2>6. SubSeq(c, Goes(l, a), Goes(l, e)) = SubSeq(l, a, e)
    BY <2>5, StraightOver DEF c
  <2>7. Goes(l, a) = Goes(l, n)
    <3> DEFINE F == AtPlaces(l, LeftOf(l))
    <3>1. n \in Nat /\ n + 1 \in Nat /\ (n + 1) + 1 = a /\ n # 0 /\ a # 0
      BY <1>1, <2>4
    <3>2. F[n + 1] = F[n]
      BY <2>2, <3>1, LeftTaken
    <3>3. Len(F[(n + 1) + 1]) = Len(F[n + 1]) + 1
      <4>1. PICK k \in Nat : k = n + 1
        BY <3>1
      <4>2. k + 1 \in LeftOf(l)
        BY <2>2, <2>4, <3>1, <4>1
      <4>3. Len(F[k + 1]) = Len(F[k]) + 1
        BY <4>2, LeftTaken
      <4> QED
        BY <4>1, <4>3
    <3>4. Goes(l, n) = Len(F[n]) + 1 /\ Goes(l, a) = Len(F[a])
      BY <2>2, <2>4, <3>1 DEF Goes
    <3> HIDE DEF F
    <3> QED
      BY <3>1, <3>2, <3>3, <3>4
  <2>8. SubSeq(SubSeq(l, n, e), 3, Len(SubSeq(l, n, e))) = SubSeq(l, a, e)
    <3>1. PICK t \in Seq(Nat) : t = SubSeq(l, n, e)
      BY <1>1, PartIs
    <3>2. Len(t) = e - n + 1 /\ \A k \in 1..e - n + 1 : t[k] = l[n + k - 1]
      BY <1>1, <3>1, PartIs
    <3>3. 3 \in 1..Len(t) /\ Len(t) \in 3..Len(t)
      BY <1>1, <2>3, <3>2
    <3>4. PICK p \in Seq(Nat) : p = SubSeq(t, 3, Len(t))
      BY <3>3, PartIs
    <3>5. Len(p) = Len(t) - 3 + 1 /\ \A k \in 1..Len(t) - 3 + 1 : p[k] = t[3 + k - 1]
      BY <3>3, <3>4, PartIs
    <3>6. PICK q \in Seq(Nat) : q = SubSeq(l, a, e)
      BY <2>5, PartIs
    <3>7. Len(q) = e - a + 1 /\ \A k \in 1..e - a + 1 : q[k] = l[a + k - 1]
      BY <2>5, <3>6, PartIs
    <3>8. Len(p) = Len(q)
      BY <1>1, <2>4, <3>2, <3>5, <3>7
    <3>9. ASSUME NEW k \in 1..Len(q) PROVE p[k] = q[k]
      <4>1. k \in 1..Len(t) - 3 + 1 /\ k \in 1..e - a + 1 /\ 3 + k - 1 \in 1..e - n + 1
            /\ n + (3 + k - 1) - 1 = a + k - 1
        BY <1>1, <2>4, <3>2, <3>5, <3>7, <3>8
      <4>2. p[k] = t[3 + k - 1] /\ q[k] = l[a + k - 1]
        BY <3>5, <3>7, <4>1
      <4>3. PICK j \in 1..e - n + 1 : j = 3 + k - 1
        BY <4>1
      <4>4. t[j] = l[n + j - 1] /\ n + j - 1 = a + k - 1
        BY <3>2, <4>1, <4>3
      <4> QED
        BY <4>2, <4>3, <4>4
    <3>10. p = q
      <4>1. PICK k \in Nat : k = Len(q)
        OBVIOUS
      <4>2. Len(p) = k /\ Len(q) = k /\ \A j \in 1..k : p[j] = q[j]
        BY <3>8, <3>9, <4>1
      <4> QED
        BY <4>2
    <3> QED
      BY <3>1, <3>4, <3>6, <3>10
  <2> QED
    BY <1>2, <1>3, <1>4, <2>6, <2>7, <2>8 DEF CleanField, c
<1>5. CASE ~(n > 1 /\ SpareZero(l, n - 1))
  <2>1. \A k \in n..e : k \in LeftOf(l)
    BY <1>2, <1>5, LeftInField
  <2>2. SubSeq(c, Goes(l, n), Goes(l, e)) = SubSeq(l, n, e)
    BY <1>1, <2>1, StraightOver DEF c
  <2> QED
    BY <1>2, <1>3, <1>5, <2>2 DEF CleanField, c
<1> QED
  BY <1>4, <1>5

-----------------------------------------------------------------------------
(* The fields of a line and of the cleaned line *)

\* t is the k-th field or a later one, and u is it after cleaning.
IsCleaned(l, k, t, u) ==
    \E n \in Begins(l) : k <= n /\ t = FieldAt(l, n) /\ u = CleanField(l, n)

AreCleaned(l, n, ts, us) ==
    /\ Len(ts) <= n /\ Len(us) = Len(ts)
    /\ \A k \in 1..Len(ts) : IsCleaned(l, k, ts[k], us[k])

\* The fields up to a place are a sequence.
LEMMA FieldsType ==
    ASSUME NEW l \in Seq(Nat), NEW m \in Nat
    PROVE  \E T : FieldsTo(l)[m] \in Seq(T) /\ \A n \in DOMAIN l : FieldAt(l, n) \in T
<1> DEFINE v == [n \in DOMAIN l |-> FieldAt(l, n)]
           T == {v[n] : n \in DOMAIN l}
           S == Kept(l)
<1>1. \A n \in S : v[n] \in T
  BY DEF Kept, Begins
<1>2. FieldsTo(l) = AtPlaces(v, S)
  BY DEF FieldsTo
<1>3. \A n \in DOMAIN l : FieldAt(l, n) = v[n] /\ v[n] \in T
  OBVIOUS
<1> HIDE DEF v, T, S
<1>4. AtPlaces(v, S)[m] \in Seq(T)
  BY <1>1, AtPlacesType
<1> QED
  BY <1>2, <1>3, <1>4

\* A cleaned line has the fields of the line, each of them cleaned.
LEMMA CleanedFields ==
    ASSUME NEW l \in Seq(Nat)
    PROVE  AreCleaned(l, Len(l), Fields(l), Fields(Cleaned(l)))
<1> DEFINE c == Cleaned(l)
           h == [k \in 0..Len(l) |-> Goes(l, k)]
           F == FieldsTo(l)
           G == FieldsTo(c)
           K == {n \in 0..Len(l) : ~AreCleaned(l, n, F[n], G[h[n]])}
<1>1. /\ Len(l) \in Nat /\ c \in Seq(Nat) /\ SameFields(h, l, c)
      /\ \A n \in 1..Len(l) : h[n] = Goes(l, n)
  BY CleanedType, CleaningKeepsFields
<1>2. /\ F[0] = <<>> /\ G[0] = <<>>
      /\ \A n \in 0..Len(l) - 1 :
           F[n + 1] = IF n + 1 \in Kept(l) THEN Append(F[n], FieldAt(l, n + 1)) ELSE F[n]
      /\ \A n \in 0..Len(c) - 1 :
           G[n + 1] = IF n + 1 \in Kept(c) THEN Append(G[n], FieldAt(c, n + 1)) ELSE G[n]
  <2> HIDE DEF c
  <2> QED
    BY <1>1, FieldsUnfold
<1>3. ASSUME NEW n \in Nat PROVE \E T : F[n] \in Seq(T) /\ \A k \in DOMAIN l : FieldAt(l, k) \in T
  BY FieldsType
<1>4. ASSUME NEW n \in Nat PROVE \E T : G[n] \in Seq(T) /\ \A k \in DOMAIN c : FieldAt(c, k) \in T
  <2> HIDE DEF c
  <2> QED
    BY <1>1, FieldsType
<1>5. \A n \in Begins(l) : FieldAt(c, Goes(l, n)) = CleanField(l, n)
  BY FieldIsCleaned
<1> HIDE DEF c, h, F, G
<1>6. ASSUME NEW n \in 0..Len(l) - 1, AreCleaned(l, n, F[n], G[h[n]])
      PROVE  AreCleaned(l, n + 1, F[n + 1], G[h[n + 1]])
  <2>1. PICK k \in 1..Len(l) : k = n + 1
    BY <1>1
  <2>2. /\ h[n] \in Nat /\ h[k] \in Nat /\ k - 1 = n /\ n \in Nat /\ n \in 0..Len(l)
        /\ h[k] = h[n] + 1 \/ (h[k] = h[n] /\ k > 1 /\ l[n] = l[k - 1] /\ l[k - 1] # Comma)
    <3>1. k - 1 = n /\ n \in Nat /\ n \in 0..Len(l)
      BY <1>1, <2>1
    <3> QED
      BY <1>1, <3>1, StepsBack
  <2>3. /\ F[k] = IF k \in Kept(l) THEN Append(F[n], FieldAt(l, k)) ELSE F[n]
    BY <1>2, <2>1
  <2>4. CASE h[k] = h[n]
    <3>1. h[k] # h[n] + 1
      BY <2>2, <2>4
    <3>2. k \notin Begins(l)
      BY <2>2, <3>1 DEF Begins
    <3>3. F[k] = F[n] /\ G[h[k]] = G[h[n]]
      BY <2>3, <2>4, <3>2 DEF Kept
    <3>4. PICK ts : ts = F[n]
      OBVIOUS
    <3>5. Len(ts) \in Nat
      BY <1>3, <2>2, <3>4
    <3> QED
      BY <1>6, <2>1, <2>2, <3>3, <3>4, <3>5 DEF AreCleaned
  <2>5. CASE h[k] = h[n] + 1
    <3>1. h[k] \in 1..Len(c) /\ Len(c) \in Nat
      BY <1>1 DEF SameFields
    <3>2. h[n] \in 0..Len(c) - 1
      BY <2>2, <2>5, <3>1
    <3>3. k \in Kept(l) <=> h[k] \in Kept(c)
      BY <1>1, <2>2, <2>5, KeptGo
    <3>4. G[h[k]] = IF k \in Kept(l) THEN Append(G[h[n]], FieldAt(c, h[k])) ELSE G[h[n]]
      <4>1. PICK x \in 0..Len(c) - 1 : x = h[n]
        BY <3>2
      <4> QED
        BY <1>2, <2>5, <3>3, <4>1
    <3>5. PICK T : F[n] \in Seq(T) /\ \A i \in DOMAIN l : FieldAt(l, i) \in T
      BY <1>3, <2>2
    <3>6. PICK U : G[h[n]] \in Seq(U) /\ \A i \in DOMAIN c : FieldAt(c, i) \in U
      BY <1>4, <2>2
    <3>7. PICK ts \in Seq(T) : ts = F[n]
      BY <3>5
    <3>8. PICK us \in Seq(U) : us = G[h[n]]
      BY <3>6
    <3>9. Len(ts) <= n /\ Len(us) = Len(ts) /\ \A i \in 1..Len(ts) : IsCleaned(l, i, ts[i], us[i])
      BY <1>6, <3>7, <3>8 DEF AreCleaned
    <3>10. CASE k \in Kept(l)
      <4>1. PICK t \in T : t = FieldAt(l, k)
        BY <3>5
      <4>2. PICK u \in U : u = FieldAt(c, h[k])
        BY <3>1, <3>6
      <4>3. k \in Begins(l) /\ h[k] = Goes(l, k)
        BY <1>1, <3>10 DEF Kept
      <4>4. u = CleanField(l, k)
        BY <1>5, <4>2, <4>3
      <4>5. F[k] = Append(ts, t) /\ G[h[k]] = Append(us, u)
        BY <2>3, <3>4, <3>7, <3>8, <3>10, <4>1, <4>2
      <4>6. IsCleaned(l, Len(ts) + 1, t, u)
        <5>1. Len(ts) + 1 <= k
          BY <2>1, <3>9
        <5> QED
          BY <4>1, <4>3, <4>4, <5>1 DEF IsCleaned
      <4>7. \A i \in 1..Len(ts) + 1 : IsCleaned(l, i, Append(ts, t)[i], Append(us, u)[i])
        <5>1. ASSUME NEW i \in 1..Len(ts) PROVE Append(ts, t)[i] = ts[i] /\ Append(us, u)[i] = us[i]
          BY <3>9
        <5>2. Append(ts, t)[Len(ts) + 1] = t /\ Append(us, u)[Len(ts) + 1] = u
          BY <3>9
        <5>3. ASSUME NEW i \in 1..Len(ts) + 1 PROVE i \in 1..Len(ts) \/ i = Len(ts) + 1
          OBVIOUS
        <5> QED
          BY <3>9, <4>6, <5>1, <5>2, <5>3
      <4>8. /\ Len(Append(ts, t)) = Len(ts) + 1 /\ Len(Append(us, u)) = Len(us) + 1
            /\ Len(ts) + 1 <= n + 1
        BY <3>9
      <4> QED
        BY <2>1, <3>9, <4>5, <4>7, <4>8 DEF AreCleaned
    <3>11. CASE k \notin Kept(l)
      <4>1. F[k] = ts /\ G[h[k]] = us /\ Len(ts) <= n + 1
        BY <2>3, <3>4, <3>7, <3>8, <3>9, <3>11
      <4> QED
        BY <2>1, <3>9, <4>1 DEF AreCleaned
    <3> QED
      BY <3>10, <3>11
  <2> QED
    BY <2>2, <2>4, <2>5
<1>7. h[0] = 0 /\ h[Len(l)] = Len(c)
  BY <1>1 DEF SameFields
<1>8. AreCleaned(l, 0, F[0], G[h[0]])
  BY <1>2, <1>7 DEF AreCleaned
<1>9. ASSUME K # {} PROVE FALSE
  <2>1. PICK n \in K : \A y \in K : n <= y
    <3>1. K \in SUBSET Nat
      OBVIOUS
    <3> QED
      BY <1>9, <3>1, LeastOf
  <2>2. n # 0
    BY <1>8, <2>1
  <2>3. PICK m \in 0..Len(l) - 1 : n = m + 1
    <3>1. n - 1 \in 0..Len(l) - 1 /\ n = (n - 1) + 1
      BY <1>1, <2>1, <2>2
    <3> QED
      BY <3>1
  <2>4. m \notin K /\ m \in 0..Len(l)
    BY <1>1, <2>1, <2>3
  <2> QED
    BY <1>6, <2>1, <2>3, <2>4
<1>10. AreCleaned(l, Len(l), F[Len(l)], G[h[Len(l)]])
  <2>1. Len(l) \in 0..Len(l)
    BY <1>1
  <2> QED
    BY <1>9, <2>1
<1> QED
  BY <1>7, <1>10 DEF Fields, F, G, c

-----------------------------------------------------------------------------
(* clean_csv.py repairs what it is for *)

Points(t) == {n \in DOMAIN t : t[n] = Point}

\* Two points are one too many.
LEMMA TwoPoints ==
    ASSUME NEW t \in Seq(Nat), NEW a \in Points(t), NEW b \in Points(t), a # b
    PROVE  ~IsNumber(t)
<1>1. Points(t) \subseteq 1..Len(t) /\ Len(t) \in Nat
  BY DEF Points
<1>2. IsFiniteSet(Points(t))
  <2>1. IsFiniteSet(1..Len(t))
    BY <1>1, FS_Interval
  <2> QED
    BY <1>1, <2>1, FS_Subset
<1>3. Cardinality({a, b}) = 2
  <2>1. Cardinality({a}) = 1 /\ IsFiniteSet({a})
    BY FS_Singleton
  <2>2. {a} \cup {b} = {a, b} /\ b \notin {a}
    OBVIOUS
  <2>3. Cardinality({a} \cup {b}) = Cardinality({a}) + 1
    BY <2>1, <2>2, FS_AddElement
  <2>4. Cardinality({a, b}) = Cardinality({a} \cup {b})
    BY <2>2, Zenon
  <2>5. Cardinality({a} \cup {b}) = 2
    <3>1. PICK x : x = Cardinality({a})
      OBVIOUS
    <3>2. PICK y : y = Cardinality({a} \cup {b})
      OBVIOUS
    <3>3. x = 1 /\ y = x + 1
      BY <2>1, <2>3, <3>1, <3>2, Zenon
    <3>4. y = 2
      BY <3>3
    <3> QED
      BY <3>2, <3>4, Zenon
  <2> QED
    BY <2>4, <2>5, Zenon
<1>4. Cardinality({a, b}) <= Cardinality(Points(t))
  <2>1. {a, b} \subseteq Points(t)
    OBVIOUS
  <2> QED
    BY <1>2, <2>1, FS_Subset
<1>5. Cardinality(Points(t)) \in Nat
  BY <1>2, FS_CardinalityType
<1>6. ~(Cardinality(Points(t)) <= 1)
  BY <1>3, <1>4, <1>5
<1> QED
  BY <1>6 DEF IsNumber, Points

\* Without two of them there is at most one.
LEMMA OnePoint ==
    ASSUME NEW t \in Seq(Nat), \A a, b \in Points(t) : a = b
    PROVE  Cardinality(Points(t)) <= 1
<1>1. CASE Points(t) = {}
  BY <1>1, FS_EmptySet
<1>2. CASE Points(t) # {}
  <2>1. PICK a \in Points(t) : TRUE
    BY <1>2
  <2>2. Points(t) = {a}
    BY <2>1
  <2> QED
    <3>1. Cardinality({a}) = 1
      BY FS_Singleton
    <3> QED
      BY <2>2, <3>1
<1> QED
  BY <1>1, <1>2

\* stod reads a number to its end.
LEMMA NumbersAreRead ==
    ASSUME NEW t \in Seq(Nat), IsNumber(t)
    PROVE  ~StodThrows(t)
<1>1. Len(t) \in 1..Len(t)
  <2>1. PICK n \in DOMAIN t : t[n] \in Digit
    BY DEF IsNumber
  <2> QED
    BY <2>1
<1>2. Prefix(t, Len(t)) = t
  BY DEF Prefix
<1>3. Len(t) \in NumberLengths(t)
  BY <1>1, <1>2 DEF NumberLengths
<1> QED
  BY <1>3 DEF StodThrows

\* A field that is a number, or one behind a spare "0.", is a number after cleaning,
\* if it is not the first of its line.
LEMMA RepairableIsRepaired ==
    ASSUME NEW l \in Seq(Nat), NEW n \in Begins(l), n > 1, Repairable(FieldAt(l, n))
    PROVE  IsNumber(CleanField(l, n)) /\ CleanField(l, n) \in Seq(Nat)
<1> DEFINE c == Cleaned(l)
           h == [k \in 0..Len(l) |-> Goes(l, k)]
           t == FieldAt(l, n)
<1>l. Len(l) \in Nat /\ n \in 1..Len(l) /\ l[n - 1] = Comma
  BY DEF Begins
<1>d. /\ Comma # Point /\ Comma # Zero /\ Zero # Point
      /\ Comma \notin Digit /\ Point \notin Digit /\ Zero \in Digit
  BY DEF Comma, Point, Digit, Zero
<1>1. PICK e \in n..Len(l) : Spans(h, l, c, n, e)
  <2>1. c \in Seq(Nat) /\ SameFields(h, l, c)
    BY CleanedType, CleaningKeepsFields
  <2> HIDE DEF c, h
  <2> QED
    BY <2>1, FieldGoes
<1>2. /\ \A k \in n..e : l[k] # Comma
      /\ e = Len(l) \/ l[e + 1] = Comma
      /\ t = SubSeq(l, n, e)
  BY <1>1 DEF Spans
<1> HIDE DEF c, h, t
<1>3. t \in Seq(Nat) /\ Len(t) = e - n + 1 /\ \A k \in 1..e - n + 1 : t[k] = l[n + k - 1]
  BY <1>2, <1>l, PartIs
<1>4. CASE SpareZero(l, n - 1)
  <2>1. PICK x \in Nat : x = n - 1
    BY <1>l
  <2>2. /\ x + 4 < Len(l) /\ l[x + 1] = Zero /\ l[x + 2] = Point
        /\ \E m \in x + 3..Len(l) - 2 :
             /\ \A k \in x + 3..m : l[k] \in Digit
             /\ l[m + 1] = Point /\ l[m + 2] \in Digit
    BY <1>4, <2>1 DEF SpareZero
  <2>3. PICK m \in x + 3..Len(l) - 2 :
             /\ \A k \in x + 3..m : l[k] \in Digit
             /\ l[m + 1] = Point /\ l[m + 2] \in Digit
    BY <2>2
  <2>4. ASSUME NEW k \in n..m + 2 PROVE l[k] # Comma
    <3>1. k = x + 1 \/ k = x + 2 \/ k \in x + 3..m \/ k = m + 1 \/ k = m + 2
      BY <1>l, <2>1, <2>3
    <3> QED
      BY <1>d, <2>2, <2>3, <3>1
  <2>5. e >= m + 1
    <3> SUFFICES ASSUME e < m + 1 PROVE FALSE
      BY <1>l
    <3>1. e + 1 \in n..m + 2 /\ e # Len(l)
      BY <1>l, <2>1, <2>3
    <3> QED
      BY <1>2, <2>4, <3>1
  <2>6. PICK p \in 1..Len(t) : p = m + 1 - n + 1
    BY <1>l, <1>3, <2>1, <2>3, <2>5
  <2>7. 2 \in 1..Len(t) /\ p # 2 /\ n + p - 1 = m + 1 /\ n + 2 - 1 = x + 2
    BY <1>l, <1>3, <2>1, <2>3, <2>6
  <2>8. t[2] = Point /\ t[p] = Point
    BY <1>3, <2>2, <2>3, <2>6, <2>7
  <2>9. ~IsNumber(t)
    <3>1. 2 \in Points(t) /\ p \in Points(t)
      BY <1>3, <2>7, <2>8 DEF Points
    <3> QED
      BY <1>3, <2>7, <3>1, TwoPoints
  <2>10. CleanField(l, n) = SubSeq(t, 3, Len(t)) /\ IsNumber(SubSeq(t, 3, Len(t)))
    BY <1>4, <2>9 DEF CleanField, Repairable, t
  <2>11. SubSeq(t, 3, Len(t)) \in Seq(Nat)
    BY <1>3
  <2> QED
    BY <2>10, <2>11
<1>5. CASE ~SpareZero(l, n - 1)
  <2>1. CleanField(l, n) = t
    BY <1>5 DEF CleanField, t
  <2>2. CASE IsNumber(t)
    BY <1>3, <2>1, <2>2
  <2>3. CASE ~IsNumber(t)
    <3>1. PICK L \in Nat : L = Len(t)
      BY <1>3
    <3>2. /\ L > 2 /\ t[1] = Zero /\ t[2] = Point /\ t[3] \in Digit /\ t[L] \in Digit
          /\ IsNumber(SubSeq(t, 3, L))
      BY <2>3, <3>1 DEF Repairable, t
    <3>3. PICK w \in Seq(Nat) : w = SubSeq(t, 3, L)
      <4>1. 3 \in 1..Len(t) /\ L \in 3..Len(t)
        BY <3>1, <3>2
      <4> QED
        BY <1>3, <4>1, PartIs
    <3>4. Len(w) = L - 2 /\ \A k \in 1..L - 2 : w[k] = t[k + 2]
      <4>1. 3 \in 1..Len(t) /\ L \in 3..Len(t)
        BY <3>1, <3>2
      <4>2. Len(w) = L - 3 + 1 /\ \A k \in 1..L - 3 + 1 : w[k] = t[3 + k - 1]
        BY <1>3, <3>3, <4>1, PartIs
      <4>3. L - 3 + 1 = L - 2 /\ \A k \in 1..L - 2 : 3 + k - 1 = k + 2
        OBVIOUS
      <4> QED
        BY <4>2, <4>3
    <3>5. (\A k \in 1..L - 2 : w[k] \in Digit \/ w[k] = Point) /\ IsNumber(w)
      <4>1. IsNumber(w) /\ DOMAIN w = 1..L - 2
        BY <3>2, <3>3, <3>4
      <4> QED
        BY <4>1 DEF IsNumber
    <3>6. CASE \A k \in 1..L - 2 : w[k] # Point
      <4>1. ASSUME NEW k \in 1..L PROVE (t[k] \in Digit \/ t[k] = Point) /\ (t[k] = Point => k = 2)
        <5>1. CASE k = 1 \/ k = 2
          BY <1>d, <3>2, <5>1
        <5>2. CASE k > 2
          <6>1. PICK j \in 1..L - 2 : k = j + 2
            <7>1. k - 2 \in 1..L - 2 /\ k = (k - 2) + 2
              BY <5>2
            <7> QED
              BY <7>1
          <6> QED
            BY <3>4, <3>5, <3>6, <6>1
        <5> QED
          BY <5>1, <5>2
      <4>2. \A a, b \in Points(t) : a = b
        BY <1>3, <3>1, <4>1 DEF Points
      <4>3. Cardinality(Points(t)) <= 1
        BY <1>3, <4>2, OnePoint
      <4>4. 1 \in DOMAIN t /\ t[1] \in Digit /\ DOMAIN t = 1..L
        BY <1>d, <1>3, <3>1, <3>2
      <4>5. \A k \in DOMAIN t : t[k] \in Digit \cup {Point}
        BY <4>1, <4>4
      <4>6. IsNumber(t)
        BY <4>3, <4>4, <4>5 DEF IsNumber, Points
      <4> QED
        BY <2>3, <4>6
    <3>7. CASE \E k \in 1..L - 2 : w[k] = Point
      <4>1. PICK q \in 1..L - 2 : w[q] = Point
        BY <3>7
      <4>2. ASSUME NEW k \in 1..L - 2, k # q PROVE w[k] \in Digit
        <5>1. w[k] # Point
          <6> SUFFICES ASSUME w[k] = Point PROVE FALSE
            OBVIOUS
          <6>1. DOMAIN w = 1..L - 2
            BY <3>4
          <6>2. k \in Points(w) /\ q \in Points(w)
            BY <4>1, <6>1 DEF Points
          <6> QED
            BY <3>5, <4>2, <6>2, TwoPoints
        <5> QED
          BY <3>5, <5>1
      <4>3. q # 1 /\ q # L - 2
        <5>1. w[1] = t[3] /\ w[L - 2] = t[L]
          <6>1. 1 \in 1..L - 2 /\ L - 2 \in 1..L - 2 /\ 1 + 2 = 3 /\ (L - 2) + 2 = L
            BY <3>2
          <6>2. w[1] = t[1 + 2] /\ w[L - 2] = t[(L - 2) + 2]
            BY <3>4, <6>1
          <6> QED
            BY <6>1, <6>2
        <5> QED
          BY <1>d, <3>2, <4>1, <5>1
      <4>4. ASSUME NEW k \in 1..L - 2 PROVE l[n + k + 1] = w[k]
        <5>1. PICK j \in 1..e - n + 1 : j = k + 2
          BY <1>3, <1>l, <3>1
        <5>2. n + j - 1 = n + k + 1
          BY <1>l, <5>1
        <5> QED
          BY <1>3, <3>4, <5>1, <5>2
      <4>5. PICK x \in Nat : x = n - 1
        BY <1>l
      <4>6. PICK m \in x + 3..Len(l) - 2 : m = n + q
        BY <1>l, <1>3, <3>1, <3>2, <4>3, <4>5
      <4>7. ASSUME NEW k \in x + 3..m PROVE l[k] \in Digit
        <5>1. PICK j \in 1..L - 2 : k = n + j + 1 /\ j # q
          <6>1. k - n - 1 \in 1..L - 2 /\ k = n + (k - n - 1) + 1 /\ k - n - 1 # q
            BY <1>l, <4>5, <4>6
          <6> QED
            BY <6>1
        <5> QED
          BY <4>2, <4>4, <5>1
      <4>8. l[m + 1] = Point
        <5>1. m + 1 = n + q + 1
          BY <1>l, <4>6
        <5> QED
          BY <4>1, <4>4, <5>1
      <4>9. l[m + 2] \in Digit
        <5>1. PICK j \in 1..L - 2 : j = q + 1
          BY <4>3
        <5>2. m + 2 = n + j + 1 /\ j # q
          BY <1>l, <4>6, <5>1
        <5> QED
          BY <4>2, <4>4, <5>1, <5>2
      <4>10. x + 4 < Len(l) /\ l[x] = Comma /\ l[x + 1] = Zero /\ l[x + 2] = Point
        <5>1. x + 4 < Len(l)
          BY <1>l, <4>6
        <5>2. l[n] = t[1] /\ l[n + 1] = t[2]
          <6>1. 1 \in 1..e - n + 1 /\ 2 \in 1..e - n + 1 /\ n + 1 - 1 = n /\ n + 2 - 1 = n + 1
            <7>1. e - n + 1 > 2 /\ e \in Nat /\ n \in Nat
              BY <1>l, <1>3, <3>1, <3>2
            <7> QED
              BY <7>1
          <6>2. t[1] = l[n + 1 - 1] /\ t[2] = l[n + 2 - 1]
            BY <1>3, <6>1
          <6> QED
            BY <6>1, <6>2
        <5>3. x + 1 = n /\ x + 2 = n + 1
          BY <1>l, <4>5
        <5> QED
          BY <1>l, <3>2, <4>5, <5>1, <5>2, <5>3
      <4>11. SpareZero(l, x)
        BY <4>7, <4>8, <4>9, <4>10 DEF SpareZero
      <4> QED
        BY <1>5, <4>5, <4>11
    <3> QED
      BY <3>6, <3>7
  <2> QED
    BY <2>2, <2>3
<1> QED
  BY <1>4, <1>5

\* The lines that are read are those of the file, or all of them cleaned.
CleanedInv ==
    /\ uncleaned \in Seq(Seq(Nat)) /\ Len(all) = Len(uncleaned)
    /\ pc = "raw" => file = uncleaned /\ all = uncleaned
    /\ \/ all = uncleaned
       \/ \A n \in DOMAIN uncleaned : all[n] = Cleaned(uncleaned[n])

\* The script cleans every line, and nothing else changes a line.
LEMMA CleanedInvStep == CleanedInv /\ [Next]_vars => CleanedInv'
<1> SUFFICES ASSUME CleanedInv, [Next]_vars PROVE CleanedInv'
  OBVIOUS
<1>1. CASE CleanCsv
  <2>1. /\ uncleaned \in Seq(Seq(Nat)) /\ uncleaned' = uncleaned /\ pc' = "open"
        /\ all' = [n \in DOMAIN uncleaned |-> Cleaned(uncleaned[n])]
    BY <1>1 DEF CleanedInv, CleanCsv
  <2>2. Len(all') = Len(uncleaned)
    <3>1. \A n \in 1..Len(uncleaned) : Cleaned(uncleaned[n]) \in Seq(Nat)
      BY <2>1, CleanedType
    <3>2. all' = [n \in 1..Len(uncleaned) |-> Cleaned(uncleaned[n])] /\ Len(uncleaned) \in Nat
      BY <2>1
    <3>3. all' \in Seq(Seq(Nat)) /\ DOMAIN all' = 1..Len(uncleaned)
      BY <3>1, <3>2
    <3> QED
      BY <3>2, <3>3
  <2> QED
    BY <2>1, <2>2 DEF CleanedInv
<1>2. CASE UseAsIs \/ Read
  <2>1. UNCHANGED <<all, uncleaned>> /\ pc' # "raw"
    BY <1>2 DEF UseAsIs, Read, Open, GetLine, EndOfFile, Tokenise, TokeniseBreak,
                TokenisePush, Parse
  <2> QED
    BY <2>1 DEF CleanedInv
<1>3. CASE UNCHANGED vars
  BY <1>3 DEF CleanedInv, vars
<1> QED
  BY <1>1, <1>2, <1>3 DEF Next

\* Of a row whose numbers have at most a spare "0." in front, nothing is lost and
\* nothing cut short once clean_csv.py has rewritten the file, wherever in the line the
\* numbers are and whatever else is in it.
THEOREM CleaningSuffices == Spec => []CleanSuffices
<1>1. Init => CleanedInv
  BY FilesAreText DEF Init, CleanedInv
<1>2. ReaderInv /\ CleanedInv => CleanSuffices
  <2> SUFFICES ASSUME ReaderInv, CleanedInv, pc = "parse", all # uncleaned,
                      Len(Fields(uncleaned[lineNum])) = 5,
                      Repairable(Fields(uncleaned[lineNum])[4]),
                      Repairable(Fields(uncleaned[lineNum])[5])
               PROVE  Loads(tokens) /\ WholeNumbers(tokens)
    BY DEF CleanSuffices
  <2>1. /\ lineNum \in 1..Len(uncleaned) /\ tokens = Fields(line) /\ line = all[lineNum]
        /\ uncleaned \in Seq(Seq(Nat))
    <3>1. /\ lineNum \in Nat /\ lineNum > 0 /\ Len(all) = lineNum + Len(file)
          /\ file \in Seq(Seq(Nat)) /\ tokens = Fields(line) /\ line = all[lineNum]
      BY DEF ReaderInv, TypeOK, RowsInv, TokeniseCorrect
    <3>2. Len(file) \in Nat /\ Len(all) = Len(uncleaned) /\ uncleaned \in Seq(Seq(Nat))
      BY <3>1 DEF CleanedInv
    <3>3. lineNum \in 1..Len(uncleaned)
      BY <3>1, <3>2
    <3> QED
      BY <3>1, <3>2, <3>3
  <2>2. PICK l \in Seq(Nat) : l = uncleaned[lineNum]
    BY <2>1
  <2>3. tokens = Fields(Cleaned(l))
    <3>1. DOMAIN uncleaned = 1..Len(uncleaned)
      BY <2>1
    <3>2. all[lineNum] = Cleaned(uncleaned[lineNum])
      BY <2>1, <3>1 DEF CleanedInv
    <3> QED
      BY <2>1, <2>2, <3>2
  <2>4. PICK ts : ts = Fields(l)
    OBVIOUS
  <2>5. /\ Len(ts) = 5 /\ Len(tokens) = 5
        /\ \A k \in 1..5 : IsCleaned(l, k, ts[k], tokens[k])
    BY <2>2, <2>3, <2>4, CleanedFields DEF AreCleaned
  <2>6. ASSUME NEW k \in {4, 5} PROVE IsNumber(tokens[k]) /\ ~StodThrows(tokens[k])
    <3>1. Repairable(ts[k]) /\ k \in 1..5 /\ k > 1
      BY <2>2, <2>4
    <3>2. PICK n \in Begins(l) : k <= n /\ ts[k] = FieldAt(l, n) /\ tokens[k] = CleanField(l, n)
      BY <2>5, <3>1 DEF IsCleaned
    <3>3. n > 1
      BY <3>1, <3>2 DEF Begins
    <3>4. IsNumber(tokens[k]) /\ tokens[k] \in Seq(Nat)
      BY <3>1, <3>2, <3>3, RepairableIsRepaired
    <3> QED
      BY <3>4, NumbersAreRead
  <2> QED
    BY <2>5, <2>6 DEF Loads, WholeNumbers
<1>3. Spec => []CleanedInv
  BY <1>1, CleanedInvStep, PTL DEF Spec
<1> QED
  BY <1>2, <1>3, ReaderInvariant, PTL
=============================================================================
