--------------------------- MODULE OrderBookProofs ---------------------------
(***************************************************************************)
(* The matching engine, on vectors of any length and for any client: lemmas*)
(* about selecting from and sorting vectors of orders; the matching loop's *)
(* invariant, and that the loop implements Clearing; the book's inductive  *)
(* invariant, and from it type correctness, the time order, getNextTime's  *)
(* contract, and what a match may and must do to the book; and the account *)
(* of a call, that what it sells of an order is what the order has less.   *)
(***************************************************************************)
EXTENDS OrderBook, FiniteSetTheorems, WellFoundedInduction, TLAPS

(* Vectors of orders *)

\* A set of numbers of 1..n that is as large as the numbers can get in 1..n
\* takes every value: an injection of a finite set into 1..its size is onto.
LEMMA InjectionIntoSizeIsOnto ==
    ASSUME NEW K, IsFiniteSet(K), NEW f \in [K -> 1..Cardinality(K)],
           \A m, n \in K : m # n => f[m] # f[n]
    PROVE  \A k \in 1..Cardinality(K) : \E n \in K : f[n] = k
<1> DEFINE c == Cardinality(K)
<1>1. c \in Nat
  BY FS_CardinalityType
<1>2. IsFiniteSet(1..c) /\ Cardinality(1..c) = c
  <2>1. Cardinality(1..c) = IF 1 > c THEN 0 ELSE c - 1 + 1
    BY <1>1, FS_Interval
  <2>2. IsFiniteSet(1..c)
    BY <1>1, FS_Interval
  <2> HIDE DEF c
  <2> QED
    BY <1>1, <2>1, <2>2
<1>3. f \in Injection(K, 1..c)
  BY DEF Injection, IsInjective
<1>4. f \in Surjection(K, 1..c)
  BY <1>2, <1>3, FS_Injection
<1> QED
  BY <1>4 DEF Surjection

-----------------------------------------------------------------------------
(* Selecting *)

\* The ranks of a set of places grow with the places and are at most its size.
LEMMA RankProperties ==
    ASSUME NEW L \in Nat, NEW K \in SUBSET (1..L)
    PROVE  /\ IsFiniteSet(K) /\ Cardinality(K) \in Nat
           /\ \A n \in K : Rank(K, n) \in 1..Cardinality(K)
           /\ \A m, n \in K : m < n => Rank(K, m) < Rank(K, n)
<1>1. IsFiniteSet(K)
  <2>1. IsFiniteSet(1..L)
    BY FS_Interval
  <2> QED
    BY <2>1, FS_Subset
<1>2. K \subseteq Nat
  OBVIOUS
<1>3. Cardinality(K) \in Nat
  BY <1>1, FS_CardinalityType
<1> DEFINE Below(n) == {m \in K : m <= n}
<1>4. \A n \in K : /\ IsFiniteSet(Below(n)) /\ Cardinality(Below(n)) \in Nat
                   /\ Cardinality(Below(n)) <= Cardinality(K)
                   /\ n \in Below(n)
  BY <1>1, <1>2, FS_Subset, FS_CardinalityType
<1>5. \A n \in K : Cardinality(Below(n)) # 0
  BY <1>4, FS_EmptySet
<1>6. ASSUME NEW m \in K, NEW n \in K, m < n
      PROVE  Cardinality(Below(m)) < Cardinality(Below(n))
  <2>1. Below(m) \subseteq Below(n) /\ n \notin Below(m)
    <3>1. m \in Nat /\ n \in Nat /\ \A x \in K : x \in Nat
      BY <1>2
    <3>2. (\A x \in K : x <= m => x <= n) /\ ~(n <= m)
      BY <1>6, <3>1
    <3> QED
      BY <3>2
  <2>2. Below(m) # Below(n)
    BY <1>4, <2>1
  <2>3. /\ Cardinality(Below(m)) <= Cardinality(Below(n))
        /\ Cardinality(Below(n)) # Cardinality(Below(m))
    BY <1>4, <2>1, <2>2, FS_Subset
  <2> QED
    BY <1>4, <2>3
<1> QED
  BY <1>1, <1>3, <1>4, <1>5, <1>6 DEF Rank

\* The k-th of K exists, for every k up to the size of K, and later ones are
\* larger.
LEMMA NthProperties ==
    ASSUME NEW L \in Nat, NEW K \in SUBSET (1..L)
    PROVE  /\ Cardinality(K) \in Nat
           /\ \A k \in 1..Cardinality(K) : Nth(K, k) \in K /\ Rank(K, Nth(K, k)) = k
           /\ \A k, l \in 1..Cardinality(K) : k < l => Nth(K, k) < Nth(K, l)
           /\ \A n \in K : Rank(K, n) \in 1..Cardinality(K) /\ Nth(K, Rank(K, n)) = n
<1> DEFINE f == [n \in K |-> Rank(K, n)]
<1>1. /\ IsFiniteSet(K) /\ Cardinality(K) \in Nat
      /\ \A n \in K : Rank(K, n) \in 1..Cardinality(K)
      /\ \A m, n \in K : m < n => Rank(K, m) < Rank(K, n)
  BY RankProperties
<1>2. \A m, n \in K : m # n => Rank(K, m) # Rank(K, n)
  <2> SUFFICES ASSUME NEW m \in K, NEW n \in K, m # n PROVE Rank(K, m) # Rank(K, n)
    OBVIOUS
  <2>1. m \in Nat /\ n \in Nat /\ Rank(K, m) \in Nat /\ Rank(K, n) \in Nat
    BY <1>1
  <2>2. m < n \/ n < m
    BY <2>1
  <2> QED
    BY <1>1, <2>1, <2>2
<1>3. f \in [K -> 1..Cardinality(K)]
  BY <1>1
<1>4. \A m, n \in K : m # n => f[m] # f[n]
  BY <1>2
<1>5. \A k \in 1..Cardinality(K) : \E n \in K : f[n] = k
  <2> HIDE DEF f
  <2> QED
    BY <1>1, <1>3, <1>4, InjectionIntoSizeIsOnto
<1>6. \A k \in 1..Cardinality(K) : Nth(K, k) \in K /\ Rank(K, Nth(K, k)) = k
  BY <1>5 DEF Nth
<1>7. ASSUME NEW k \in 1..Cardinality(K), NEW l \in 1..Cardinality(K), k < l
      PROVE  Nth(K, k) < Nth(K, l)
  <2>1. /\ Nth(K, k) \in K /\ Nth(K, l) \in K /\ Nth(K, k) \in Nat /\ Nth(K, l) \in Nat
        /\ Rank(K, Nth(K, k)) = k /\ Rank(K, Nth(K, l)) = l
    BY <1>6, K \subseteq Nat
  <2>2. k \in Nat /\ l \in Nat
    BY <1>1
  <2> QED
    BY <1>1, <1>7, <2>1, <2>2
<1>8. \A n \in K : Rank(K, n) \in 1..Cardinality(K) /\ Nth(K, Rank(K, n)) = n
  BY <1>1, <1>2, <1>6
<1> QED
  BY <1>1, <1>6, <1>7, <1>8

\* Selecting the elements at K gives a vector of those elements, all of them,
\* in their old order.
LEMMA AtProperties ==
    ASSUME NEW S, NEW s \in Seq(S), NEW K \in SUBSET DOMAIN s
    PROVE  /\ At(s, K) \in Seq(S)
           /\ Len(At(s, K)) = Cardinality(K)
           /\ \A k \in DOMAIN At(s, K) : Nth(K, k) \in K /\ At(s, K)[k] = s[Nth(K, k)]
           /\ \A k, l \in DOMAIN At(s, K) : k < l => Nth(K, k) < Nth(K, l)
           /\ \A n \in K : \E k \in DOMAIN At(s, K) : Nth(K, k) = n
<1>1. /\ Len(s) \in Nat /\ DOMAIN s = 1..Len(s) /\ K \in SUBSET (1..Len(s))
      /\ \A n \in K : s[n] \in S
  OBVIOUS
<1> DEFINE c == Cardinality(K)
<1>2. /\ c \in Nat
      /\ \A k \in 1..c : Nth(K, k) \in K
      /\ \A k, l \in 1..c : k < l => Nth(K, k) < Nth(K, l)
      /\ \A n \in K : Rank(K, n) \in 1..c /\ Nth(K, Rank(K, n)) = n
  BY <1>1, NthProperties
<1>3. At(s, K) = [k \in 1..c |-> s[Nth(K, k)]]
  BY DEF At
<1> HIDE DEF c
<1>4. At(s, K) \in [1..c -> S]
  BY <1>1, <1>2, <1>3
<1>5. At(s, K) \in Seq(S) /\ Len(At(s, K)) = c /\ DOMAIN At(s, K) = 1..c
  BY <1>2, <1>4
<1> QED
  BY <1>2, <1>3, <1>5 DEF c

-----------------------------------------------------------------------------
(* Sorting *)

\* The elements of t are elements of s, no place of s taken twice.
DrawnFrom(t, s) ==
    /\ \A k \in DOMAIN t : \E m \in DOMAIN s : t[k] = s[m]
    /\ \A k, l \in DOMAIN t :
         k # l => \E m, n \in DOMAIN s : m # n /\ t[k] = s[m] /\ t[l] = s[n]

\* Selecting takes no place twice.
LEMMA AtDrawn ==
    ASSUME NEW S, NEW s \in Seq(S), NEW K \in SUBSET DOMAIN s
    PROVE  DrawnFrom(At(s, K), s)
<1> DEFINE t == At(s, K)
<1>1. /\ \A k \in DOMAIN t : Nth(K, k) \in K /\ t[k] = s[Nth(K, k)]
      /\ \A k, l \in DOMAIN t : k < l => Nth(K, k) < Nth(K, l)
      /\ t \in Seq(S)
  BY AtProperties
<1> HIDE DEF t
<1>2. ASSUME NEW k \in DOMAIN t, NEW l \in DOMAIN t, k # l
      PROVE  Nth(K, k) # Nth(K, l)
  <2>1. k < l \/ l < k
    BY <1>1, <1>2
  <2>2. Nth(K, k) \in Nat /\ Nth(K, l) \in Nat
    BY <1>1
  <2> QED
    BY <1>1, <2>1, <2>2
<1>3. \A k \in DOMAIN t : \E m \in DOMAIN s : t[k] = s[m]
  BY <1>1
<1>4. \A k, l \in DOMAIN t :
         k # l => \E m, n \in DOMAIN s : m # n /\ t[k] = s[m] /\ t[l] = s[n]
  BY <1>1, <1>2
<1> QED
  BY <1>3, <1>4 DEF DrawnFrom, t

\* Nor does sorting, whatever it makes of ties.
LEMMA SortingDrawn ==
    ASSUME NEW s, NEW Before(_, _), NEW t \in Sortings(s, Before)
    PROVE  DrawnFrom(t, s)
<1>1. PICK f \in Bijection(DOMAIN s, DOMAIN s) : t = [n \in DOMAIN s |-> s[f[n]]]
  BY DEF Sortings
<1>2. /\ \A n \in DOMAIN s : f[n] \in DOMAIN s
      /\ \A m, n \in DOMAIN s : m # n => f[m] # f[n]
  BY DEF Bijection, Injection, IsInjective
<1> QED
  BY <1>1, <1>2 DEF DrawnFrom

\* Every result of std::sort is a sorted vector of the same length.
LEMMA SortingsType ==
    ASSUME NEW S, NEW s \in Seq(S), NEW f \in Bijection(DOMAIN s, DOMAIN s)
    PROVE  LET t == [n \in DOMAIN s |-> s[f[n]]]
           IN  t \in Seq(S) /\ Len(t) = Len(s)
<1>1. Len(s) \in Nat /\ DOMAIN s = 1..Len(s) /\ s \in [1..Len(s) -> S]
  OBVIOUS
<1>2. f \in [DOMAIN s -> DOMAIN s]
  BY DEF Bijection, Injection
<1>3. [n \in DOMAIN s |-> s[f[n]]] \in [1..Len(s) -> S]
  BY <1>1, <1>2
<1> QED
  BY <1>1, <1>3

\* The places of the elements in the sort by time are 1..Len(s), each once, and
\* earlier elements come first.
LEMMA PlaceProperties ==
    ASSUME NEW s \in Seq(Entry)
    PROVE  LET P(n) == StablePlace(s, comapreByTimestamp, n) IN
           /\ \A n \in DOMAIN s : P(n) \in 1..Len(s)
           /\ \A m, n \in DOMAIN s : s[m].timestamp < s[n].timestamp => P(m) < P(n)
           /\ \A m, n \in DOMAIN s : m # n => P(m) # P(n)
<1> DEFINE P(n) == StablePlace(s, comapreByTimestamp, n)
           Upto(n) == {m \in DOMAIN s : \/ s[m].timestamp < s[n].timestamp
                                        \/ m <= n /\ ~(s[n].timestamp < s[m].timestamp)}
           Precedes(m, n) == \/ s[m].timestamp < s[n].timestamp
                             \/ s[m].timestamp = s[n].timestamp /\ m < n
<1>1. /\ Len(s) \in Nat /\ DOMAIN s = 1..Len(s)
      /\ \A n \in DOMAIN s : n \in Nat /\ s[n].timestamp \in Nat
  <2>1. \A n \in DOMAIN s : s[n] \in Entry
    OBVIOUS
  <2> QED
    BY <2>1 DEF Entry
<1>2. \A n \in DOMAIN s : P(n) = Cardinality(Upto(n))
  BY DEF StablePlace, comapreByTimestamp
<1>3. IsFiniteSet(DOMAIN s) /\ Cardinality(DOMAIN s) = Len(s)
  BY <1>1, FS_Interval
<1>4. \A n \in DOMAIN s : /\ IsFiniteSet(Upto(n)) /\ Cardinality(Upto(n)) \in Nat
                          /\ Cardinality(Upto(n)) <= Len(s)
  BY <1>3, FS_Subset, FS_CardinalityType
<1>5. \A n \in DOMAIN s : n \in Upto(n)
  BY <1>1
<1>6. \A n \in DOMAIN s : Cardinality(Upto(n)) # 0
  BY <1>4, <1>5, FS_EmptySet
<1>7. ASSUME NEW m \in DOMAIN s, NEW n \in DOMAIN s, Precedes(m, n)
      PROVE  Cardinality(Upto(m)) < Cardinality(Upto(n))
  <2>1. Upto(m) \subseteq Upto(n)
    <3> SUFFICES ASSUME NEW x \in Upto(m) PROVE x \in Upto(n)
      OBVIOUS
    <3>1. x \in DOMAIN s /\ x \in Nat /\ s[x].timestamp \in Nat
      BY <1>1
    <3>2. /\ m \in Nat /\ n \in Nat
          /\ s[m].timestamp \in Nat /\ s[n].timestamp \in Nat
      BY <1>1
    <3>3. CASE s[x].timestamp < s[m].timestamp
      BY <1>7, <3>1, <3>2, <3>3
    <3>4. CASE x <= m /\ ~(s[m].timestamp < s[x].timestamp)
      BY <1>7, <3>1, <3>2, <3>4
    <3> QED
      BY <3>3, <3>4
  <2>2. n \notin Upto(m)
    BY <1>1, <1>7
  <2>3. Upto(m) # Upto(n)
    BY <1>5, <2>2
  <2>4. /\ Cardinality(Upto(m)) <= Cardinality(Upto(n))
        /\ Cardinality(Upto(n)) # Cardinality(Upto(m))
    BY <1>4, <2>1, <2>3, FS_Subset
  <2>5. Cardinality(Upto(m)) \in Nat /\ Cardinality(Upto(n)) \in Nat
    BY <1>4
  <2> HIDE DEF Upto
  <2> QED
    BY <2>4, <2>5
<1>8. \A n \in DOMAIN s : P(n) \in 1..Len(s)
  <2> HIDE DEF Upto, P
  <2> QED
    BY <1>1, <1>2, <1>4, <1>6
<1>9. \A m, n \in DOMAIN s : s[m].timestamp < s[n].timestamp => P(m) < P(n)
  BY <1>2, <1>7
<1>10. ASSUME NEW m \in DOMAIN s, NEW n \in DOMAIN s, m # n
       PROVE  P(m) # P(n)
  <2>1. Precedes(m, n) \/ Precedes(n, m)
    BY <1>1, <1>10
  <2>2. P(m) < P(n) \/ P(n) < P(m)
    BY <1>2, <1>7, <2>1
  <2> QED
    BY <1>1, <1>8, <2>2
<1> QED
  BY <1>8, <1>9, <1>10

\* insertOrder's sort: the result has the same elements and is in time order.
LEMMA StableSortProperties ==
    ASSUME NEW s \in Seq(Entry)
    PROVE  LET t == StableSort(s, comapreByTimestamp)
           IN  /\ t \in Seq(Entry) /\ Len(t) = Len(s)
               /\ IsSortedBy(t, comapreByTimestamp)
               /\ \A k \in DOMAIN t : \E n \in DOMAIN s : t[k] = s[n]
               /\ \A n \in DOMAIN s : \E k \in DOMAIN t : t[k] = s[n]
               /\ DrawnFrom(t, s)
<1> DEFINE P(n) == StablePlace(s, comapreByTimestamp, n)
           t == StableSort(s, comapreByTimestamp)
           From(k) == CHOOSE n \in DOMAIN s : P(n) = k
           f == [n \in DOMAIN s |-> P(n)]
<1>1. /\ Len(s) \in Nat /\ DOMAIN s = 1..Len(s)
      /\ IsFiniteSet(DOMAIN s) /\ Cardinality(DOMAIN s) = Len(s)
  <2>1. Len(s) \in Nat /\ DOMAIN s = 1..Len(s)
    OBVIOUS
  <2> QED
    BY <2>1, FS_Interval
<1>2. /\ \A n \in DOMAIN s : P(n) \in 1..Len(s)
      /\ \A m, n \in DOMAIN s : s[m].timestamp < s[n].timestamp => P(m) < P(n)
      /\ \A m, n \in DOMAIN s : m # n => P(m) # P(n)
  BY PlaceProperties
<1> HIDE DEF P
<1>3. f \in [DOMAIN s -> 1..Cardinality(DOMAIN s)]
  BY <1>1, <1>2
<1>4. \A m, n \in DOMAIN s : m # n => f[m] # f[n]
  BY <1>2
<1>5. \A k \in DOMAIN s : \E n \in DOMAIN s : P(n) = k
  <2>1. \A k \in 1..Cardinality(DOMAIN s) : \E n \in DOMAIN s : f[n] = k
    <3> HIDE DEF f
    <3> QED
      BY <1>1, <1>3, <1>4, InjectionIntoSizeIsOnto
  <2> QED
    BY <1>1, <2>1
<1>6. \A k \in DOMAIN s : From(k) \in DOMAIN s /\ P(From(k)) = k
  BY <1>5
<1>7. t = [k \in DOMAIN s |-> s[From(k)]]
  BY DEF StableSort, P
<1> HIDE DEF From, t
<1>8. t \in [1..Len(s) -> Entry]
  BY <1>1, <1>6, <1>7
<1>9. t \in Seq(Entry) /\ Len(t) = Len(s) /\ DOMAIN t = DOMAIN s
  BY <1>1, <1>8
<1>10. IsSortedBy(t, comapreByTimestamp)
  <2> SUFFICES ASSUME NEW k \in DOMAIN t, NEW l \in DOMAIN t, k < l,
                      t[l].timestamp < t[k].timestamp
               PROVE  FALSE
    BY DEF IsSortedBy, comapreByTimestamp
  <2>1. /\ From(k) \in DOMAIN s /\ P(From(k)) = k
        /\ From(l) \in DOMAIN s /\ P(From(l)) = l
        /\ s[From(l)].timestamp < s[From(k)].timestamp
    BY <1>6, <1>7, <1>9
  <2>2. l < k
    BY <1>2, <2>1
  <2> QED
    BY <1>1, <1>9, <2>2
<1>11. \A k \in DOMAIN t : \E n \in DOMAIN s : t[k] = s[n]
  BY <1>6, <1>7, <1>9
<1>12. ASSUME NEW n \in DOMAIN s PROVE \E k \in DOMAIN t : t[k] = s[n]
  <2>1. P(n) \in DOMAIN s /\ From(P(n)) = n
    BY <1>1, <1>2, <1>6
  <2> QED
    BY <1>7, <1>9, <2>1
<1>13. \A k, l \in DOMAIN t :
         k # l => \E m, n \in DOMAIN s : m # n /\ t[k] = s[m] /\ t[l] = s[n]
  <2>1. \A k, l \in DOMAIN t : k # l => From(k) # From(l)
    BY <1>6, <1>9
  <2> QED
    BY <1>6, <1>7, <1>9, <2>1
<1>14. DrawnFrom(t, s)
  BY <1>11, <1>13 DEF DrawnFrom
<1> QED
  BY <1>9, <1>10, <1>11, <1>12, <1>14 DEF t

-----------------------------------------------------------------------------
(* The matching loop *)

\* A sale between two orders is a Sale.
LEMMA SaleOfType ==
    ASSUME NEW a \in Entry, NEW b \in Entry, NEW v \in Int
    PROVE  SaleOf(a, b, v) \in Sale
BY DEF SaleOf, Sale, Entry, User

\* The fields of an order of a vector that the loop works with.
LEMMA OrderFields ==
    ASSUME NEW s \in Seq(Entry), NEW n \in DOMAIN s
    PROVE  s[n] \in Entry /\ s[n].price \in Int /\ s[n].amount \in Int
<1>1. s[n] \in Entry
  OBVIOUS
<1> QED
  BY <1>1 DEF Entry

\* Changing the amount of one order keeps the vector's type, length and prices.
LEMMA AmountUpdate ==
    ASSUME NEW s \in Seq(Entry), NEW n \in DOMAIN s, NEW v \in Int
    PROVE  LET t == [s EXCEPT ![n].amount = v]
           IN  /\ t \in Seq(Entry)
               /\ Len(t) = Len(s) /\ DOMAIN t = DOMAIN s
               /\ \A m \in DOMAIN s : /\ t[m].price = s[m].price
                                      /\ t[m].amount = IF m = n THEN v ELSE s[m].amount
                                      /\ t[m].id = s[m].id
                                      /\ t[m].username = s[m].username
<1> DEFINE t == [s EXCEPT ![n].amount = v]
<1>1. s \in [1..Len(s) -> Entry] /\ DOMAIN s = 1..Len(s) /\ Len(s) \in Nat
  OBVIOUS
<1>2. [s[n] EXCEPT !.amount = v] \in Entry
  BY <1>1 DEF Entry
<1>3. t = [m \in 1..Len(s) |-> IF m = n THEN [s[n] EXCEPT !.amount = v] ELSE s[m]]
  BY <1>1
<1>4. t \in [1..Len(s) -> Entry]
  BY <1>1, <1>2, <1>3
<1>5. t \in Seq(Entry) /\ Len(t) = Len(s) /\ DOMAIN t = DOMAIN s
  BY <1>1, <1>4
<1>6. ASSUME NEW m \in DOMAIN s
      PROVE  /\ t[m].price = s[m].price
             /\ t[m].amount = IF m = n THEN v ELSE s[m].amount
             /\ t[m].id = s[m].id
             /\ t[m].username = s[m].username
  <2>1. s[m] \in Entry /\ m \in 1..Len(s)
    BY <1>1
  <2>2. CASE m = n
    BY <1>3, <2>1, <2>2 DEF Entry
  <2>3. CASE m # n
    BY <1>3, <2>1, <2>3
  <2> QED
    BY <2>2, <2>3
<1> QED
  BY <1>5, <1>6

\* Being in price order depends on the prices only.
LEMMA SortedByPrices ==
    ASSUME NEW s, NEW t, DOMAIN t = DOMAIN s,
           \A m \in DOMAIN s : t[m].price = s[m].price
    PROVE  /\ IsSortedBy(s, comapreByPriceAsc) => IsSortedBy(t, comapreByPriceAsc)
           /\ IsSortedBy(s, comapreByPriceDesc) => IsSortedBy(t, comapreByPriceDesc)
BY DEF IsSortedBy, comapreByPriceAsc, comapreByPriceDesc

-----------------------------------------------------------------------------
(* The loop invariant *)

\* The loop invariant holds when the loop starts.
LEMMA LoopInvInit == MatchInit => LoopInv
<1> SUFFICES ASSUME MatchInit PROVE LoopInv
  OBVIOUS
<1>1. MatchTypeOK
  <2>1. sales \in Seq(Sale)
    BY DEF MatchInit, LoopStart
  <2>2. Len(asks) \in Nat /\ Len(bids) \in Nat
    BY DEF MatchInit
  <2>3. i \in 1..Len(asks) + 1 /\ j \in 0..Len(bids) + 1
    BY <2>2 DEF MatchInit, LoopStart
  <2>4. returned \in BOOLEAN
    BY DEF MatchInit, LoopStart
  <2> QED
    BY <2>1, <2>3, <2>4 DEF MatchInit, MatchTypeOK
<1>2. LoopPosition /\ PassedAsks /\ PassedBids
  BY <1>1 DEF MatchTypeOK, MatchInit, LoopStart, LoopPosition, PassedAsks, PassedBids, Live
<1> QED
  BY <1>1, <1>2 DEF MatchInit, LoopInv

\* A fill takes both orders down to smaller amounts and appends a sale.
LEMMA FillStep ==
    ASSUME LoopInv, AtCross, UNCHANGED returned,
           NEW v \in Int, NEW w \in Int, NEW x \in Int,
           v <= asks[i].amount, w <= bids[j].amount,
           asks' = [asks EXCEPT ![i].amount = v],
           bids' = [bids EXCEPT ![j].amount = w],
           sales' = Append(sales, SaleOf(asks[i], bids[j], x))
    PROVE  /\ asks' \in Seq(Entry) /\ bids' \in Seq(Entry) /\ sales' \in Seq(Sale)
           /\ Len(asks') = Len(asks) /\ Len(bids') = Len(bids)
           /\ IsSortedBy(asks', comapreByPriceAsc)
           /\ IsSortedBy(bids', comapreByPriceDesc)
           /\ Live(asks') \subseteq Live(asks) /\ Live(bids') \subseteq Live(bids)
           /\ v <= 0 <=> i \notin Live(asks')
           /\ w <= 0 => j \notin Live(bids')
           /\ \A m \in DOMAIN asks, n \in DOMAIN bids :
                Crosses(asks'[m], bids'[n]) <=> Crosses(asks[m], bids[n])
<1> USE DEF LoopInv, MatchTypeOK, AtCross, AtBid
<1>1. asks \in Seq(Entry) /\ i \in DOMAIN asks /\ bids \in Seq(Entry) /\ j \in DOMAIN bids
  OBVIOUS
<1>2. /\ asks' \in Seq(Entry)
      /\ Len(asks') = Len(asks) /\ DOMAIN asks' = DOMAIN asks
      /\ \A m \in DOMAIN asks :
            /\ asks'[m].price = asks[m].price
            /\ asks'[m].amount = IF m = i THEN v ELSE asks[m].amount
  BY <1>1, AmountUpdate
<1>3. /\ bids' \in Seq(Entry)
      /\ Len(bids') = Len(bids) /\ DOMAIN bids' = DOMAIN bids
      /\ \A n \in DOMAIN bids :
            /\ bids'[n].price = bids[n].price
            /\ bids'[n].amount = IF n = j THEN w ELSE bids[n].amount
  BY <1>1, AmountUpdate
<1>4. sales' \in Seq(Sale)
  <2>1. asks[i] \in Entry /\ bids[j] \in Entry
    BY <1>1
  <2> QED
    BY <2>1, SaleOfType
<1>5. IsSortedBy(asks', comapreByPriceAsc) /\ IsSortedBy(bids', comapreByPriceDesc)
  BY <1>2, <1>3, SortedByPrices
<1>6. Live(asks') \subseteq Live(asks) /\ (v <= 0 <=> i \notin Live(asks'))
  <2>1. \A m \in DOMAIN asks : asks[m].amount \in Int
    BY <1>1, OrderFields
  <2> QED
    BY <1>1, <1>2, <2>1 DEF Live
<1>7. Live(bids') \subseteq Live(bids) /\ (w <= 0 => j \notin Live(bids'))
  <2>1. \A n \in DOMAIN bids : bids[n].amount \in Int
    BY <1>1, OrderFields
  <2> QED
    BY <1>1, <1>3, <2>1 DEF Live
<1>8. \A m \in DOMAIN asks, n \in DOMAIN bids :
         Crosses(asks'[m], bids'[n]) <=> Crosses(asks[m], bids[n])
  BY <1>2, <1>3 DEF Crosses
<1> QED
  BY <1>2, <1>3, <1>4, <1>5, <1>6, <1>7, <1>8

\* The three ways to fill, seen as what they do to the two amounts.
LEMMA FillCases ==
    ASSUME LoopInv, FillEqual \/ FillAsk \/ FillBid
    PROVE  \E v, w, x \in Int :
             /\ v <= asks[i].amount /\ w <= bids[j].amount
             /\ x = asks[i].amount - v /\ x = bids[j].amount - w
             /\ v >= 0 /\ w >= 0 /\ x > 0
             /\ asks' = [asks EXCEPT ![i].amount = v]
             /\ bids' = [bids EXCEPT ![j].amount = w]
             /\ sales' = Append(sales, SaleOf(asks[i], bids[j], x))
             /\ \/ v = 0 /\ BreakToNextAsk
                \/ v > 0 /\ w = 0 /\ NextBid
<1> DEFINE a == asks[i].amount
           b == bids[j].amount
<1>1. AtCross
  BY DEF FillEqual, FillAsk, FillBid
<1>2. a \in Int /\ b \in Int /\ a > 0 /\ b > 0
  <2>1. /\ asks \in Seq(Entry) /\ i \in DOMAIN asks /\ bids \in Seq(Entry)
        /\ j \in DOMAIN bids /\ b > 0 /\ (j > 0 => i \in Live(asks))
    BY <1>1 DEF AtCross, AtBid, LoopInv, MatchTypeOK, LoopPosition
  <2>2. a \in Int /\ b \in Int
    BY <2>1, OrderFields
  <2>3. j > 0
    BY <2>1
  <2> QED
    BY <2>1, <2>2, <2>3 DEF Live
<1>3. CASE FillEqual
  <2> USE <1>2
  <2> WITNESS 0 \in Int, 0 \in Int, a \in Int
  <2> QED BY <1>2, <1>3 DEF FillEqual
<1>4. CASE FillAsk
  <2> USE <1>2
  <2>1. b - a \in Int
    BY <1>2
  <2> WITNESS 0 \in Int, b - a \in Int, a \in Int
  <2> QED BY <1>2, <1>4 DEF FillAsk
<1>5. CASE FillBid
  <2> USE <1>2
  <2>1. a - b \in Int
    BY <1>2
  <2> WITNESS a - b \in Int, 0 \in Int, b \in Int
  <2> QED BY <1>2, <1>5 DEF FillBid
<1> QED
  BY <1>3, <1>4, <1>5

\* Leaving the current ask for the next keeps the invariant if that ask is
\* dead or crosses no live bid.
LEMMA BreakStep ==
    ASSUME LoopInv, BreakToNextAsk, UNCHANGED returned, ~returned, i \in DOMAIN asks,
           asks' \in Seq(Entry), bids' \in Seq(Entry), sales' \in Seq(Sale),
           Len(asks') = Len(asks), Len(bids') = Len(bids),
           IsSortedBy(asks', comapreByPriceAsc), IsSortedBy(bids', comapreByPriceDesc),
           Live(asks') \subseteq Live(asks), Live(bids') \subseteq Live(bids),
           \A m \in DOMAIN asks, n \in DOMAIN bids :
              Crosses(asks'[m], bids'[n]) <=> Crosses(asks[m], bids[n]),
           \A n \in Live(bids') : i \in Live(asks') => ~Crosses(asks[i], bids[n])
    PROVE  LoopInv'
<1>1. /\ i \in 1..Len(asks) /\ Len(asks) \in Nat /\ Len(bids) \in Nat
      /\ i' = i + 1 /\ j' = 0
  BY DEF LoopInv, MatchTypeOK, BreakToNextAsk
<1>2. MatchTypeOK'
  <2>1. i' \in 1..Len(asks') + 1 /\ j' \in 0..Len(bids') + 1
    BY <1>1
  <2>2. returned' \in BOOLEAN
    BY DEF LoopInv, MatchTypeOK
  <2> QED
    BY <2>1, <2>2 DEF MatchTypeOK
<1>3. LoopPosition'
  BY <1>1 DEF LoopPosition
<1>4. PassedAsks'
  <2> SUFFICES ASSUME NEW m \in Live(asks'), NEW n \in Live(bids'), m < i + 1
               PROVE  ~Crosses(asks'[m], bids'[n])
    BY <1>1 DEF PassedAsks
  <2>1. m \in Live(asks) /\ n \in Live(bids) /\ m \in DOMAIN asks /\ n \in DOMAIN bids
    BY DEF Live
  <2>2. m \in Nat
    BY <2>1 DEF LoopInv, MatchTypeOK
  <2>3. CASE m < i
    BY <2>1, <2>3 DEF LoopInv, PassedAsks
  <2>4. CASE m = i
    BY <2>1, <2>4
  <2> QED
    BY <1>1, <2>2, <2>3, <2>4
<1>5. PassedBids'
  <2>1. \A n \in DOMAIN bids' : n >= 1
    OBVIOUS
  <2> QED
    BY <1>1, <2>1 DEF PassedBids, Live
<1> QED
  BY <1>2, <1>3, <1>4, <1>5 DEF LoopInv

\* Going on to the next bid keeps the invariant if the current one is dead or
\* does not cross the ask, and the ask is live.
LEMMA NextBidStep ==
    ASSUME LoopInv, NextBid, UNCHANGED returned, ~returned,
           i \in DOMAIN asks, j \in 0..Len(bids),
           asks' \in Seq(Entry), bids' \in Seq(Entry), sales' \in Seq(Sale),
           Len(asks') = Len(asks), Len(bids') = Len(bids),
           IsSortedBy(asks', comapreByPriceAsc), IsSortedBy(bids', comapreByPriceDesc),
           Live(asks') \subseteq Live(asks), Live(bids') \subseteq Live(bids),
           \A m \in DOMAIN asks, n \in DOMAIN bids :
              Crosses(asks'[m], bids'[n]) <=> Crosses(asks[m], bids[n]),
           i \in Live(asks'),
           j \in Live(bids') => ~Crosses(asks[i], bids[j])
    PROVE  LoopInv'
<1>1. /\ i \in 1..Len(asks) /\ Len(asks) \in Nat /\ Len(bids) \in Nat
      /\ i' = i /\ j' = j + 1
  BY DEF LoopInv, MatchTypeOK, NextBid
<1>2. MatchTypeOK'
  <2>1. i' \in 1..Len(asks') + 1 /\ j' \in 0..Len(bids') + 1
    BY <1>1
  <2>2. returned' \in BOOLEAN
    BY DEF LoopInv, MatchTypeOK
  <2> QED
    BY <2>1, <2>2 DEF MatchTypeOK
<1>3. LoopPosition'
  BY <1>1 DEF LoopPosition
<1>4. PassedAsks'
  <2> SUFFICES ASSUME NEW m \in Live(asks'), NEW n \in Live(bids'), m < i
               PROVE  ~Crosses(asks'[m], bids'[n])
    BY <1>1 DEF PassedAsks
  <2>1. m \in Live(asks) /\ n \in Live(bids) /\ m \in DOMAIN asks /\ n \in DOMAIN bids
    BY DEF Live
  <2> QED
    BY <2>1 DEF LoopInv, PassedAsks
<1>5. PassedBids'
  <2> SUFFICES ASSUME NEW n \in Live(bids'), n < j + 1
               PROVE  ~Crosses(asks'[i], bids'[n])
    BY <1>1 DEF PassedBids
  <2>1. n \in Live(bids) /\ n \in DOMAIN bids /\ n \in Nat
    BY DEF Live
  <2>2. CASE n < j
    BY <2>1, <2>2 DEF LoopInv, PassedBids
  <2>3. CASE n = j
    BY <2>1, <2>3
  <2> QED
    BY <1>1, <2>1, <2>2, <2>3
<1> QED
  BY <1>2, <1>3, <1>4, <1>5 DEF LoopInv

\* Every step of the loop keeps its invariant.
LEMMA LoopInvStep == LoopInv /\ [MatchNext]_matchVars => LoopInv'
<1> SUFFICES ASSUME LoopInv, [MatchNext]_matchVars PROVE LoopInv'
  OBVIOUS
<1>1. /\ asks \in Seq(Entry) /\ bids \in Seq(Entry) /\ sales \in Seq(Sale)
      /\ Len(asks) \in Nat /\ Len(bids) \in Nat
      /\ IsSortedBy(asks, comapreByPriceAsc) /\ IsSortedBy(bids, comapreByPriceDesc)
  BY DEF LoopInv, MatchTypeOK
<1>2. ASSUME UNCHANGED <<asks, bids, sales, returned>>
      PROVE  /\ asks' \in Seq(Entry) /\ bids' \in Seq(Entry) /\ sales' \in Seq(Sale)
             /\ Len(asks') = Len(asks) /\ Len(bids') = Len(bids)
             /\ IsSortedBy(asks', comapreByPriceAsc)
             /\ IsSortedBy(bids', comapreByPriceDesc)
             /\ Live(asks') = Live(asks) /\ Live(bids') = Live(bids)
             /\ \A m \in DOMAIN asks, n \in DOMAIN bids :
                  Crosses(asks'[m], bids'[n]) <=> Crosses(asks[m], bids[n])
  BY <1>1, <1>2 DEF IsSortedBy
<1>3. CASE OuterSkip
  <2>1. i \notin Live(asks)
    BY <1>1, <1>3, OrderFields DEF OuterSkip, AtAsk, Live
  <2> QED
    BY <1>2, <1>3, <2>1, BreakStep DEF OuterSkip, AtAsk
<1>4. CASE OuterEnter
  <2>1. i \in Live(asks) /\ j \in 0..Len(bids)
    BY <1>1, <1>4 DEF OuterEnter, AtAsk, Live
  <2>2. j \notin Live(bids)
    BY <1>1, <1>4 DEF OuterEnter, AtAsk, Live
  <2> QED
    BY <1>2, <1>4, <2>1, <2>2, NextBidStep DEF OuterEnter, AtAsk
<1>5. CASE InnerEnd
  <2>1. \A n \in Live(bids) : ~Crosses(asks[i], bids[n])
    <3>1. \A n \in Live(bids) : n < j
      BY <1>1, <1>5 DEF InnerEnd, Live
    <3> QED
      BY <1>5, <3>1 DEF LoopInv, PassedBids, InnerEnd
  <2> QED
    BY <1>2, <1>5, <2>1, BreakStep DEF InnerEnd
<1>6. CASE InnerSkip
  <2>1. i \in Live(asks) /\ j \in 0..Len(bids)
    BY <1>1, <1>6 DEF InnerSkip, AtBid, LoopInv, LoopPosition
  <2>2. j \in Live(bids) => ~Crosses(asks[i], bids[j])
    BY <1>1, <1>6, OrderFields DEF InnerSkip, AtBid, Live
  <2> QED
    BY <1>2, <1>6, <2>1, <2>2, NextBidStep DEF InnerSkip, AtBid
<1>7. CASE FillEqual \/ FillAsk \/ FillBid
  <2>1. PICK v, w, x \in Int :
          /\ v <= asks[i].amount /\ w <= bids[j].amount
          /\ x = asks[i].amount - v /\ x = bids[j].amount - w
          /\ v >= 0 /\ w >= 0 /\ x > 0
          /\ asks' = [asks EXCEPT ![i].amount = v]
          /\ bids' = [bids EXCEPT ![j].amount = w]
          /\ sales' = Append(sales, SaleOf(asks[i], bids[j], x))
          /\ \/ v = 0 /\ BreakToNextAsk
             \/ v > 0 /\ w = 0 /\ NextBid
    BY <1>7, FillCases
  <2>2. AtCross /\ UNCHANGED returned
    BY <1>7 DEF FillEqual, FillAsk, FillBid
  <2>3. /\ asks' \in Seq(Entry) /\ bids' \in Seq(Entry) /\ sales' \in Seq(Sale)
        /\ Len(asks') = Len(asks) /\ Len(bids') = Len(bids)
        /\ IsSortedBy(asks', comapreByPriceAsc)
        /\ IsSortedBy(bids', comapreByPriceDesc)
        /\ Live(asks') \subseteq Live(asks) /\ Live(bids') \subseteq Live(bids)
        /\ v <= 0 <=> i \notin Live(asks')
        /\ w <= 0 => j \notin Live(bids')
        /\ \A m \in DOMAIN asks, n \in DOMAIN bids :
             Crosses(asks'[m], bids'[n]) <=> Crosses(asks[m], bids[n])
    BY <2>1, <2>2, FillStep
  <2>4. ~returned /\ i \in DOMAIN asks /\ j \in DOMAIN bids
    BY <2>2 DEF AtCross, AtBid
  <2>5. CASE v = 0 /\ BreakToNextAsk
    <3>1. i \notin Live(asks')
      BY <2>3, <2>5
    <3> QED
      BY <2>2, <2>3, <2>4, <2>5, <3>1, BreakStep
  <2>6. CASE v > 0 /\ w = 0 /\ NextBid
    <3>1. j \notin Live(bids') /\ i \in Live(asks') /\ j \in 0..Len(bids)
      BY <1>1, <2>3, <2>4, <2>6
    <3> QED
      BY <2>2, <2>3, <2>4, <2>6, <3>1, NextBidStep
  <2> QED
    BY <2>1, <2>5, <2>6
<1>8. CASE Return
  BY <1>1, <1>8 DEF Return, LoopsDone, LoopInv, MatchTypeOK, LoopPosition, PassedAsks,
                    PassedBids, IsSortedBy, Live
<1>9. CASE UNCHANGED matchVars
  BY <1>9 DEF matchVars, LoopInv, MatchTypeOK, LoopPosition, PassedAsks, PassedBids,
              IsSortedBy, Live
<1> QED
  BY <1>3, <1>4, <1>5, <1>6, <1>7, <1>8, <1>9 DEF MatchNext, LoopStep

\* The loop invariant of OrderBook.cpp:123-171 holds throughout, on vectors of
\* any length with any prices and amounts, negative and zero ones included.
THEOREM LoopInvariant == MatchSpec => []LoopInv
<1>1. LoopInv /\ UNCHANGED matchVars => LoopInv'
  BY LoopInvStep
<1> QED
  BY LoopInvInit, LoopInvStep, PTL DEF MatchSpec

\* The loop's variables keep their types; the iterators stay in range, one past
\* the end included.
THEOREM MatchTypeCorrect == MatchSpec => []MatchTypeOK
<1>1. LoopInv => MatchTypeOK
  BY DEF LoopInv
<1> QED
  BY <1>1, LoopInvariant, PTL

\* Where the loop has returned, its invariant leaves nothing crossed.
LEMMA ReturnedUncrossed == LoopInv => UncrossedOnReturn
<1> SUFFICES ASSUME LoopInv, returned, NEW m \in Live(asks), NEW n \in Live(bids)
             PROVE  ~Crosses(asks[m], bids[n])
  BY DEF UncrossedOnReturn
<1>1. m < i
  BY DEF LoopInv, MatchTypeOK, LoopPosition, Live
<1> QED
  BY <1>1 DEF LoopInv, PassedAsks

\* When matchAsksToBids leaves its loops, no live ask and live bid cross.
THEOREM UncrossedWhenReturned == MatchSpec => []UncrossedOnReturn
BY LoopInvariant, ReturnedUncrossed, PTL

-----------------------------------------------------------------------------
(* The loop implements Clearing. *)

\* The trades of the sales with one more are the trades before with one more.
LEMMA TradedAppend ==
    ASSUME NEW s \in Seq(Sale), NEW x \in Sale
    PROVE  [k \in DOMAIN Append(s, x) |-> TradeOf(Append(s, x)[k])]
             = Append([k \in DOMAIN s |-> TradeOf(s[k])], TradeOf(x))
<1> DEFINE t == Append(s, x)
           u == [k \in DOMAIN s |-> TradeOf(s[k])]
<1>1. /\ Len(s) \in Nat /\ DOMAIN s = 1..Len(s) /\ DOMAIN t = 1..Len(s) + 1
      /\ \A k \in 1..Len(s) : t[k] = s[k]
      /\ t[Len(s) + 1] = x
  OBVIOUS
<1>2. u \in Seq({TradeOf(s[k]) : k \in DOMAIN s}) /\ Len(u) = Len(s)
  BY <1>1
<1>3. /\ DOMAIN Append(u, TradeOf(x)) = 1..Len(s) + 1
      /\ \A k \in 1..Len(s) : Append(u, TradeOf(x))[k] = TradeOf(s[k])
      /\ Append(u, TradeOf(x))[Len(s) + 1] = TradeOf(x)
  BY <1>1, <1>2
<1> QED
  BY <1>1, <1>3

\* Where the loop trades, ask and bid are the best live ones.
LEMMA BestAtCross ==
    ASSUME LoopInv, AtCross
    PROVE  Promise!BestAsk(i) /\ Promise!BestBid(j)
<1>1. /\ asks \in Seq(Entry) /\ i \in DOMAIN asks /\ i \in Live(asks)
      /\ bids \in Seq(Entry) /\ j \in DOMAIN bids /\ j \in Live(bids)
      /\ Crosses(asks[i], bids[j])
  <2>1. j > 0
    BY DEF LoopInv, MatchTypeOK, AtCross, AtBid
  <2> QED
    BY <2>1 DEF LoopInv, MatchTypeOK, LoopPosition, AtCross, AtBid, Live
<1>2. ASSUME NEW k \in Live(asks) PROVE asks[i].price <= asks[k].price
  <2>1. k \in DOMAIN asks /\ k \in Nat /\ i \in Nat
    BY <1>1 DEF Live
  <2>2. asks[i].price \in Int /\ asks[k].price \in Int /\ bids[j].price \in Int
    BY <1>1, <2>1, OrderFields
  <2>3. CASE k < i
    <3>1. ~Crosses(asks[k], bids[j])
      BY <1>1, <2>3 DEF LoopInv, PassedAsks
    <3> QED
      BY <1>1, <2>2, <3>1 DEF Crosses
  <2>4. CASE i < k
    BY <1>1, <2>1, <2>2, <2>4 DEF LoopInv, IsSortedBy, comapreByPriceAsc
  <2>5. CASE i = k
    BY <2>2, <2>5
  <2> QED
    BY <2>1, <2>3, <2>4, <2>5
<1>3. ASSUME NEW k \in Live(bids) PROVE bids[j].price >= bids[k].price
  <2>1. k \in DOMAIN bids /\ k \in Nat /\ j \in Nat
    BY <1>1 DEF Live
  <2>2. asks[i].price \in Int /\ bids[k].price \in Int /\ bids[j].price \in Int
    BY <1>1, <2>1, OrderFields
  <2>3. CASE k < j
    <3>1. ~Crosses(asks[i], bids[k])
      BY <1>1, <2>3 DEF LoopInv, PassedBids
    <3> QED
      BY <1>1, <2>2, <3>1 DEF Crosses
  <2>4. CASE j < k
    BY <1>1, <2>1, <2>2, <2>4 DEF LoopInv, IsSortedBy, comapreByPriceDesc
  <2>5. CASE j = k
    BY <2>2, <2>5
  <2> QED
    BY <2>1, <2>3, <2>4, <2>5
<1>4. Promise!Live(asks) = Live(asks) /\ Promise!Live(bids) = Live(bids)
  BY DEF Live, Promise!Live
<1> QED
  BY <1>1, <1>2, <1>3, <1>4 DEF Promise!BestAsk, Promise!BestBid

\* A fill is a trade of the abstract specification.
LEMMA FillImplementsTrade ==
    ASSUME LoopInv, FillEqual \/ FillAsk \/ FillBid
    PROVE  Promise!Trade(i, j)
<1>1. PICK v, w, x \in Int :
          /\ v <= asks[i].amount /\ w <= bids[j].amount
          /\ x = asks[i].amount - v /\ x = bids[j].amount - w
          /\ v >= 0 /\ w >= 0 /\ x > 0
          /\ asks' = [asks EXCEPT ![i].amount = v]
          /\ bids' = [bids EXCEPT ![j].amount = w]
          /\ sales' = Append(sales, SaleOf(asks[i], bids[j], x))
          /\ \/ v = 0 /\ BreakToNextAsk
             \/ v > 0 /\ w = 0 /\ NextBid
  BY FillCases
<1>2. AtCross /\ ~returned /\ UNCHANGED returned
  BY DEF FillEqual, FillAsk, FillBid, AtCross, AtBid
<1>3. /\ asks \in Seq(Entry) /\ i \in DOMAIN asks /\ bids \in Seq(Entry)
      /\ j \in DOMAIN bids /\ sales \in Seq(Sale) /\ Crosses(asks[i], bids[j])
  BY <1>2 DEF LoopInv, MatchTypeOK, AtCross, AtBid
<1>4. asks[i] \in Entry /\ bids[j] \in Entry
      /\ asks[i].amount \in Int /\ bids[j].amount \in Int
  BY <1>3, OrderFields
<1>5. /\ Promise!Volume(i, j) = x
      /\ v = asks[i].amount - Promise!Volume(i, j)
      /\ w = bids[j].amount - Promise!Volume(i, j)
  <2> DEFINE a == asks[i].amount
             b == bids[j].amount
  <2>1. /\ a \in Int /\ b \in Int /\ x = a - v /\ x = b - w /\ v >= 0 /\ w >= 0
        /\ v = 0 \/ w = 0
    BY <1>1, <1>4
  <2>2. Promise!Volume(i, j) = IF a <= b THEN a ELSE b
    BY DEF Promise!Volume
  <2> HIDE DEF a, b
  <2>3. (IF a <= b THEN a ELSE b) = x /\ v = a - x /\ w = b - x
    BY <2>1
  <2> QED
    BY <2>2, <2>3 DEF a, b
<1>6. Traded' = Append(Traded, [price |-> asks[i].price, amount |-> Promise!Volume(i, j),
                                ask |-> asks[i].id, bid |-> bids[j].id])
  <2> DEFINE s == SaleOf(asks[i], bids[j], x)
  <2>1. s \in Sale
    BY <1>1, <1>4, SaleOfType
  <2>2. TradeOf(s) = [price |-> asks[i].price, amount |-> Promise!Volume(i, j),
                      ask |-> asks[i].id, bid |-> bids[j].id]
    BY <1>5 DEF TradeOf, SaleOf
  <2>3. Traded' = [k \in DOMAIN Append(sales, s) |-> TradeOf(Append(sales, s)[k])]
    BY <1>1 DEF Traded
  <2> HIDE DEF s
  <2> QED
    BY <1>3, <2>1, <2>2, <2>3, TradedAppend DEF Traded
<1>7. Promise!BestAsk(i) /\ Promise!BestBid(j) /\ Promise!Crosses(asks[i], bids[j])
  BY <1>2, <1>3, BestAtCross DEF Crosses, Promise!Crosses
<1> QED
  BY <1>1, <1>2, <1>5, <1>6, <1>7 DEF Promise!Trade

\* Every step of the loop is a step of the abstract specification or none.
LEMMA StepImplementsClearing ==
    LoopInv /\ [MatchNext]_matchVars => [Promise!ClearingNext]_(Promise!clearingVars)
<1> SUFFICES ASSUME LoopInv, [MatchNext]_matchVars
             PROVE  [Promise!ClearingNext]_(Promise!clearingVars)
  OBVIOUS
<1>1. CASE FillEqual \/ FillAsk \/ FillBid
  <2>1. Promise!Trade(i, j)
    BY <1>1, FillImplementsTrade
  <2>2. i \in DOMAIN asks /\ j \in DOMAIN bids
    BY <1>1 DEF FillEqual, FillAsk, FillBid, AtCross, AtBid
  <2> QED
    BY <2>1, <2>2 DEF Promise!ClearingNext
<1>2. CASE Return
  <2>1. Promise!Cleared
    <3>1. LoopInv /\ i = Len(asks) + 1
      BY <1>2 DEF Return, LoopsDone
    <3>2. \A m \in Live(asks) : m < i
      BY <3>1 DEF LoopInv, MatchTypeOK, Live
    <3> QED
      BY <3>1, <3>2 DEF LoopInv, PassedAsks, Promise!Cleared, Promise!Live, Live,
                        Promise!Crosses, Crosses
  <2>2. Promise!Close
    BY <1>2, <2>1 DEF Promise!Close, Return, LoopsDone, Traded
  <2> QED
    BY <2>2 DEF Promise!ClearingNext
<1>3. CASE UNCHANGED <<asks, bids, sales, returned>>
  BY <1>3 DEF Promise!clearingVars, Traded
<1> QED
  BY <1>1, <1>2, <1>3 DEF MatchNext, LoopStep, OuterSkip, OuterEnter, InnerEnd,
                          InnerSkip, matchVars

\* The double loop is an implementation of Clearing: best price first on both
\* sides, at the ask's price, nothing left that crosses.
THEOREM LoopImplementsClearing == MatchSpec => ImplementsClearing
<1>1. MatchInit => Promise!ClearingInit
  BY DEF MatchInit, LoopStart, Promise!ClearingInit, Traded
<1> QED
  BY <1>1, LoopInvariant, StepImplementsClearing, PTL
     DEF MatchSpec, ImplementsClearing, Promise!ClearingSpec

-----------------------------------------------------------------------------
(* Least and greatest elements *)

\* A nonempty set of natural numbers has a least element.
LEMMA LeastExists ==
    ASSUME NEW K \in SUBSET Nat, K # {}
    PROVE  \E x \in K : \A y \in K : x <= y
<1>1. PICK x \in K : \A y \in K : ~(<<y, x>> \in OpToRel(<, Nat))
  BY NatLessThanWellFounded, WFMin
<1>2. ASSUME NEW y \in K PROVE x <= y
  <2>1. <<y, x>> \in Nat \X Nat /\ ~(<<y, x>> \in OpToRel(<, Nat))
    BY <1>1
  <2>2. ~(y < x)
    BY <2>1 DEF OpToRel
  <2>3. x \in Nat /\ y \in Nat
    OBVIOUS
  <2> QED
    BY <2>2, <2>3
<1> QED
  BY <1>2

\* A set of natural numbers that is not empty has a least one.
LEMMA MinProperties ==
    ASSUME NEW K \in SUBSET Nat, K # {}
    PROVE  Min(K) \in K /\ \A y \in K : Min(K) <= y
<1>1. \E x \in K : \A y \in K : x <= y
  BY LeastExists
<1> QED
  BY <1>1 DEF Min

\* The greatest of some places in a vector: the last twin of an order.
LEMMA MaxProperties ==
    ASSUME NEW L \in Nat, NEW K \in SUBSET (1..L), K # {}
    PROVE  Max(K) \in K
<1> DEFINE D == {L - x : x \in K}
<1>1. D \in SUBSET Nat /\ D # {}
  <2>1. \A x \in K : x \in Nat /\ L - x \in Nat
    OBVIOUS
  <2> QED
    BY <2>1
<1>2. PICK d \in D : \A y \in D : d <= y
  BY <1>1, LeastExists
<1>3. PICK x \in K : d = L - x
  BY <1>2
<1>4. ASSUME NEW y \in K PROVE y <= x
  <2>1. d <= L - y
    BY <1>2
  <2> QED
    BY <1>3, <2>1
<1>5. \E z \in K : \A y \in K : z >= y
  BY <1>4
<1> QED
  BY <1>5 DEF Max

-----------------------------------------------------------------------------
(* The inductive invariant *)

\* A vector in time order without dead orders, and no call, meet the invariant.
LEMMA LoadedBook ==
    ASSUME orders \in Seq(Entry), IsSortedBy(orders, comapreByTimestamp),
           Live(orders) = DOMAIN orders, call \in [product : Nat, timestamp : Nat], LocalsDead
    PROVE  BookInv
<1>1. /\ asks = <<>> /\ bids = <<>> /\ sales = <<>>
      /\ i = 1 /\ j = 0 /\ returned = TRUE
  BY DEF LocalsDead
<1>2. MatchTypeOK
  BY <1>1 DEF MatchTypeOK
<1>3. LoopInv
  BY <1>1, <1>2 DEF LoopInv, IsSortedBy, LoopPosition, PassedAsks, PassedBids, Live
<1>4. CopiesComplete
  BY <1>1 DEF CopiesComplete
<1> QED
  BY <1>2, <1>3, <1>4 DEF BookInv, BookTypeOK, BookSorted

\* The book's invariant holds when the file is loaded.
LEMMA BookInvInit == BookInit => BookInv
BY LoadedBook DEF BookInit

\* What a step keeps of the book's invariant when it leaves the loop alone.
LEMMA LoopUnchanged ==
    ASSUME LoopInv, UNCHANGED matchVars
    PROVE  LoopInv' /\ MatchTypeOK'
BY DEF LoopInv, matchVars, MatchTypeOK, IsSortedBy, LoopPosition, PassedAsks, PassedBids,
       Live, Crosses, comapreByPriceAsc, comapreByPriceDesc

\* insertOrder leaves a book in time order without dead orders, made of the old
\* orders and the new one.
LEMMA InsertedBook ==
    ASSUME orders \in Seq(Entry), Live(orders) = DOMAIN orders,
           NEW e \in Entry, e.amount > 0, insertOrder(e)
    PROVE  /\ orders' \in Seq(Entry) /\ Live(orders') = DOMAIN orders'
           /\ IsSortedBy(orders', comapreByTimestamp)
           /\ \A k \in DOMAIN orders' :
                orders'[k] = e \/ \E m \in DOMAIN orders : orders'[k] = orders[m]
<1> DEFINE s == Append(orders, e)
<1>1. /\ s \in Seq(Entry)
      /\ \A n \in DOMAIN s : s[n] = e \/ \E m \in DOMAIN orders : s[n] = orders[m]
  OBVIOUS
<1>2. \A n \in DOMAIN s : s[n].amount > 0
  BY <1>1 DEF Live
<1>3. orders' = StableSort(s, comapreByTimestamp)
  BY DEF insertOrder
<1> HIDE DEF s
<1>4. /\ orders' \in Seq(Entry)
      /\ IsSortedBy(orders', comapreByTimestamp)
      /\ \A k \in DOMAIN orders' : \E n \in DOMAIN s : orders'[k] = s[n]
  BY <1>1, <1>3, StableSortProperties
<1>5. Live(orders') = DOMAIN orders'
  BY <1>2, <1>4 DEF Live
<1> QED
  BY <1>1, <1>4, <1>5

\* insertOrder keeps the invariant.
LEMMA InsertKeepsInv ==
    ASSUME BookInv, NEW e \in Entry, e.amount > 0, insertOrder(e)
    PROVE  BookInv'
<1>1. /\ orders' \in Seq(Entry) /\ Live(orders') = DOMAIN orders'
      /\ IsSortedBy(orders', comapreByTimestamp)
  BY InsertedBook DEF BookInv, BookTypeOK
<1>2. LoopInv' /\ MatchTypeOK'
  BY LoopUnchanged DEF insertOrder, BookInv
<1>3. CopiesComplete'
  BY DEF insertOrder, CopiesComplete, matchVars
<1> QED
  BY <1>1, <1>2, <1>3 DEF insertOrder, BookInv, BookTypeOK, BookSorted

\* The early return keeps the invariant.
LEMMA MatchEmptyKeepsInv ==
    ASSUME BookInv, NEW p \in Nat, NEW t \in Nat, MatchEmpty(p, t)
    PROVE  BookInv'
<1>1. call' \in [product : Nat, timestamp : Nat]
  BY DEF MatchEmpty
<1>2. MatchTypeOK' /\ LoopInv'
  BY DEF MatchEmpty, BookInv, LoopInv, MatchTypeOK, IsSortedBy, LoopPosition, PassedAsks,
         PassedBids, Live, Crosses, comapreByPriceAsc, comapreByPriceDesc
<1>3. CopiesComplete'
  BY DEF MatchEmpty, CopiesComplete
<1> QED
  BY <1>1, <1>2, <1>3
     DEF MatchEmpty, BookInv, BookTypeOK, BookSorted, IsSortedBy, comapreByTimestamp, Live

\* The copies of one side: any sort of the orders that getOrders selects.
LEMMA CopiesProperties ==
    ASSUME orders \in Seq(Entry), NEW type, NEW p, NEW t, NEW Before(_, _),
           NEW c \in Sortings(getOrders(type, p, t), Before)
    PROVE  /\ c \in Seq(Entry) /\ IsSortedBy(c, Before)
           /\ \A n \in Visible(type, p, t) : Twins(orders[n], c) # {}
<1> DEFINE K == Visible(type, p, t)
           s == At(orders, K)
<1>1. K \in SUBSET DOMAIN orders
  BY DEF Visible
<1> HIDE DEF K
<1>2. /\ s \in Seq(Entry)
      /\ \A k \in DOMAIN s : Nth(K, k) \in K /\ s[k] = orders[Nth(K, k)]
      /\ \A n \in K : \E k \in DOMAIN s : Nth(K, k) = n
  BY <1>1, AtProperties
<1> HIDE DEF s
<1>3. PICK f \in Bijection(DOMAIN s, DOMAIN s) : c = [n \in DOMAIN s |-> s[f[n]]]
  BY DEF Sortings, getOrders, K, s
<1>4. c \in Seq(Entry) /\ Len(c) = Len(s)
  BY <1>2, <1>3, SortingsType
<1>5. IsSortedBy(c, Before)
  BY DEF Sortings
<1>6. ASSUME NEW n \in K PROVE Twins(orders[n], c) # {}
  <2>1. PICK k \in DOMAIN s : s[k] = orders[n]
    BY <1>2
  <2>2. PICK m \in DOMAIN s : f[m] = k
    BY DEF Bijection, Surjection
  <2>3. m \in DOMAIN c /\ c[m] = orders[n]
    BY <1>3, <2>1, <2>2
  <2> QED
    BY <2>3 DEF Twins
<1> QED
  BY <1>4, <1>5, <1>6 DEF K

\* The copies and sorts are a start for the loop, with a copy for every order that
\* takes part.
LEMMA MatchBeginStarts ==
    ASSUME orders \in Seq(Entry), NEW p \in Nat, NEW t \in Nat, MatchBegin(p, t)
    PROVE  LoopInv' /\ CopiesComplete'
<1>1. /\ asks' \in Seq(Entry) /\ IsSortedBy(asks', comapreByPriceAsc)
      /\ \A n \in Visible("ask", p, t) : Twins(orders[n], asks') # {}
  BY CopiesProperties DEF MatchBegin
<1>2. /\ bids' \in Seq(Entry) /\ IsSortedBy(bids', comapreByPriceDesc)
      /\ \A n \in Visible("bid", p, t) : Twins(orders[n], bids') # {}
  BY CopiesProperties DEF MatchBegin
<1>3. MatchInit'
  BY <1>1, <1>2 DEF MatchBegin, MatchInit, LoopStart
<1>4. LoopInv'
  BY <1>3, LoopInvInit, PTL
<1>5. call' = [product |-> p, timestamp |-> t] /\ UNCHANGED orders
  BY DEF MatchBegin
<1>6. CopiesComplete'
  BY <1>1, <1>2, <1>5 DEF CopiesComplete, Visible, Twins
<1> QED
  BY <1>4, <1>6

\* The copies and sorts keep the invariant.
LEMMA MatchBeginKeepsInv ==
    ASSUME BookInv, NEW p \in Nat, NEW t \in Nat, MatchBegin(p, t)
    PROVE  BookInv'
<1>1. LoopInv' /\ CopiesComplete'
  BY MatchBeginStarts DEF BookInv, BookTypeOK
<1>2. call' = [product |-> p, timestamp |-> t] /\ UNCHANGED orders
  BY DEF MatchBegin
<1> QED
  BY <1>1, <1>2 DEF BookInv, BookTypeOK, BookSorted, IsSortedBy, comapreByTimestamp,
     Live, LoopInv

\* The loop changes amounts only: a copy keeps its key.
LEMMA LoopKeepsKeys ==
    ASSUME LoopInv, LoopStep
    PROVE  /\ DOMAIN asks' = DOMAIN asks /\ DOMAIN bids' = DOMAIN bids
           /\ \A m \in DOMAIN asks : /\ asks'[m].username = asks[m].username
                                     /\ asks'[m].price = asks[m].price
           /\ \A n \in DOMAIN bids : /\ bids'[n].username = bids[n].username
                                     /\ bids'[n].price = bids[n].price
<1>1. CASE FillEqual \/ FillAsk \/ FillBid
  <2>1. PICK v, w, x \in Int : /\ asks' = [asks EXCEPT ![i].amount = v]
                               /\ bids' = [bids EXCEPT ![j].amount = w]
    BY <1>1, FillCases
  <2>2. asks \in Seq(Entry) /\ i \in DOMAIN asks /\ bids \in Seq(Entry) /\ j \in DOMAIN bids
    BY <1>1 DEF LoopInv, MatchTypeOK, FillEqual, FillAsk, FillBid, AtCross, AtBid
  <2> QED
    BY <2>1, <2>2, AmountUpdate
<1>2. CASE OuterSkip \/ OuterEnter \/ InnerEnd \/ InnerSkip
  BY <1>2 DEF OuterSkip, OuterEnter, InnerEnd, InnerSkip
<1> QED
  BY <1>1, <1>2 DEF LoopStep

\* A step of the loop keeps the invariant.
LEMMA MatchLoopKeepsInv ==
    ASSUME BookInv, MatchLoop
    PROVE  BookInv'
<1>1. LoopInv /\ LoopStep /\ UNCHANGED <<orders, call>>
  BY DEF BookInv, MatchLoop
<1>2. LoopInv'
  BY <1>1, LoopInvStep DEF MatchNext
<1>3. returned' = returned
  BY <1>1 DEF LoopStep, OuterSkip, OuterEnter, InnerEnd, InnerSkip, FillEqual, FillAsk, FillBid
<1>4. CopiesComplete'
  BY <1>1, <1>3, LoopKeepsKeys DEF BookInv, CopiesComplete, Visible, Twins
<1> QED
  BY <1>1, <1>2, <1>4 DEF BookInv, BookTypeOK, BookSorted, IsSortedBy, comapreByTimestamp,
     Live, LoopInv

\* The write-back of a copy gives an order another amount and nothing else.
LEMMA WrittenBackProperties ==
    ASSUME asks \in Seq(Entry), bids \in Seq(Entry), NEW e \in Entry
    PROVE  LET f == WrittenBack(e)
           IN  /\ f \in Entry
               /\ f.orderType = e.orderType /\ f.product = e.product
               /\ f.timestamp = e.timestamp /\ f.price = e.price /\ f.id = e.id
<1> DEFINE side == IF e.orderType = "ask" THEN asks ELSE bids
           last == Max(Twins(e, side))
           replaced == /\ e.timestamp <= call.timestamp /\ e.product = call.product
                       /\ e.orderType \in {"ask", "bid"} /\ Twins(e, side) # {}
<1>1. CASE ~replaced
  <2>1. WrittenBack(e) = e
    BY <1>1 DEF WrittenBack
  <2> QED
    BY <2>1 DEF Entry
<1>2. CASE replaced
  <2>1. side \in Seq(Entry) /\ Len(side) \in Nat /\ DOMAIN side = 1..Len(side)
    OBVIOUS
  <2>2. Twins(e, side) \in SUBSET (1..Len(side))
    BY <2>1 DEF Twins
  <2>3. last \in DOMAIN side
    BY <1>2, <2>1, <2>2, MaxProperties
  <2>4. WrittenBack(e) = [e EXCEPT !.amount = side[last].amount]
    BY <1>2 DEF WrittenBack
  <2> HIDE DEF side, last
  <2>5. side[last].amount \in Int
    BY <2>1, <2>3, OrderFields
  <2> QED
    BY <2>4, <2>5 DEF Entry
<1> QED
  BY <1>1, <1>2

\* Erasing the dead orders keeps the live ones, in their order.
LEMMA ErasedProperties ==
    ASSUME NEW s \in Seq(Entry)
    PROVE  LET t == Erased(s)
           IN  /\ t \in Seq(Entry) /\ Live(t) = DOMAIN t
               /\ \A k \in DOMAIN t : \E n \in Live(s) : t[k] = s[n]
               /\ \A n \in Live(s) : \E k \in DOMAIN t : t[k] = s[n]
               /\ IsSortedBy(s, comapreByTimestamp) => IsSortedBy(t, comapreByTimestamp)
<1> DEFINE K == Live(s)
           t == Erased(s)
<1>1. K \in SUBSET DOMAIN s /\ \A n \in K : s[n].amount > 0
  BY DEF Live
<1> HIDE DEF K
<1>2. /\ t \in Seq(Entry)
      /\ \A k \in DOMAIN t : Nth(K, k) \in K /\ t[k] = s[Nth(K, k)]
      /\ \A k, l \in DOMAIN t : k < l => Nth(K, k) < Nth(K, l)
      /\ \A n \in K : \E k \in DOMAIN t : Nth(K, k) = n
  BY <1>1, AtProperties DEF Erased, K
<1> HIDE DEF t
<1>3. Live(t) = DOMAIN t
  BY <1>1, <1>2 DEF Live
<1>4. /\ \A k \in DOMAIN t : \E n \in K : t[k] = s[n]
      /\ \A n \in K : \E k \in DOMAIN t : t[k] = s[n]
  BY <1>2
<1>5. IsSortedBy(s, comapreByTimestamp) => IsSortedBy(t, comapreByTimestamp)
  BY <1>1, <1>2 DEF IsSortedBy
<1> QED
  BY <1>2, <1>3, <1>4, <1>5 DEF t, K

\* The vector between the write-back and the erasure.
LEMMA WrittenBackVector ==
    ASSUME orders \in Seq(Entry), asks \in Seq(Entry), bids \in Seq(Entry), BookSorted
    PROVE  LET w == [n \in DOMAIN orders |-> WrittenBack(orders[n])]
           IN  w \in Seq(Entry) /\ IsSortedBy(w, comapreByTimestamp)
<1> DEFINE w == [n \in DOMAIN orders |-> WrittenBack(orders[n])]
<1>1. IsSortedBy(orders, comapreByTimestamp)
  BY DEF BookSorted
<1>2. /\ Len(orders) \in Nat /\ DOMAIN orders = 1..Len(orders)
      /\ \A n \in DOMAIN orders : orders[n] \in Entry
  OBVIOUS
<1>3. \A n \in DOMAIN orders : /\ w[n] \in Entry
                              /\ w[n].timestamp = orders[n].timestamp
  BY <1>2, WrittenBackProperties
<1> HIDE DEF w
<1>4. w \in [1..Len(orders) -> Entry]
  BY <1>2, <1>3 DEF w
<1>5. w \in Seq(Entry) /\ DOMAIN w = DOMAIN orders
  BY <1>2, <1>4
<1>6. IsSortedBy(w, comapreByTimestamp)
  BY <1>1, <1>3, <1>5 DEF IsSortedBy, comapreByTimestamp
<1> QED
  BY <1>5, <1>6 DEF w

\* It again, from the invariant.
LEMMA WrittenBackBook ==
    ASSUME BookInv
    PROVE  LET w == [n \in DOMAIN orders |-> WrittenBack(orders[n])]
           IN  w \in Seq(Entry) /\ IsSortedBy(w, comapreByTimestamp)
BY WrittenBackVector DEF BookInv, BookTypeOK, MatchTypeOK

\* The write-back and the erasure leave a book in time order without dead orders,
\* whose orders are old ones with other amounts, whatever the copies are.
LEMMA WriteBackLeaves ==
    ASSUME orders \in Seq(Entry), asks \in Seq(Entry), bids \in Seq(Entry), BookSorted, WriteBack
    PROVE  /\ orders' \in Seq(Entry) /\ Live(orders') = DOMAIN orders'
           /\ IsSortedBy(orders', comapreByTimestamp)
           /\ \A k \in DOMAIN orders' : \E n \in DOMAIN orders :
                  /\ orders'[k].product = orders[n].product
                  /\ orders'[k].orderType = orders[n].orderType
                  /\ orders'[k].price = orders[n].price
                  /\ orders'[k].timestamp = orders[n].timestamp
<1> DEFINE w == [n \in DOMAIN orders |-> WrittenBack(orders[n])]
<1>1. w \in Seq(Entry) /\ IsSortedBy(w, comapreByTimestamp)
  BY WrittenBackVector
<1>2. orders' = Erased(w)
  BY DEF WriteBack
<1>3. \A n \in DOMAIN w : /\ n \in DOMAIN orders /\ w[n].product = orders[n].product
                          /\ w[n].orderType = orders[n].orderType
                          /\ w[n].price = orders[n].price
                          /\ w[n].timestamp = orders[n].timestamp
  BY WrittenBackProperties
<1> HIDE DEF w
<1>4. /\ orders' \in Seq(Entry) /\ Live(orders') = DOMAIN orders'
      /\ IsSortedBy(orders', comapreByTimestamp)
      /\ \A k \in DOMAIN orders' : \E n \in Live(w) : orders'[k] = w[n]
  BY <1>1, <1>2, ErasedProperties
<1>5. ASSUME NEW k \in DOMAIN orders'
      PROVE  \E n \in DOMAIN orders : /\ orders'[k].product = orders[n].product
                                      /\ orders'[k].orderType = orders[n].orderType
                                      /\ orders'[k].price = orders[n].price
                                      /\ orders'[k].timestamp = orders[n].timestamp
  <2>1. PICK n \in Live(w) : orders'[k] = w[n]
    BY <1>4
  <2>2. n \in DOMAIN w
    BY DEF Live
  <2> QED
    BY <1>3, <2>1, <2>2
<1> QED
  BY <1>4, <1>5

\* The write-back and the erasure keep the invariant.
LEMMA WriteBackKeepsInv ==
    ASSUME BookInv, WriteBack
    PROVE  BookInv'
<1>1. /\ orders' \in Seq(Entry) /\ Live(orders') = DOMAIN orders'
      /\ IsSortedBy(orders', comapreByTimestamp)
  BY WriteBackLeaves DEF BookInv, BookTypeOK, MatchTypeOK
<1>2. MatchTypeOK'
  BY DEF WriteBack, BookInv, BookTypeOK, MatchTypeOK
<1>3. LoopInv'
  BY <1>2 DEF WriteBack, LoopInv, IsSortedBy, LoopPosition, PassedAsks, PassedBids, Live
<1>4. CopiesComplete'
  BY DEF WriteBack, CopiesComplete
<1> QED
  BY <1>1, <1>2, <1>3, <1>4 DEF WriteBack, BookInv, BookTypeOK, BookSorted

\* Every operation keeps the invariant.
LEMMA BookInvStep == BookInv /\ [BookNext]_bookVars => BookInv'
<1> SUFFICES ASSUME BookInv, [BookNext]_bookVars PROVE BookInv'
  OBVIOUS
<1>1. CASE InsertNew
  <2>1. PICK e \in Entry : e.amount > 0 /\ insertOrder(e)
    BY <1>1 DEF InsertNew
  <2> QED
    BY <2>1, InsertKeepsInv
<1>2. ASSUME NEW p \in Nat, NEW t \in Nat, matchAsksToBids(p, t) PROVE BookInv'
  BY <1>2, MatchEmptyKeepsInv, MatchBeginKeepsInv DEF matchAsksToBids
<1>3. CASE MatchLoop
  BY <1>3, MatchLoopKeepsInv
<1>4. CASE WriteBack
  BY <1>4, WriteBackKeepsInv
<1>5. CASE UNCHANGED bookVars
  <2>1. LoopInv' /\ MatchTypeOK'
    BY <1>5, LoopUnchanged DEF bookVars, BookInv
  <2> QED
    BY <1>5, <2>1 DEF bookVars, matchVars, BookInv, BookTypeOK, BookSorted, IsSortedBy,
       comapreByTimestamp, Live, CopiesComplete, Visible, Twins
<1> QED
  BY <1>1, <1>2, <1>3, <1>4, <1>5 DEF BookNext

\* The book's inductive invariant, with what a running match needs: its loop
\* invariant, and a copy for every order it is going to write back.
THEOREM BookInvariant == BookSpec => []BookInv
BY BookInvInit, BookInvStep, PTL DEF BookSpec

\* Between two operations no dead order is in the book, and every variable has
\* its type.
THEOREM BookTypeCorrect == BookSpec => []BookTypeOK
<1>1. BookInv => BookTypeOK
  BY DEF BookInv
<1> QED
  BY <1>1, BookInvariant, PTL

\* The vector is in time order after every insert, write-back and erasure.
THEOREM BookStaysSorted == BookSpec => []BookSorted
<1>1. BookInv => BookSorted
  BY DEF BookInv
<1> QED
  BY <1>1, BookInvariant, PTL

-----------------------------------------------------------------------------
(* getNextTime *)

\* The first later order of a vector in time order has the least later time.
LEMMA NextTime ==
    ASSUME orders \in Seq(Entry), BookSorted, orders # <<>>, NEW t \in Nat
    PROVE  LET times == {orders[n].timestamp : n \in DOMAIN orders}
               later == {u \in times : u > t}
           IN  /\ times \in SUBSET Nat
               /\ getNextTime(t) = IF later = {} THEN Min(times) ELSE Min(later)
<1> DEFINE times == {orders[n].timestamp : n \in DOMAIN orders}
           later == {u \in times : u > t}
           places == {n \in DOMAIN orders : orders[n].timestamp > t}
           first == Min(places)
<1>1. /\ Len(orders) \in Nat /\ DOMAIN orders = 1..Len(orders) /\ 1 \in DOMAIN orders
      /\ \A n \in DOMAIN orders : orders[n] \in Entry
  OBVIOUS
<1>2. \A n \in DOMAIN orders : orders[n].timestamp \in Nat
  BY <1>1 DEF Entry
<1>3. \A m, n \in DOMAIN orders : m < n => orders[m].timestamp <= orders[n].timestamp
  BY <1>2 DEF BookSorted, IsSortedBy, comapreByTimestamp
<1>4. times \in SUBSET Nat /\ times # {} /\ later \in SUBSET Nat
  BY <1>1, <1>2
<1>5. CASE later = {}
  <2>1. getNextTime(t) = orders[1].timestamp
    BY <1>5 DEF getNextTime, getEarliestTime
  <2>2. Min(times) \in times /\ \A u \in times : Min(times) <= u
    BY <1>4, MinProperties
  <2>3. PICK n \in DOMAIN orders : Min(times) = orders[n].timestamp
    BY <2>2
  <2>4. Min(times) <= orders[1].timestamp
    BY <1>1, <2>2
  <2>5. orders[1].timestamp <= orders[n].timestamp
    BY <1>1, <1>2, <1>3
  <2> QED
    BY <1>1, <1>2, <1>4, <1>5, <2>1, <2>3, <2>4, <2>5
<1>6. CASE later # {}
  <2>1. /\ places \in SUBSET Nat /\ places # {}
    BY <1>1, <1>6
  <2>2. first \in places /\ \A n \in places : first <= n
    BY <2>1, MinProperties
  <2>3. getNextTime(t) = orders[first].timestamp
    BY <2>1 DEF getNextTime
  <2> HIDE DEF first
  <2>4. Min(later) \in later /\ \A u \in later : Min(later) <= u
    BY <1>4, <1>6, MinProperties
  <2>5. PICK n \in places : Min(later) = orders[n].timestamp
    BY <2>4
  <2>6. orders[first].timestamp \in later /\ Min(later) <= orders[first].timestamp
    BY <2>2, <2>4
  <2>7. first <= n
    BY <2>2
  <2>8. orders[first].timestamp <= orders[n].timestamp
    BY <1>1, <1>2, <1>3, <2>2, <2>7
  <2>9. /\ orders[first].timestamp \in Nat /\ orders[n].timestamp \in Nat
    BY <1>2, <2>2
  <2>10. Min(later) = orders[first].timestamp
    <3> HIDE DEF later, places
    <3> QED
      BY <2>5, <2>6, <2>8, <2>9
  <2> QED
    BY <1>4, <1>6, <2>3, <2>10
<1> QED
  BY <1>4, <1>5, <1>6

\* Time moves to the least later time of any order, of any book in time order,
\* and only wraps around when there is none.
THEOREM NextTimeCorrect == BookSpec => []NextTimeIsSuccessor
<1>1. BookInv => NextTimeIsSuccessor
  <2> SUFFICES ASSUME BookInv, orders # <<>>,
                      NEW t \in {c.timestamp : c \in {call} \cup {orders[n] : n \in DOMAIN orders}}
               PROVE  LET times == {orders[n].timestamp : n \in DOMAIN orders}
                          later == {u \in times : u > t}
                      IN  getNextTime(t) = IF later = {} THEN Min(times) ELSE Min(later)
    BY DEF NextTimeIsSuccessor
  <2>1. orders \in Seq(Entry) /\ BookSorted /\ call.timestamp \in Nat
    BY DEF BookInv, BookTypeOK
  <2>2. \A n \in DOMAIN orders : orders[n].timestamp \in Nat
    <3>1. \A n \in DOMAIN orders : orders[n] \in Entry
      BY <2>1
    <3> QED
      BY <3>1 DEF Entry
  <2>3. t \in Nat
    BY <2>1, <2>2
  <2> QED
    BY <2>1, <2>3, NextTime
<1> QED
  BY <1>1, BookInvariant, PTL

-----------------------------------------------------------------------------
(* What a match does to the book *)

\* A call that is running only takes steps of its own.
LEMMA RunningStep ==
    ASSUME BookNext, ~returned
    PROVE  MatchLoop \/ WriteBack
<1>1. ~InsertNew
  BY DEF InsertNew, insertOrder
<1>2. \A p, t \in Nat : ~matchAsksToBids(p, t)
  BY DEF matchAsksToBids, MatchEmpty, MatchBegin
<1> QED
  BY <1>1, <1>2 DEF BookNext

\* An order that does not take part is in the book after the step.
LEMMA OthersStay ==
    ASSUME BookInv, BookNext, ~returned, NEW n \in DOMAIN orders,
           ~(orders[n].product = call.product /\ orders[n].timestamp <= call.timestamp)
    PROVE  \E m \in DOMAIN orders' : orders'[m] = orders[n]
<1>1. CASE MatchLoop
  BY <1>1 DEF MatchLoop
<1>2. CASE WriteBack
  <2> DEFINE w == [k \in DOMAIN orders |-> WrittenBack(orders[k])]
  <2>1. w \in Seq(Entry) /\ orders' = Erased(w)
    BY <1>2, WrittenBackBook DEF WriteBack
  <2>2. w[n] = orders[n]
    BY DEF WrittenBack
  <2>3. n \in DOMAIN w /\ w[n].amount > 0
    BY <2>2 DEF BookInv, BookTypeOK, Live
  <2> HIDE DEF w
  <2>4. n \in Live(w)
    BY <2>3 DEF Live
  <2> QED
    BY <2>1, <2>2, <2>4, ErasedProperties
<1> QED
  BY <1>1, <1>2, RunningStep

\* A match leaves every order of another product or a later time as it is,
\* whatever usernames and prices the orders share.
THEOREM MatchIsConfined == BookSpec => MatchConfined
<1>1. BookInv /\ [BookNext]_bookVars =>
        [~returned =>
           \A n \in DOMAIN orders :
              \/ orders[n].product = call.product /\ orders[n].timestamp <= call.timestamp
              \/ \E m \in DOMAIN orders' : orders'[m] = orders[n]]_bookVars
  BY OthersStay
<1> QED
  BY <1>1, BookInvariant, PTL DEF BookSpec, MatchConfined

\* A matched order that is still in the book is there with the amount of a live
\* copy of its side and price.
LEMMA LeftAfterMatch ==
    ASSUME BookInv, WriteBack, NEW m \in DOMAIN orders', NEW side,
           orders'[m].product = call.product, orders'[m].timestamp <= call.timestamp,
           \/ orders'[m].orderType = "ask" /\ side = asks
           \/ orders'[m].orderType = "bid" /\ side = bids
    PROVE  \E k \in Live(side) : side[k].price = orders'[m].price
<1> DEFINE w == [n \in DOMAIN orders |-> WrittenBack(orders[n])]
<1>1. /\ orders \in Seq(Entry) /\ asks \in Seq(Entry) /\ bids \in Seq(Entry)
      /\ \A n \in DOMAIN orders : orders[n] \in Entry
      /\ ~returned
  BY DEF BookInv, BookTypeOK, MatchTypeOK, WriteBack, LoopsDone
<1>2. w \in Seq(Entry) /\ orders' = Erased(w)
  BY WrittenBackBook DEF WriteBack
<1>3. PICK n \in Live(w) : orders'[m] = w[n]
  <2> HIDE DEF w
  <2> QED
    BY <1>2, ErasedProperties
<1>4. n \in DOMAIN orders /\ w[n] = WrittenBack(orders[n]) /\ w[n].amount > 0
  BY <1>3 DEF Live
<1> DEFINE e == orders[n]
           last == Max(Twins(e, side))
<1>5. /\ w[n].orderType = e.orderType /\ w[n].product = e.product
      /\ w[n].timestamp = e.timestamp /\ w[n].price = e.price /\ e \in Entry
  BY <1>1, <1>4, WrittenBackProperties
<1> HIDE DEF w
<1>6. Twins(e, side) # {}
  BY <1>1, <1>3, <1>4, <1>5 DEF BookInv, CopiesComplete, Visible
<1>7. last \in Twins(e, side)
  <2>1. Len(side) \in Nat /\ Twins(e, side) \in SUBSET (1..Len(side))
    BY <1>1 DEF Twins
  <2> QED
    BY <1>6, <2>1, MaxProperties
<1>8. side = IF e.orderType = "ask" THEN asks ELSE bids
  BY <1>3, <1>5
<1>9. WrittenBack(e) = [e EXCEPT !.amount = side[last].amount]
  BY <1>3, <1>5, <1>6, <1>8 DEF WrittenBack
<1> HIDE DEF last
<1>10. w[n].amount = side[last].amount
  BY <1>4, <1>5, <1>9 DEF Entry
<1>11. last \in Live(side) /\ side[last].price = e.price
  BY <1>4, <1>7, <1>10 DEF Twins, Live
<1> QED
  BY <1>3, <1>5, <1>11

\* The write-back leaves no two orders of the matched product, visible at the time of
\* the match, that could still trade.
LEMMA WriteBackUncrosses ==
    ASSUME BookInv, WriteBack, NEW m \in DOMAIN orders', NEW n \in DOMAIN orders',
           orders'[m].orderType = "ask", orders'[n].orderType = "bid",
           {orders'[m].product, orders'[n].product} = {call.product},
           orders'[m].timestamp <= call.timestamp, orders'[n].timestamp <= call.timestamp
    PROVE  ~Crosses(orders'[m], orders'[n])
<1>1. PICK k \in Live(asks) : asks[k].price = orders'[m].price
  BY LeftAfterMatch
<1>2. PICK l \in Live(bids) : bids[l].price = orders'[n].price
  BY LeftAfterMatch
<1>3. k < i
  BY DEF WriteBack, LoopsDone, BookInv, BookTypeOK, MatchTypeOK, Live
<1>4. ~Crosses(asks[k], bids[l])
  BY <1>3 DEF BookInv, LoopInv, PassedAsks
<1> QED
  BY <1>1, <1>2, <1>4 DEF Crosses

\* When a match returns, no two orders left in the book, of its product and
\* visible at its time, could still trade.
THEOREM UncrossedOnceMatched == BookSpec => UncrossedAfterMatch
<1>1. ASSUME BookInv, BookNext, ~returned, returned',
             NEW m \in DOMAIN orders', NEW n \in DOMAIN orders',
             orders'[m].orderType = "ask", orders'[n].orderType = "bid",
             {orders'[m].product, orders'[n].product} = {call.product},
             orders'[m].timestamp <= call.timestamp, orders'[n].timestamp <= call.timestamp
      PROVE  ~Crosses(orders'[m], orders'[n])
  <2>1. WriteBack
    BY <1>1, RunningStep DEF MatchLoop, LoopStep, OuterSkip, OuterEnter, InnerEnd, InnerSkip,
       FillEqual, FillAsk, FillBid
  <2> QED
    BY <1>1, <2>1, WriteBackUncrosses
<1>2. BookInv /\ [BookNext]_bookVars =>
        [~returned /\ returned' =>
         \A m, n \in DOMAIN orders' :
            LET a == orders'[m]  b == orders'[n]
            IN  ~ /\ a.orderType = "ask" /\ b.orderType = "bid"
                  /\ {a.product, b.product} = {call.product}
                  /\ a.timestamp <= call.timestamp /\ b.timestamp <= call.timestamp
                  /\ Crosses(a, b)]_bookVars
  BY <1>1
<1> QED
  BY <1>2, BookInvariant, PTL DEF BookSpec, UncrossedAfterMatch

-----------------------------------------------------------------------------
(* What a call takes off its orders *)

\* What the first k sales of s took from the order called id, for every k.
TakenUpTo(f, s, id, m) ==
    /\ DOMAIN f = 0..m /\ f[0] = 0
    /\ \A k \in 1..m : f[k] = f[k - 1] + Part(s[k], id)

\* There is such a function, one sale after the other.
LEMMA TakenExist ==
    ASSUME NEW s, NEW id, NEW m \in Nat
    PROVE  \E f : TakenUpTo(f, s, id, m)
<1> DEFINE K == {n \in Nat : ~\E f : TakenUpTo(f, s, id, n)}
<1> SUFFICES ASSUME K # {} PROVE FALSE
  OBVIOUS
<1>1. PICK n \in K : \A y \in K : n <= y
  BY LeastExists
<1>2. CASE n = 0
  <2> DEFINE f == [k \in 0..0 |-> 0]
  <2>1. DOMAIN f = 0..0 /\ f[0] = 0
    OBVIOUS
  <2> HIDE DEF f
  <2>2. TakenUpTo(f, s, id, 0)
    BY <2>1 DEF TakenUpTo
  <2> QED
    BY <1>2, <2>2
<1>3. CASE n # 0
  <2>1. n - 1 \in Nat /\ n - 1 \notin K /\ n \in Nat
    BY <1>1, <1>3
  <2>2. PICK f : TakenUpTo(f, s, id, n - 1)
    BY <2>1
  <2> DEFINE g == [k \in 0..n |-> IF k = n THEN f[n - 1] + Part(s[n], id) ELSE f[k]]
  <2>3. /\ DOMAIN g = 0..n /\ g[n] = f[n - 1] + Part(s[n], id)
        /\ \A k \in 0..(n - 1) : g[k] = f[k]
    BY <2>1
  <2> HIDE DEF g
  <2>4. g[0] = 0
    <3>1. 0 \in 0..(n - 1)
      BY <2>1
    <3> QED
      BY <2>2, <2>3, <3>1 DEF TakenUpTo
  <2>5. ASSUME NEW k \in 1..n PROVE g[k] = g[k - 1] + Part(s[k], id)
    <3>1. k - 1 \in 0..(n - 1)
      BY <2>1
    <3>2. CASE k = n
      BY <2>3, <3>1, <3>2
    <3>3. CASE k # n
      <4>1. k \in 1..(n - 1) /\ k \in 0..(n - 1)
        BY <2>1, <3>3
      <4> QED
        BY <2>2, <2>3, <3>1, <4>1 DEF TakenUpTo
    <3> QED
      BY <3>2, <3>3
  <2>6. TakenUpTo(g, s, id, n)
    BY <2>3, <2>4, <2>5 DEF TakenUpTo
  <2> QED
    BY <2>6
<1> QED
  BY <1>2, <1>3

\* And only one, which Taken reads its value from.
LEMMA TakenOf ==
    ASSUME NEW S, NEW s \in Seq(S), NEW id, NEW f, TakenUpTo(f, s, id, Len(s))
    PROVE  Taken(s, id) = f[Len(s)]
<1> DEFINE T == CHOOSE g : g = [k \in 0..Len(s) |->
                     IF k = 0 THEN 0 ELSE g[k - 1] + Part(s[k], id)]
<1>1. Taken(s, id) = T[Len(s)]
  BY DEF Taken
<1>2. \E g : g = [k \in 0..Len(s) |-> IF k = 0 THEN 0 ELSE g[k - 1] + Part(s[k], id)]
  <2>1. f = [k \in 0..Len(s) |-> IF k = 0 THEN 0 ELSE f[k - 1] + Part(s[k], id)]
    <3>1. ASSUME NEW k \in 0..Len(s)
          PROVE  f[k] = IF k = 0 THEN 0 ELSE f[k - 1] + Part(s[k], id)
      <4>1. k = 0 \/ k \in 1..Len(s)
        OBVIOUS
      <4> QED
        BY <4>1 DEF TakenUpTo
    <3>2. f = [k \in 0..Len(s) |-> f[k]]
      BY DEF TakenUpTo
    <3> QED
      BY <3>1, <3>2
  <2> QED
    BY <2>1
<1>3. T = [k \in 0..Len(s) |-> IF k = 0 THEN 0 ELSE T[k - 1] + Part(s[k], id)]
  BY <1>2
<1> HIDE DEF T
<1>4. TakenUpTo(T, s, id, Len(s))
  <2>1. DOMAIN T = 0..Len(s) /\ 0 \in 0..Len(s)
    BY <1>3
  <2>2. T[0] = 0
    BY <1>3, <2>1
  <2>3. ASSUME NEW k \in 1..Len(s) PROVE T[k] = T[k - 1] + Part(s[k], id)
    <3>1. k \in 0..Len(s) /\ k # 0
      OBVIOUS
    <3> QED
      BY <1>3, <3>1
  <2> QED
    BY <2>1, <2>2, <2>3 DEF TakenUpTo
<1> DEFINE K == {k \in 0..Len(s) : T[k] # f[k]}
<1>5. K = {}
  <2> SUFFICES ASSUME K # {} PROVE FALSE
    OBVIOUS
  <2>1. K \in SUBSET Nat
    OBVIOUS
  <2>2. PICK n \in K : \A y \in K : n <= y
    BY <2>1, LeastExists
  <2>3. n # 0
    BY <1>4, <2>2 DEF TakenUpTo
  <2>4. n \in 1..Len(s) /\ n - 1 \in 0..Len(s) /\ n - 1 \notin K
    BY <2>2, <2>3
  <2>5. T[n - 1] = f[n - 1]
    BY <2>4
  <2>6. T[n] = f[n]
    BY <1>4, <2>4, <2>5 DEF TakenUpTo
  <2> QED
    BY <2>2, <2>6
<1>6. Len(s) \in 0..Len(s)
  OBVIOUS
<1> QED
  BY <1>1, <1>5, <1>6

\* Nothing is taken before the first sale, and each sale takes its part.
LEMMA TakenAppend ==
    ASSUME NEW s \in Seq(Sale), NEW x \in Sale, NEW id
    PROVE  Taken(Append(s, x), id) = Taken(s, id) + Part(x, id)
<1>1. Len(s) \in Nat
  OBVIOUS
<1>2. PICK f : TakenUpTo(f, s, id, Len(s))
  BY <1>1, TakenExist
<1>3. Taken(s, id) = f[Len(s)]
  BY <1>2, TakenOf
<1> DEFINE t == Append(s, x)
           n == Len(s)
           g == [k \in 0..n + 1 |-> IF k = n + 1 THEN f[n] + Part(x, id) ELSE f[k]]
<1>4. /\ t \in Seq(Sale) /\ Len(t) = n + 1 /\ t[n + 1] = x
      /\ \A k \in 1..n : t[k] = s[k]
  OBVIOUS
<1>5. /\ DOMAIN g = 0..n + 1 /\ g[n + 1] = f[n] + Part(x, id)
      /\ \A k \in 0..n : g[k] = f[k]
  BY <1>1
<1> HIDE DEF t, n, g
<1>6. n \in Nat
  BY <1>1 DEF n
<1>7. TakenUpTo(f, s, id, n)
  BY <1>2 DEF n
<1>8. g[0] = 0
  <2>1. 0 \in 0..n
    BY <1>6
  <2> QED
    BY <1>5, <1>7, <2>1 DEF TakenUpTo
<1>9. ASSUME NEW k \in 1..n + 1 PROVE g[k] = g[k - 1] + Part(t[k], id)
  <2>1. k - 1 \in 0..n
    BY <1>6
  <2>2. CASE k = n + 1
    <3>1. k - 1 = n
      BY <1>6, <2>2
    <3> QED
      BY <1>4, <1>5, <2>1, <2>2, <3>1
  <2>3. CASE k # n + 1
    <3>1. k \in 1..n /\ k \in 0..n
      BY <1>6, <2>3
    <3> QED
      BY <1>4, <1>5, <1>7, <2>1, <3>1 DEF TakenUpTo
  <2> QED
    BY <2>2, <2>3
<1>10. TakenUpTo(g, t, id, Len(t))
  BY <1>4, <1>5, <1>8, <1>9 DEF TakenUpTo
<1>11. Taken(t, id) = g[n + 1]
  BY <1>4, <1>10, TakenOf
<1> QED
  BY <1>3, <1>5, <1>11 DEF t, n

\* Nothing is taken before the first sale.
LEMMA TakenNothing ==
    ASSUME NEW id
    PROVE  Taken(<<>>, id) = 0
<1> DEFINE f == [k \in 0..0 |-> 0]
<1>1. DOMAIN f = 0..0 /\ f[0] = 0
  OBVIOUS
<1> HIDE DEF f
<1>2. TakenUpTo(f, <<>>, id, Len(<<>>))
  BY <1>1 DEF TakenUpTo
<1>3. <<>> \in Seq(Sale) /\ Len(<<>>) = 0
  OBVIOUS
<1> QED
  BY <1>1, <1>2, <1>3, TakenOf

\* What is taken is an amount.
LEMMA TakenType ==
    ASSUME NEW s \in Seq(Sale), NEW id
    PROVE  Taken(s, id) \in Int
<1>1. /\ Len(s) \in Nat /\ \A k \in 1..Len(s) : s[k] \in Sale
  OBVIOUS
<1>2. PICK f : TakenUpTo(f, s, id, Len(s))
  BY <1>1, TakenExist
<1> DEFINE K == {k \in 0..Len(s) : f[k] \notin Int}
<1>3. K = {}
  <2> SUFFICES ASSUME K # {} PROVE FALSE
    OBVIOUS
  <2>1. PICK n \in K : \A y \in K : n <= y
    <3>1. K \in SUBSET Nat
      OBVIOUS
    <3> QED
      BY <3>1, LeastExists
  <2>2. n # 0
    BY <1>2, <2>1 DEF TakenUpTo
  <2>3. n \in 1..Len(s) /\ n - 1 \in 0..Len(s) /\ n - 1 \notin K
    BY <1>1, <2>1, <2>2
  <2>4. f[n] = f[n - 1] + Part(s[n], id) /\ f[n - 1] \in Int
    BY <1>2, <2>3 DEF TakenUpTo
  <2>5. Part(s[n], id) \in Int
    BY <1>1, <2>3 DEF Part, Sale
  <2> QED
    BY <2>1, <2>4, <2>5
<1>4. Len(s) \in 0..Len(s)
  BY <1>1
<1> QED
  BY <1>2, <1>3, <1>4, TakenOf

-----------------------------------------------------------------------------
(* The invariant of the book and the fills *)

\* A vector drawn from orders with ids of their own has such orders.
LEMMA DrawnOwnIds ==
    ASSUME NEW s, NEW t, DrawnFrom(t, s),
           \A m, n \in DOMAIN s : s[m].id = s[n].id => m = n
    PROVE  \A k, l \in DOMAIN t : t[k].id = t[l].id => k = l
BY DEF DrawnFrom

\* The fills' invariant holds when the file is loaded.
LEMMA FillsInvInit == BookInit => FillsInv
BY BookInvInit DEF BookInit, LocalsDead, CopiesTracked, FillsInv

\* An insert of a new order keeps the ids apart.
LEMMA InsertKeepsIds ==
    ASSUME BookInv, OwnIds, InsertNew
    PROVE  OwnIds' /\ CopiesTracked'
<1>1. PICK e \in Entry : /\ \A n \in DOMAIN orders : orders[n].id # e.id
                         /\ insertOrder(e)
  BY DEF InsertNew
<1> DEFINE s == Append(orders, e)
<1>2. orders \in Seq(Entry)
  BY DEF BookInv, BookTypeOK
<1>3. \A m, n \in DOMAIN s : s[m].id = s[n].id => m = n
  <2>1. /\ s \in Seq(Entry) /\ DOMAIN s = 1..Len(orders) + 1 /\ s[Len(orders) + 1] = e
        /\ \A n \in DOMAIN orders : s[n] = orders[n]
        /\ DOMAIN orders = 1..Len(orders) /\ Len(orders) \in Nat
    BY <1>2
  <2> HIDE DEF s
  <2>2. \A n \in DOMAIN s : n = Len(orders) + 1 \/ n \in DOMAIN orders
    BY <2>1
  <2> QED
    BY <1>1, <2>1, <2>2 DEF OwnIds
<1>4. s \in Seq(Entry) /\ orders' = StableSort(s, comapreByTimestamp)
  BY <1>1, <1>2 DEF insertOrder
<1> HIDE DEF s
<1>5. DrawnFrom(orders', s)
  BY <1>4, StableSortProperties
<1>6. OwnIds'
  BY <1>3, <1>5, DrawnOwnIds DEF OwnIds
<1>7. returned'
  BY <1>1 DEF insertOrder, matchVars
<1> QED
  BY <1>6, <1>7 DEF CopiesTracked

\* The copies start out as the orders, each of one of its own.
LEMMA CopiesStart ==
    ASSUME orders \in Seq(Entry), OwnIds, NEW type, NEW p, NEW t, NEW Before(_, _),
           NEW c \in Sortings(getOrders(type, p, t), Before)
    PROVE  /\ \A k \in DOMAIN c : \E n \in Visible(type, p, t) : c[k] = orders[n]
           /\ \A k, l \in DOMAIN c : c[k].id = c[l].id => k = l
<1> DEFINE K == Visible(type, p, t)
           s == At(orders, K)
<1>1. K \in SUBSET DOMAIN orders
  BY DEF Visible
<1> HIDE DEF K
<1>2. /\ \A k \in DOMAIN s : Nth(K, k) \in K /\ s[k] = orders[Nth(K, k)]
      /\ DrawnFrom(s, orders)
  BY <1>1, AtProperties, AtDrawn
<1>3. DrawnFrom(c, s)
  BY SortingDrawn DEF getOrders, K
<1> HIDE DEF s
<1>4. \A k, l \in DOMAIN s : s[k].id = s[l].id => k = l
  BY <1>2, DrawnOwnIds DEF OwnIds
<1>5. \A k, l \in DOMAIN c : c[k].id = c[l].id => k = l
  BY <1>3, <1>4, DrawnOwnIds
<1>6. \A k \in DOMAIN c : \E n \in K : c[k] = orders[n]
  BY <1>2, <1>3 DEF DrawnFrom
<1> QED
  BY <1>5, <1>6 DEF K

\* The copies and sorts start the account of a call.
LEMMA MatchBeginTracks ==
    ASSUME BookInv, OwnIds, NEW p \in Nat, NEW t \in Nat, MatchBegin(p, t)
    PROVE  OwnIds' /\ CopiesTracked'
<1>1. /\ UNCHANGED orders /\ sales' = <<>>
      /\ call'.product = p /\ call'.timestamp = t
  BY DEF MatchBegin
<1>2. orders \in Seq(Entry) /\ \A n \in DOMAIN orders : orders[n].amount > 0
  BY DEF BookInv, BookTypeOK, Live
<1>3. \A n \in DOMAIN orders : orders[n].amount \in Int
  BY <1>2, OrderFields
<1>4. \A id : Taken(sales', id) = 0
  BY <1>1, TakenNothing
<1>5. ASSUME NEW type, NEW c,
             \A k \in DOMAIN c : \E n \in Visible(type, p, t) : c[k] = orders[n],
             \A k, l \in DOMAIN c : c[k].id = c[l].id => k = l
      PROVE  Tracks(c, Visible(type, p, t), orders, sales')
  <2>1. Visible(type, p, t) \subseteq DOMAIN orders
    BY DEF Visible
  <2>2. ASSUME NEW k \in DOMAIN c
        PROVE  /\ c[k].amount >= 0
               /\ \E n \in Visible(type, p, t) :
                    /\ c[k].id = orders[n].id /\ c[k].username = orders[n].username
                    /\ c[k].price = orders[n].price
                    /\ c[k].amount = orders[n].amount - Taken(sales', orders[n].id)
    <3>1. PICK n \in Visible(type, p, t) : c[k] = orders[n]
      BY <1>5
    <3>2. c[k].amount = orders[n].amount - Taken(sales', orders[n].id)
      BY <1>3, <1>4, <2>1, <3>1
    <3>3. c[k].amount >= 0
      BY <1>2, <1>3, <2>1, <3>1
    <3> QED
      BY <3>1, <3>2, <3>3
  <2> QED
    BY <1>5, <2>2 DEF Tracks
<1>6. Tracks(asks', Visible("ask", p, t), orders, sales')
  BY <1>2, <1>5, CopiesStart DEF MatchBegin
<1>7. Tracks(bids', Visible("bid", p, t), orders, sales')
  BY <1>2, <1>5, CopiesStart DEF MatchBegin
<1>8. \A type : Visible(type, call.product, call.timestamp)' = Visible(type, p, t)
  BY <1>1 DEF Visible
<1>9. OwnIds'
  BY <1>1 DEF OwnIds
<1> QED
  BY <1>1, <1>6, <1>7, <1>8, <1>9 DEF CopiesTracked

\* A fill takes the same off a copy as its sale takes from the order, and leaves
\* the copies of the other orders of that side alone.
LEMMA FillKeepsSide ==
    ASSUME NEW side \in Seq(Entry), NEW o \in Seq(Entry), NEW V \in SUBSET DOMAIN o,
           NEW s \in Seq(Sale), Tracks(side, V, o, s),
           NEW n \in DOMAIN side, NEW v \in Int, v >= 0, v <= side[n].amount,
           NEW x \in Sale, x.amount = side[n].amount - v,
           side[n].id \in {x.ask, x.bid},
           \A k \in DOMAIN side \ {n} : side[k].id \notin {x.ask, x.bid}
    PROVE  Tracks([side EXCEPT ![n].amount = v], V, o, Append(s, x))
<1> DEFINE t == [side EXCEPT ![n].amount = v]
           r == Append(s, x)
<1>1. /\ DOMAIN t = DOMAIN side
      /\ \A m \in DOMAIN side : /\ t[m].price = side[m].price
                                /\ t[m].amount = IF m = n THEN v ELSE side[m].amount
                                /\ t[m].id = side[m].id
                                /\ t[m].username = side[m].username
  BY AmountUpdate
<1> HIDE DEF t, r
<1>2. \A id : Taken(r, id) = Taken(s, id) + Part(x, id)
  BY TakenAppend DEF r
<1>3. ASSUME NEW k \in DOMAIN t
      PROVE  /\ t[k].amount >= 0
             /\ \E m \in V :
                  /\ t[k].id = o[m].id
                  /\ t[k].username = o[m].username /\ t[k].price = o[m].price
                  /\ t[k].amount = o[m].amount - Taken(r, o[m].id)
  <2>1. PICK m \in V : /\ side[k].id = o[m].id
                       /\ side[k].username = o[m].username
                       /\ side[k].price = o[m].price
                       /\ side[k].amount = o[m].amount - Taken(s, o[m].id)
    BY <1>1 DEF Tracks
  <2>2. side[k].amount >= 0 /\ side[k].amount \in Int /\ side[n].amount \in Int
    BY <1>1, OrderFields DEF Tracks
  <2>3. Part(x, o[m].id) = IF k = n THEN side[n].amount - v ELSE 0
    BY <1>1, <2>1 DEF Part
  <2>4. Taken(r, o[m].id)
          = Taken(s, o[m].id) + IF k = n THEN side[n].amount - v ELSE 0
    BY <1>2, <2>3
  <2>5. Taken(s, o[m].id) \in Int
    BY TakenType
  <2>6. o[m].amount \in Int
    BY OrderFields 
  <2>7. t[k].amount = o[m].amount - Taken(r, o[m].id)
    <3>1. CASE k = n
      <4> DEFINE had == o[m].amount
                 a == side[n].amount
                 old == Taken(s, o[m].id)
                 new == Taken(r, o[m].id)
      <4>1. /\ t[k].amount = v /\ a = had - old /\ new = old + (a - v)
            /\ had \in Int /\ a \in Int /\ old \in Int /\ v \in Int
        BY <1>1, <2>1, <2>2, <2>4, <2>5, <2>6, <3>1
      <4> HIDE DEF had, a, old, new
      <4>2. t[k].amount = had - new
        BY <4>1
      <4> QED
        BY <4>2 DEF had, new
    <3>2. CASE k # n
      BY <1>1, <2>1, <2>2, <2>4, <2>5, <2>6, <3>2
    <3> QED
      BY <3>1, <3>2
  <2>8. t[k].amount >= 0
    BY <1>1, <2>2
  <2> QED
    BY <1>1, <2>1, <2>7, <2>8
<1>4. \A k, l \in DOMAIN t : t[k].id = t[l].id => k = l
  BY <1>1 DEF Tracks
<1> QED
  BY <1>3, <1>4 DEF Tracks, t, r

\* An ask's copy and a bid's copy are of different orders.
LEMMA SidesApart ==
    ASSUME OwnIds, ~returned, CopiesTracked,
           NEW k \in DOMAIN asks, NEW l \in DOMAIN bids
    PROVE  asks[k].id # bids[l].id
<1>1. PICK m \in Visible("ask", call.product, call.timestamp) : asks[k].id = orders[m].id
  BY DEF CopiesTracked, Tracks
<1>2. PICK n \in Visible("bid", call.product, call.timestamp) : bids[l].id = orders[n].id
  BY DEF CopiesTracked, Tracks
<1>3. /\ m \in DOMAIN orders /\ n \in DOMAIN orders
      /\ orders[m].orderType = "ask" /\ orders[n].orderType = "bid"
  BY DEF Visible
<1> QED
  BY <1>1, <1>2, <1>3 DEF OwnIds

\* Every step of the loop keeps the account.
LEMMA MatchLoopTracks ==
    ASSUME FillsInv, MatchLoop
    PROVE  OwnIds' /\ CopiesTracked'
<1>1. LoopInv /\ LoopStep /\ UNCHANGED <<orders, call>> /\ OwnIds /\ orders \in Seq(Entry)
  BY DEF FillsInv, BookInv, BookTypeOK, MatchLoop
<1>2. ~returned
  BY <1>1 DEF LoopStep, OuterSkip, OuterEnter, InnerEnd, InnerSkip, FillEqual, FillAsk, FillBid,
     AtAsk, AtBid, AtCross
<1> DEFINE Va == Visible("ask", call.product, call.timestamp)
           Vb == Visible("bid", call.product, call.timestamp)
<1>3. /\ Tracks(asks, Va, orders, sales) /\ Tracks(bids, Vb, orders, sales) /\ CopiesTracked
      /\ Va \in SUBSET DOMAIN orders /\ Vb \in SUBSET DOMAIN orders
      /\ \A k, l \in DOMAIN asks : asks[k].id = asks[l].id => k = l
      /\ \A k, l \in DOMAIN bids : bids[k].id = bids[l].id => k = l
      /\ asks \in Seq(Entry) /\ bids \in Seq(Entry) /\ sales \in Seq(Sale)
  BY <1>1, <1>2 DEF FillsInv, CopiesTracked, Tracks, Visible, LoopInv, MatchTypeOK
<1>4. Va' = Va /\ Vb' = Vb /\ OwnIds'
  BY <1>1 DEF Visible, OwnIds
<1> HIDE DEF Va, Vb
<1>5. CASE FillEqual \/ FillAsk \/ FillBid
  <2>1. i \in DOMAIN asks /\ j \in DOMAIN bids
    BY <1>5 DEF FillEqual, FillAsk, FillBid, AtCross, AtBid
  <2>2. PICK v, w, x \in Int :
             /\ v <= asks[i].amount /\ w <= bids[j].amount
             /\ x = asks[i].amount - v /\ x = bids[j].amount - w
             /\ v >= 0 /\ w >= 0
             /\ asks' = [asks EXCEPT ![i].amount = v]
             /\ bids' = [bids EXCEPT ![j].amount = w]
             /\ sales' = Append(sales, SaleOf(asks[i], bids[j], x))
    BY <1>1, <1>5, FillCases
  <2> DEFINE sale == SaleOf(asks[i], bids[j], x)
  <2>3. asks[i] \in Entry /\ bids[j] \in Entry
    BY <1>3, <2>1, OrderFields
  <2>4. /\ sale \in Sale /\ sale.amount = x
        /\ sale.ask = asks[i].id /\ sale.bid = bids[j].id
    BY <2>3, SaleOfType DEF SaleOf
  <2>5. sales' = Append(sales, sale)
    BY <2>2
  <2> HIDE DEF sale
  <2>6. \A k \in DOMAIN asks \ {i} : asks[k].id \notin {sale.ask, sale.bid}
    BY <1>1, <1>3, <2>1, <2>4, <1>2, SidesApart
  <2>7. \A k \in DOMAIN bids \ {j} : bids[k].id \notin {sale.ask, sale.bid}
    BY <1>1, <1>3, <2>1, <2>4, <1>2, SidesApart
  <2>8. Tracks([asks EXCEPT ![i].amount = v], Va, orders, Append(sales, sale))
    BY <1>1, <1>3, <2>1, <2>2, <2>4, <2>6, FillKeepsSide
  <2>9. Tracks([bids EXCEPT ![j].amount = w], Vb, orders, Append(sales, sale))
    BY <1>1, <1>3, <2>1, <2>2, <2>4, <2>7, FillKeepsSide
  <2> QED
    BY <1>1, <1>4, <2>2, <2>5, <2>8, <2>9 DEF CopiesTracked, Va, Vb
<1>6. CASE OuterSkip \/ OuterEnter \/ InnerEnd \/ InnerSkip
  <2>1. UNCHANGED <<asks, bids, sales, returned>>
    BY <1>6 DEF OuterSkip, OuterEnter, InnerEnd, InnerSkip
  <2> QED
    BY <1>1, <1>3, <1>4, <2>1 DEF CopiesTracked, Va, Vb
<1> QED
  BY <1>1, <1>5, <1>6 DEF LoopStep

\* The write-back keeps the ids apart.
LEMMA WriteBackIds ==
    ASSUME BookInv, OwnIds, WriteBack
    PROVE  LET w == [n \in DOMAIN orders |-> WrittenBack(orders[n])]
           IN  /\ w \in Seq(Entry) /\ orders' = Erased(w) /\ DOMAIN w = DOMAIN orders
               /\ \A n \in DOMAIN orders : w[n].id = orders[n].id
               /\ \A m, n \in DOMAIN w : w[m].id = w[n].id => m = n
               /\ OwnIds'
<1> DEFINE w == [n \in DOMAIN orders |-> WrittenBack(orders[n])]
<1>1. w \in Seq(Entry) /\ orders' = Erased(w) /\ DOMAIN w = DOMAIN orders
  BY WrittenBackBook DEF WriteBack
<1>2. /\ asks \in Seq(Entry) /\ bids \in Seq(Entry)
      /\ \A n \in DOMAIN orders : orders[n] \in Entry
  BY DEF BookInv, BookTypeOK, MatchTypeOK
<1>3. \A n \in DOMAIN orders : w[n].id = orders[n].id
  BY <1>2, WrittenBackProperties
<1> HIDE DEF w
<1>4. \A m, n \in DOMAIN w : w[m].id = w[n].id => m = n
  BY <1>1, <1>3 DEF OwnIds
<1>5. Live(w) \in SUBSET DOMAIN w
  BY DEF Live
<1>6. DrawnFrom(orders', w)
  BY <1>1, <1>5, AtDrawn DEF Erased
<1>7. OwnIds'
  BY <1>4, <1>6, DrawnOwnIds DEF OwnIds
<1> QED
  BY <1>1, <1>3, <1>4, <1>7 DEF w

\* Every operation keeps the invariant of the book and the fills.
LEMMA FillsInvStep == FillsInv /\ [BookNext]_bookVars => FillsInv'
<1> SUFFICES ASSUME FillsInv, [BookNext]_bookVars PROVE FillsInv'
  OBVIOUS
<1>1. BookInv'
  BY BookInvStep DEF FillsInv
<1>2. CASE InsertNew
  BY <1>1, <1>2, InsertKeepsIds DEF FillsInv
<1>3. ASSUME NEW p \in Nat, NEW t \in Nat, matchAsksToBids(p, t) PROVE FillsInv'
  <2>1. CASE MatchEmpty(p, t)
    BY <1>1, <2>1 DEF MatchEmpty, FillsInv, OwnIds, CopiesTracked
  <2>2. CASE MatchBegin(p, t)
    BY <1>1, <2>2, MatchBeginTracks DEF FillsInv
  <2> QED
    BY <1>3, <2>1, <2>2 DEF matchAsksToBids
<1>4. CASE MatchLoop
  BY <1>1, <1>4, MatchLoopTracks DEF FillsInv
<1>5. CASE WriteBack
  <2>1. returned'
    BY <1>5 DEF WriteBack
  <2>2. OwnIds'
    BY <1>5, WriteBackIds DEF FillsInv
  <2> QED
    BY <1>1, <2>1, <2>2 DEF FillsInv, CopiesTracked
<1>6. CASE UNCHANGED bookVars
  BY <1>1, <1>6 DEF bookVars, matchVars, FillsInv, OwnIds, CopiesTracked, Visible
<1> QED
  BY <1>2, <1>3, <1>4, <1>5, <1>6 DEF BookNext

\* The account of a call: every copy is of an order of its own, and has what the
\* sales have left of it.
THEOREM FillsInvariant == BookSpec => []FillsInv
BY FillsInvInit, FillsInvStep, PTL DEF BookSpec

\* The write-back gives an order whose key no other order of its side has what the
\* sales of the call have left of it, and nothing negative.
LEMMA UniqueWrittenBack ==
    ASSUME FillsInv, ~returned, NEW n \in DOMAIN orders, Matched(orders[n]),
           \A m \in DOMAIN orders \ {n} :
              Matched(orders[m]) /\ orders[m].orderType = orders[n].orderType =>
                <<orders[m].username, orders[m].price>> # <<orders[n].username, orders[n].price>>
    PROVE  /\ WrittenBack(orders[n]).amount = orders[n].amount - Filled(orders[n].id)
           /\ WrittenBack(orders[n]).amount >= 0
<1> DEFINE e == orders[n]
           side == IF e.orderType = "ask" THEN asks ELSE bids
           V == Visible(e.orderType, call.product, call.timestamp)
           last == Max(Twins(e, side))
<1>1. /\ e \in Entry /\ e.orderType \in {"ask", "bid"} /\ e.product = call.product
      /\ e.timestamp <= call.timestamp
  BY DEF Matched, FillsInv, BookInv, BookTypeOK
<1>2. n \in V
  BY <1>1 DEF Visible
<1>3. Tracks(side, V, orders, sales) /\ Twins(e, side) # {} /\ side \in Seq(Entry)
  <2>1. CASE e.orderType = "ask"
    BY <1>2, <2>1 DEF FillsInv, CopiesTracked, BookInv, BookTypeOK, MatchTypeOK, CopiesComplete
  <2>2. CASE e.orderType = "bid"
    BY <1>2, <2>2 DEF FillsInv, CopiesTracked, BookInv, BookTypeOK, MatchTypeOK, CopiesComplete
  <2> QED
    BY <1>1, <2>1, <2>2
<1>4. WrittenBack(e) = [e EXCEPT !.amount = side[last].amount]
  BY <1>1, <1>3 DEF WrittenBack
<1> HIDE DEF side
<1>5. last \in Twins(e, side)
  <2>1. Len(side) \in Nat /\ Twins(e, side) \in SUBSET (1..Len(side))
    BY <1>3 DEF Twins
  <2> QED
    BY <1>3, <2>1, MaxProperties
<1> HIDE DEF last
<1>6. last \in DOMAIN side /\ side[last].username = e.username /\ side[last].price = e.price
  BY <1>5 DEF Twins
<1>7. PICK m \in V : /\ side[last].username = orders[m].username
                     /\ side[last].price = orders[m].price
                     /\ side[last].amount = orders[m].amount - Taken(sales, orders[m].id)
  BY <1>3, <1>6 DEF Tracks
<1>8. m = n
  <2>1. m \in DOMAIN orders /\ Matched(orders[m]) /\ orders[m].orderType = e.orderType
    BY <1>1 DEF Visible, Matched
  <2> QED
    BY <1>6, <1>7, <2>1
<1>9. WrittenBack(e).amount = side[last].amount
  BY <1>1, <1>4 DEF Entry
<1>10. side[last].amount >= 0
  BY <1>3, <1>6 DEF Tracks
<1> QED
  BY <1>7, <1>8, <1>9, <1>10 DEF Filled

\* What a call sells of an order is what the order has less in the book after the
\* call, if no other order of its side has its username and price: the write-back
\* by key loses nothing then.
THEOREM FillsAreDebited == BookSpec => FillsDebitedIfUnique
<1>1. ASSUME FillsInv, BookNext, ~returned, returned',
             NEW n \in DOMAIN orders, Matched(orders[n]),
             \A m \in DOMAIN orders \ {n} :
                Matched(orders[m]) /\ orders[m].orderType = orders[n].orderType =>
                  <<orders[m].username, orders[m].price>>
                    # <<orders[n].username, orders[n].price>>
      PROVE  Debited(orders[n])
  <2> DEFINE e == orders[n]
             w == [k \in DOMAIN orders |-> WrittenBack(orders[k])]
             here == {k \in DOMAIN orders' : orders'[k].id = e.id}
  <2>1. WriteBack
    BY <1>1, RunningStep DEF MatchLoop, LoopStep, OuterSkip, OuterEnter, InnerEnd, InnerSkip,
       FillEqual, FillAsk, FillBid
  <2>2. /\ w[n].amount = e.amount - Filled(e.id) /\ w[n].amount >= 0
    BY <1>1, UniqueWrittenBack
  <2>3. /\ w \in Seq(Entry) /\ orders' = Erased(w) /\ DOMAIN w = DOMAIN orders
        /\ w[n].id = e.id
        /\ \A k, m \in DOMAIN w : w[k].id = w[m].id => k = m
    BY <1>1, <2>1, WriteBackIds DEF FillsInv
  <2> HIDE DEF w
  <2>4. /\ orders' \in Seq(Entry)
        /\ \A k \in DOMAIN orders' : \E m \in Live(w) : orders'[k] = w[m]
        /\ \A m \in Live(w) : \E k \in DOMAIN orders' : orders'[k] = w[m]
    BY <2>3, ErasedProperties
  <2>5. \A k \in here : n \in Live(w) /\ orders'[k] = w[n]
    BY <1>1, <2>3, <2>4 DEF Live
  <2>6. w[n].amount \in Int
    BY <1>1, <2>3, OrderFields
  <2>7. Remaining(orders', e.id) = w[n].amount
    <3>1. CASE here = {}
      <4>1. n \notin Live(w)
        BY <2>3, <2>4, <3>1
      <4>2. w[n].amount = 0
        BY <1>1, <2>2, <2>3, <2>6, <4>1 DEF Live
      <4> QED
        BY <3>1, <4>2 DEF Remaining
    <3>2. CASE here # {}
      <4>1. here \in SUBSET Nat
        BY <2>4
      <4>2. Min(here) \in here
        BY <3>2, <4>1, MinProperties
      <4>3. orders'[Min(here)].amount = w[n].amount
        BY <2>5, <4>2
      <4> QED
        BY <3>2, <4>3 DEF Remaining
    <3> QED
      BY <3>1, <3>2
  <2> QED
    BY <2>2, <2>7 DEF Debited
<1>2. FillsInv /\ [BookNext]_bookVars =>
        [~returned /\ returned' =>
         \A n \in DOMAIN orders :
            LET e == orders[n]
            IN  (/\ Matched(e)
                 /\ \A m \in DOMAIN orders \ {n} :
                       Matched(orders[m]) /\ orders[m].orderType = e.orderType =>
                         <<orders[m].username, orders[m].price>> # <<e.username, e.price>>)
                => Debited(e)]_bookVars
  BY <1>1
<1> QED
  BY <1>2, FillsInvariant, PTL DEF BookSpec, FillsDebitedIfUnique

-----------------------------------------------------------------------------
(* The orders of the user, for the programs that settle his sales.  While he has   *)
(* at most one order in the book, he has at most one copy in a match, and the      *)
(* write-back gives that order the amount of that copy.                            *)

Mine(e) == e.username = "simuser"
SoleOwner(s) == \A m, n \in DOMAIN s : Mine(s[m]) /\ Mine(s[n]) => m = n

\* c is a copy of an order that takes part in the running match.
CopyOf(c, type) ==
    \E n \in Visible(type, call.product, call.timestamp) :
        orders[n].username = c.username /\ orders[n].price = c.price

CopiesFromBook ==
    ~returned => /\ \A m \in DOMAIN asks : CopyOf(asks[m], "ask")
                 /\ \A m \in DOMAIN bids : CopyOf(bids[m], "bid")

OneOwner == SoleOwner(orders) /\ (~returned => SoleOwner(asks) /\ SoleOwner(bids))

\* What is left of an order of the book, what it costs its owner, and what a sale
\* does.
Left(e) == IF returned THEN e.amount ELSE WrittenBack(e).amount
Cost(e, a) == IF e.orderType = "bid" THEN a * e.price ELSE a
Debit(s) ==
    IF s.username # "simuser" THEN 0
    ELSE IF s.orderType = "bidsale" THEN s.amount * s.price ELSE s.amount

\* Orders drawn from orders of which the user has one at most have one of his at most.
LEMMA SoleOwnerDrawn ==
    ASSUME NEW s, NEW t, SoleOwner(s), DrawnFrom(t, s)
    PROVE  SoleOwner(t)
<1> SUFFICES ASSUME NEW k \in DOMAIN t, NEW l \in DOMAIN t, Mine(t[k]), Mine(t[l]), k # l
             PROVE  FALSE
  BY DEF SoleOwner
<1>1. PICK m \in DOMAIN s, n \in DOMAIN s : m # n /\ t[k] = s[m] /\ t[l] = s[n]
  BY DEF DrawnFrom
<1> QED
  BY <1>1 DEF SoleOwner

\* The user's copy is the one twin of the user's order.
LEMMA SoleTwin ==
    ASSUME NEW side \in Seq(Entry), SoleOwner(side), NEW m \in DOMAIN side, Mine(side[m]),
           NEW e, Mine(e), e.price = side[m].price
    PROVE  Twins(e, side) # {} /\ Max(Twins(e, side)) = m
<1>1. Twins(e, side) = {m}
  BY DEF Twins, SoleOwner, Mine
<1>2. Len(side) \in Nat /\ {m} \in SUBSET (1..Len(side)) /\ {m} # {}
  OBVIOUS
<1>3. Max({m}) \in {m}
  BY <1>2, MaxProperties
<1> QED
  BY <1>1, <1>3

\* The copies of one side are of orders that take part, each of another one.
LEMMA CopiesDrawn ==
    ASSUME orders \in Seq(Entry), NEW type, NEW p, NEW t, NEW Before(_, _),
           NEW c \in Sortings(getOrders(type, p, t), Before)
    PROVE  /\ DrawnFrom(c, orders)
           /\ \A k \in DOMAIN c : \E n \in Visible(type, p, t) : c[k] = orders[n]
<1> DEFINE K == Visible(type, p, t)
           s == getOrders(type, p, t)
<1>1. K \in SUBSET DOMAIN orders
  BY DEF Visible
<1>2. s = At(orders, K)
  BY DEF getOrders
<1> HIDE DEF K, s
<1>3. /\ DrawnFrom(s, orders)
      /\ \A k \in DOMAIN s : \E n \in K : s[k] = orders[n]
  BY <1>1, <1>2, AtDrawn, AtProperties
<1>4. c \in Sortings(s, Before)
  BY DEF s
<1>5. DrawnFrom(c, s)
  BY <1>4, SortingDrawn
<1> QED
  BY <1>3, <1>5 DEF DrawnFrom, K

\* The copies a match begins with.
LEMMA MatchBeginCopies ==
    ASSUME orders \in Seq(Entry), NEW p, NEW t, MatchBegin(p, t)
    PROVE  /\ asks' \in Seq(Entry) /\ bids' \in Seq(Entry)
           /\ DrawnFrom(asks', orders) /\ DrawnFrom(bids', orders)
           /\ CopiesFromBook'
<1>1. /\ returned' = FALSE /\ UNCHANGED orders /\ call' = [product |-> p, timestamp |-> t]
  BY DEF MatchBegin
<1>2. /\ DrawnFrom(asks', orders)
      /\ \A k \in DOMAIN asks' : \E n \in Visible("ask", p, t) : asks'[k] = orders[n]
  BY CopiesDrawn DEF MatchBegin
<1>3. /\ DrawnFrom(bids', orders)
      /\ \A k \in DOMAIN bids' : \E n \in Visible("bid", p, t) : bids'[k] = orders[n]
  BY CopiesDrawn DEF MatchBegin
<1>4. asks' \in Seq(Entry) /\ bids' \in Seq(Entry)
  BY CopiesProperties DEF MatchBegin
<1>5. CopiesFromBook'
  BY <1>1, <1>2, <1>3 DEF CopiesFromBook, CopyOf, Visible
<1> QED
  BY <1>2, <1>3, <1>4, <1>5

\* When a match begins the user's copy is as his order is.
LEMMA MatchBeginLeft ==
    ASSUME orders \in Seq(Entry), SoleOwner(orders), NEW p, NEW t, MatchBegin(p, t)
    PROVE  /\ OneOwner'
           /\ \A n \in DOMAIN orders : Mine(orders[n]) => Left(orders[n])' = Left(orders[n])
<1>1. /\ returned /\ returned' = FALSE /\ UNCHANGED orders
      /\ call' = [product |-> p, timestamp |-> t]
      /\ asks' \in Seq(Entry) /\ bids' \in Seq(Entry)
      /\ DrawnFrom(asks', orders) /\ DrawnFrom(bids', orders)
  BY MatchBeginCopies DEF MatchBegin
<1>2. SoleOwner(asks') /\ SoleOwner(bids')
  BY <1>1, SoleOwnerDrawn
<1>3. OneOwner'
  BY <1>1, <1>2 DEF OneOwner, SoleOwner, Mine
<1>4. ASSUME NEW n \in DOMAIN orders, Mine(orders[n])
      PROVE  Left(orders[n])' = Left(orders[n])
  <2> DEFINE e == orders[n]
             side == IF e.orderType = "ask" THEN asks' ELSE bids'
  <2>1. e \in Entry /\ side \in Seq(Entry)
    BY <1>1
  <2>2. Left(e)' = WrittenBack(e)'.amount /\ Left(e) = e.amount
    BY <1>1 DEF Left
  <2>3. CASE ~ (/\ e.timestamp <= t /\ e.product = p
                /\ e.orderType \in {"ask", "bid"} /\ Twins(e, side) # {})
    <3>1. WrittenBack(e)' = e
      BY <1>1, <2>3 DEF WrittenBack, Twins
    <3> QED
      BY <2>2, <3>1
  <2>4. CASE /\ e.timestamp <= t /\ e.product = p
             /\ e.orderType \in {"ask", "bid"} /\ Twins(e, side) # {}
    <3>1. WrittenBack(e)' = [e EXCEPT !.amount = side[Max(Twins(e, side))].amount]
      BY <1>1, <2>4 DEF WrittenBack, Twins
    <3>2. PICK m \in Twins(e, side) : TRUE
      BY <2>4
    <3>3. m \in DOMAIN side /\ Mine(side[m]) /\ side[m].price = e.price
      BY <1>4, <3>2 DEF Twins, Mine
    <3>4. Max(Twins(e, side)) = m
      BY <1>2, <1>4, <2>1, <3>3, SoleTwin
    <3>5. PICK l \in DOMAIN orders : side[m] = orders[l]
      BY <1>1, <3>3 DEF DrawnFrom
    <3>6. l = n
      BY <1>4, <3>3, <3>5 DEF SoleOwner
    <3>7. WrittenBack(e)'.amount = e.amount
      BY <2>1, <3>1, <3>4, <3>5, <3>6 DEF Entry
    <3> QED
      BY <2>2, <3>7
  <2> QED
    BY <2>3, <2>4
<1> QED
  BY <1>3, <1>4

\* The user's order that a copy of his stands for, when he has only one.
LEMMA CopiedOrder ==
    ASSUME MatchTypeOK, orders \in Seq(Entry), CopiesFromBook, OneOwner, ~returned,
           NEW type \in {"ask", "bid"},
           NEW m \in DOMAIN (IF type = "ask" THEN asks ELSE bids),
           Mine((IF type = "ask" THEN asks ELSE bids)[m])
    PROVE  LET side == IF type = "ask" THEN asks ELSE bids IN
           \E n \in DOMAIN orders :
              /\ Mine(orders[n]) /\ orders[n].orderType = type
              /\ orders[n].product = call.product /\ orders[n].timestamp <= call.timestamp
              /\ orders[n].price = side[m].price
              /\ Left(orders[n]) = side[m].amount
              /\ \A l \in DOMAIN orders : Mine(orders[l]) => l = n
<1> DEFINE side == IF type = "ask" THEN asks ELSE bids
<1>1. asks \in Seq(Entry) /\ bids \in Seq(Entry)
  BY DEF MatchTypeOK
<1>2. side \in Seq(Entry) /\ SoleOwner(side) /\ m \in DOMAIN side /\ Mine(side[m])
  BY <1>1 DEF OneOwner
<1>3. CopyOf(side[m], type)
  BY DEF CopiesFromBook
<1>4. PICK n \in Visible(type, call.product, call.timestamp) :
         orders[n].username = side[m].username /\ orders[n].price = side[m].price
  BY <1>3 DEF CopyOf
<1>5. /\ n \in DOMAIN orders /\ Mine(orders[n]) /\ orders[n].orderType = type
      /\ orders[n].product = call.product /\ orders[n].timestamp <= call.timestamp
  BY <1>2, <1>4 DEF Visible, Mine
<1> HIDE DEF side
<1>6. Twins(orders[n], side) # {} /\ Max(Twins(orders[n], side)) = m
  BY <1>2, <1>4, <1>5, SoleTwin
<1>7. WrittenBack(orders[n]) = [orders[n] EXCEPT !.amount = side[m].amount]
  BY <1>5, <1>6 DEF WrittenBack, side
<1>8. Left(orders[n]) = side[m].amount
  <2>1. orders[n] \in Entry
    BY <1>5
  <2> QED
    BY <1>7, <2>1 DEF Left, Entry
<1>9. \A l \in DOMAIN orders : Mine(orders[l]) => l = n
  BY <1>5 DEF OneOwner, SoleOwner
<1> QED
  BY <1>4, <1>5, <1>8, <1>9 DEF side

\* What is left of the user's order depends on his copy on its side only.
LEMMA LeftKept ==
    ASSUME MatchTypeOK, orders \in Seq(Entry), ~returned, ~returned', UNCHANGED <<call, orders>>,
           NEW n \in DOMAIN orders, Mine(orders[n]),
           DOMAIN asks' = DOMAIN asks, DOMAIN bids' = DOMAIN bids,
           \A m \in DOMAIN asks : /\ asks'[m].username = asks[m].username
                                  /\ asks'[m].price = asks[m].price
                                  /\ Mine(asks[m]) => asks'[m].amount = asks[m].amount,
           \A m \in DOMAIN bids : /\ bids'[m].username = bids[m].username
                                  /\ bids'[m].price = bids[m].price
                                  /\ Mine(bids[m]) => bids'[m].amount = bids[m].amount
    PROVE  Left(orders[n])' = Left(orders[n])
<1> DEFINE e == orders[n]
           side == IF e.orderType = "ask" THEN asks ELSE bids
           sideP == IF e.orderType = "ask" THEN asks' ELSE bids'
           replaced == /\ e.timestamp <= call.timestamp /\ e.product = call.product
                       /\ e.orderType \in {"ask", "bid"} /\ Twins(e, side) # {}
<1>1. e \in Entry /\ side \in Seq(Entry)
  BY DEF MatchTypeOK
<1>2. Twins(e, sideP) = Twins(e, side)
  BY DEF Twins
<1>3. /\ WrittenBack(e) = IF replaced THEN [e EXCEPT !.amount = side[Max(Twins(e, side))].amount]
                                      ELSE e
      /\ WrittenBack(e)' = IF replaced
                           THEN [e EXCEPT !.amount = sideP[Max(Twins(e, side))].amount]
                           ELSE e
  BY <1>2 DEF WrittenBack, Twins
<1>4. ASSUME replaced
      PROVE  sideP[Max(Twins(e, side))].amount = side[Max(Twins(e, side))].amount
  <2>1. Len(side) \in Nat /\ Twins(e, side) \in SUBSET (1..Len(side)) /\ Twins(e, side) # {}
    BY <1>1, <1>4 DEF Twins
  <2>2. Max(Twins(e, side)) \in Twins(e, side)
    BY <2>1, MaxProperties
  <2>3. PICK m : m = Max(Twins(e, side))
    OBVIOUS
  <2>4. m \in DOMAIN side /\ Mine(side[m])
    BY <2>2, <2>3 DEF Twins, Mine
  <2>5. sideP[m].amount = side[m].amount
    BY <2>4
  <2> QED
    BY <2>3, <2>5
<1> HIDE DEF replaced, side, sideP
<1>5. WrittenBack(e)' = WrittenBack(e)
  BY <1>3, <1>4
<1> QED
  BY <1>5 DEF Left

\* What a fill sells, and what is left of the user's order: x is taken from the ask,
\* which keeps v, and from the bid, which keeps w; the order it was made of, if it was
\* the user's, is the only one he has.
FilledOrder(l, type, c, kept) ==
    /\ Mine(orders[l]) /\ orders[l].orderType = type /\ orders[l].product = call.product
    /\ orders[l].price = c.price /\ Left(orders[l]) = c.amount
    /\ Left(orders[l])' = kept
    /\ \A k \in DOMAIN orders : Mine(orders[k]) => k = l

LEMMA FillLeaves ==
    ASSUME LoopInv, orders \in Seq(Entry), CopiesFromBook, OneOwner,
           FillEqual \/ FillAsk \/ FillBid, UNCHANGED <<orders, call, returned>>
    PROVE  \E v, w, x \in Int :
             /\ v >= 0 /\ w >= 0 /\ x > 0
             /\ asks[i].amount = x + v /\ bids[j].amount = x + w
             /\ sales' = Append(sales, SaleOf(asks[i], bids[j], x))
             /\ \/ /\ Mine(bids[j]) /\ ~Mine(asks[i])
                   /\ \E l \in DOMAIN orders : FilledOrder(l, "bid", bids[j], w)
                \/ /\ Mine(asks[i]) /\ ~Mine(bids[j])
                   /\ \E l \in DOMAIN orders : FilledOrder(l, "ask", asks[i], v)
                \/ /\ ~Mine(asks[i]) /\ ~Mine(bids[j])
                   /\ \A l \in DOMAIN orders :
                         Mine(orders[l]) => Left(orders[l])' = Left(orders[l])
<1>1. asks \in Seq(Entry) /\ bids \in Seq(Entry) /\ MatchTypeOK
  BY DEF LoopInv, MatchTypeOK
<1>2. ~returned /\ i \in DOMAIN asks /\ j \in DOMAIN bids
  BY DEF FillEqual, FillAsk, FillBid, AtCross, AtBid
<1>3. PICK v \in Int, w \in Int, x \in Int :
         /\ x = asks[i].amount - v /\ x = bids[j].amount - w
         /\ v >= 0 /\ w >= 0 /\ x > 0
         /\ asks' = [asks EXCEPT ![i].amount = v]
         /\ bids' = [bids EXCEPT ![j].amount = w]
         /\ sales' = Append(sales, SaleOf(asks[i], bids[j], x))
  BY FillCases
<1>4. /\ DOMAIN asks' = DOMAIN asks /\ DOMAIN bids' = DOMAIN bids
      /\ asks' \in Seq(Entry) /\ bids' \in Seq(Entry)
      /\ \A m \in DOMAIN asks : /\ asks'[m].username = asks[m].username
                                /\ asks'[m].price = asks[m].price
                                /\ asks'[m].amount = IF m = i THEN v ELSE asks[m].amount
      /\ \A m \in DOMAIN bids : /\ bids'[m].username = bids[m].username
                                /\ bids'[m].price = bids[m].price
                                /\ bids'[m].amount = IF m = j THEN w ELSE bids[m].amount
  BY <1>1, <1>2, <1>3, AmountUpdate
<1>5. asks[i].amount = x + v /\ bids[j].amount = x + w
  <2>1. \A a, r, y \in Int : y = a - r => a = y + r
    OBVIOUS
  <2>2. asks[i].amount \in Int /\ bids[j].amount \in Int
    BY <1>1, <1>2, OrderFields
  <2>3. x = asks[i].amount - v /\ x = bids[j].amount - w
    BY <1>3
  <2> QED
    BY <2>1, <2>2, <2>3
<1>6. ~(Mine(asks[i]) /\ Mine(bids[j]))
  <2> SUFFICES ASSUME Mine(asks[i]), Mine(bids[j]) PROVE FALSE
    OBVIOUS
  <2>1. PICK l \in DOMAIN orders :
           /\ Mine(orders[l]) /\ orders[l].orderType = "ask"
           /\ \A k \in DOMAIN orders : Mine(orders[k]) => k = l
    BY <1>1, <1>2, CopiedOrder
  <2>2. PICK k \in DOMAIN orders : Mine(orders[k]) /\ orders[k].orderType = "bid"
    BY <1>1, <1>2, CopiedOrder
  <2> QED
    BY <2>1, <2>2
<1>7. CASE ~Mine(asks[i]) /\ ~Mine(bids[j])
  <2>1. \A l \in DOMAIN orders : Mine(orders[l]) => Left(orders[l])' = Left(orders[l])
    BY <1>1, <1>2, <1>4, <1>7, LeftKept
  <2> QED
    BY <1>3, <1>5, <1>7, <2>1
<1>8. CASE Mine(bids[j])
  <2>1. PICK l \in DOMAIN orders :
           /\ Mine(orders[l]) /\ orders[l].orderType = "bid"
           /\ orders[l].product = call.product /\ orders[l].timestamp <= call.timestamp
           /\ orders[l].price = bids[j].price /\ Left(orders[l]) = bids[j].amount
           /\ \A k \in DOMAIN orders : Mine(orders[k]) => k = l
    BY <1>1, <1>2, <1>8, CopiedOrder
  <2>2. SoleOwner(bids') /\ Mine(bids'[j]) /\ j \in DOMAIN bids' /\ bids'[j].amount = w
    BY <1>2, <1>4, <1>8 DEF OneOwner, SoleOwner, Mine
  <2>3. Twins(orders[l], bids') # {} /\ Max(Twins(orders[l], bids')) = j
    BY <1>2, <1>4, <2>1, <2>2, SoleTwin
  <2>4. WrittenBack(orders[l])' = [orders[l] EXCEPT !.amount = bids'[j].amount]
    BY <2>1, <2>3 DEF WrittenBack, Twins
  <2>5. orders[l] \in Entry
    OBVIOUS
  <2>6. Left(orders[l])' = w
    BY <1>2, <2>2, <2>4, <2>5 DEF Left, Entry
  <2>7. FilledOrder(l, "bid", bids[j], w)
    BY <2>1, <2>6 DEF FilledOrder
  <2> QED
    BY <1>3, <1>5, <1>6, <1>8, <2>7
<1>9. CASE Mine(asks[i])
  <2>1. PICK l \in DOMAIN orders :
           /\ Mine(orders[l]) /\ orders[l].orderType = "ask"
           /\ orders[l].product = call.product /\ orders[l].timestamp <= call.timestamp
           /\ orders[l].price = asks[i].price /\ Left(orders[l]) = asks[i].amount
           /\ \A k \in DOMAIN orders : Mine(orders[k]) => k = l
    BY <1>1, <1>2, <1>9, CopiedOrder
  <2>2. SoleOwner(asks') /\ Mine(asks'[i]) /\ i \in DOMAIN asks' /\ asks'[i].amount = v
    BY <1>2, <1>4, <1>9 DEF OneOwner, SoleOwner, Mine
  <2>3. Twins(orders[l], asks') # {} /\ Max(Twins(orders[l], asks')) = i
    BY <1>2, <1>4, <2>1, <2>2, SoleTwin
  <2>4. WrittenBack(orders[l])' = [orders[l] EXCEPT !.amount = asks'[i].amount]
    BY <2>1, <2>3 DEF WrittenBack, Twins
  <2>5. orders[l] \in Entry
    OBVIOUS
  <2>6. Left(orders[l])' = v
    BY <1>2, <2>2, <2>4, <2>5 DEF Left, Entry
  <2>7. FilledOrder(l, "ask", asks[i], v)
    BY <2>1, <2>6 DEF FilledOrder
  <2> QED
    BY <1>3, <1>5, <1>6, <1>9, <2>7
<1> QED
  BY <1>7, <1>8, <1>9

\* A fill leaves the user with one order and the copies with their orders.
LEMMA LoopKeepsOwners ==
    ASSUME LoopInv, LoopStep, UNCHANGED <<orders, call>>, CopiesFromBook
    PROVE  CopiesFromBook' /\ (OneOwner => OneOwner')
<1>1. ~returned /\ returned' = returned
  BY DEF LoopStep, OuterSkip, OuterEnter, InnerEnd, InnerSkip, FillEqual, FillAsk,
     FillBid, AtAsk, AtBid, AtCross
<1>2. CopiesFromBook'
  BY <1>1, LoopKeepsKeys DEF CopiesFromBook, CopyOf, Visible
<1>3. OneOwner => OneOwner'
  BY <1>1, LoopKeepsKeys DEF OneOwner, SoleOwner, Mine
<1> QED
  BY <1>2, <1>3

\* The write-back gives every order what is left of it.
LEMMA WriteBackLeft ==
    ASSUME orders \in Seq(Entry), asks \in Seq(Entry), bids \in Seq(Entry), BookSorted, WriteBack
    PROVE  /\ \A k \in DOMAIN orders' : \E n \in DOMAIN orders :
                /\ orders'[k].orderType = orders[n].orderType
                /\ orders'[k].product = orders[n].product
                /\ orders'[k].price = orders[n].price
                /\ orders'[k].username = orders[n].username
                /\ orders'[k].amount = Left(orders[n])
                /\ Left(orders[k])' = orders'[k].amount
           /\ OneOwner => OneOwner'
<1> DEFINE w == [n \in DOMAIN orders |-> WrittenBack(orders[n])]
<1>1. /\ orders' = Erased(w) /\ ~returned /\ returned' = TRUE
  BY DEF WriteBack, LoopsDone
<1>2. ASSUME NEW n \in DOMAIN orders
      PROVE  /\ w[n].orderType = orders[n].orderType /\ w[n].product = orders[n].product
             /\ w[n].price = orders[n].price /\ w[n].username = orders[n].username
             /\ w[n].amount = Left(orders[n])
  <2>1. orders[n] \in Entry
    OBVIOUS
  <2>2. w[n].username = orders[n].username
    BY <2>1 DEF WrittenBack, Entry
  <2> QED
    BY <1>1, <2>1, <2>2, WrittenBackProperties DEF Left
<1>3. w \in Seq(Entry) /\ DOMAIN w = DOMAIN orders
  BY WrittenBackVector
<1> HIDE DEF w
<1>4. DrawnFrom(orders', w)
  <2>1. Live(w) \in SUBSET DOMAIN w
    BY DEF Live
  <2> QED
    BY <1>1, <1>3, <2>1, AtDrawn DEF Erased
<1>5. ASSUME NEW k \in DOMAIN orders'
      PROVE  \E n \in DOMAIN orders :
                /\ orders'[k].orderType = orders[n].orderType
                /\ orders'[k].product = orders[n].product
                /\ orders'[k].price = orders[n].price
                /\ orders'[k].username = orders[n].username
                /\ orders'[k].amount = Left(orders[n])
                /\ Left(orders[k])' = orders'[k].amount
  <2>1. PICK n \in DOMAIN orders : orders'[k] = w[n]
    BY <1>3, <1>4 DEF DrawnFrom
  <2>2. Left(orders[k])' = orders'[k].amount
    BY <1>1 DEF Left
  <2> QED
    BY <1>2, <2>1, <2>2
<1>6. OneOwner => OneOwner'
  <2> SUFFICES ASSUME OneOwner PROVE OneOwner'
    OBVIOUS
  <2>1. SoleOwner(w)
    BY <1>2, <1>3 DEF OneOwner, SoleOwner, Mine
  <2> QED
    BY <1>1, <1>4, <2>1, SoleOwnerDrawn DEF OneOwner, SoleOwner, Mine
<1> QED
  BY <1>5, <1>6

\* A fill of the user's bid, in numbers: x of it is sold at the ask's price p, which
\* is at most the bid's P, and w of it is left.
LEMMA BidFillCost ==
    ASSUME NEW x \in Int, NEW w \in Int, NEW p \in Int, NEW P \in Int, NEW b \in Int,
           x > 0, w >= 0, P >= 0, P >= p, (x + w) * P <= b
    PROVE  /\ x * p \in Int /\ w * P \in Nat
           /\ w * P <= b - x * p
<1>1. x * P \in Int /\ w * P \in Int /\ x * p \in Int /\ (x + w) * P = x * P + w * P
  OBVIOUS
<1>2. x * P >= x * p
  <2>1. x * (P - p) >= 0
    OBVIOUS
  <2>2. x * (P - p) = x * P - x * p
    OBVIOUS
  <2> QED
    BY <1>1, <2>1, <2>2
<1>3. w * P >= 0
  OBVIOUS
<1> QED
  BY <1>1, <1>2, <1>3
=============================================================================
