--------------------------- MODULE OrderBookEntry ---------------------------
(***************************************************************************)
(* The order record of OrderBookEntry.h, its three comparators, and the    *)
(* two things the program does with vectors of orders: select some of them *)
(* in place order, and std::sort them.                                     *)
(*                                                                         *)
(* Prices and amounts are integers (the code has doubles: rounding is not  *)
(* modelled), timestamps are natural numbers (the code compares fixed-width*)
(* date strings), a product is a natural number that gives its rank in     *)
(* alphabetical order.  `id' is an auxiliary field: it names an order for  *)
(* the properties and no step ever reads it.                               *)
(***************************************************************************)
EXTENDS Integers, Sequences, FiniteSets, Functions

\* enum class OrderBookType.  `unknown' is what any other word parses to.
OrderBookType == {"bid", "ask", "unknown", "asksale", "bidsale"}

User == {"dataset", "simuser"}

Entry == [price : Int, amount : Int, product : Nat, timestamp : Nat,
          orderType : OrderBookType, username : User, id : Nat]

stringToOrderBookType(s) ==
    IF s \in {"ask", "bid"} THEN s ELSE "unknown"

comapreByTimestamp(e1, e2) == e1.timestamp < e2.timestamp
comapreByPriceAsc(e1, e2)  == e1.price < e2.price
comapreByPriceDesc(e1, e2) == e1.price > e2.price

\* The orders of a vector that still have something to trade, and whether an
\* ask and a bid can trade with each other.
Live(s) == {n \in DOMAIN s : s[n].amount > 0}
Crosses(ask, bid) == bid.price >= ask.price

-----------------------------------------------------------------------------
(* std::sort: the result is sorted, ties are in no particular order. *)

IsSortedBy(s, Before(_, _)) ==
    \A m, n \in DOMAIN s : m < n => ~Before(s[n], s[m])

\* Every result std::sort may produce.
Sortings(s, Before(_, _)) ==
    {t \in {[n \in DOMAIN s |-> s[f[n]]] : f \in Bijection(DOMAIN s, DOMAIN s)} :
        IsSortedBy(t, Before)}

\* The place of s[n] in the result that keeps ties in their old order.
StablePlace(s, Before(_, _), n) ==
    Cardinality({m \in DOMAIN s : \/ Before(s[m], s[n])
                                  \/ m <= n /\ ~Before(s[n], s[m])})

\* One of Sortings(s, Before), for the sort whose tie order nothing observes.
StableSort(s, Before(_, _)) ==
    [k \in DOMAIN s |-> s[CHOOSE n \in DOMAIN s : StablePlace(s, Before, n) = k]]

-----------------------------------------------------------------------------
(* Selecting the elements of a vector at the indices in K, in order.  It is
   defined by ranks rather than with SelectSeq so that the proofs can reason
   about it. *)

Rank(K, n) == Cardinality({m \in K : m <= n})
Nth(K, k)  == CHOOSE n \in K : Rank(K, n) = k
At(s, K)   == [k \in 1..Cardinality(K) |-> s[Nth(K, k)]]
=============================================================================
