----------------------------- MODULE MCMatching -----------------------------
(* The matching loop on every pair of short price-sorted vectors, the ones
   with dead orders (amount 0) included. *)
EXTENDS Matching

CONSTANTS MCPrices, MCAmounts,
          MaxAsks, MaxBids      \* bounds on the vectors' lengths

Offer(side, p, a, u, n) ==
    [price |-> p, amount |-> a, product |-> 1, timestamp |-> 1,
     orderType |-> side, username |-> u, id |-> n]

\* Who placed the order has no part in the loop but the tag of a sale, so the
\* user's orders are the ones at odd places.
OwnerAt(k) == IF k % 2 = 1 THEN "simuser" ELSE "dataset"

Lists(side, base, max, Before(_, _)) ==
    {l \in UNION {[1..len -> MCPrices \X MCAmounts] : len \in 0..max} :
        IsSortedBy([k \in DOMAIN l |-> [price |-> l[k][1]]], Before)}

Vectors(side, base, max, Before(_, _)) ==
    {[k \in DOMAIN l |-> Offer(side, l[k][1], l[k][2], OwnerAt(base + k), base + k)] :
        l \in Lists(side, base, max, Before)}

MCInit ==
    /\ asks \in Vectors("ask", 0, MaxAsks, comapreByPriceAsc)
    /\ bids \in Vectors("bid", 10, MaxBids, comapreByPriceDesc)
    /\ LoopStart

MCSpec == MCInit /\ [][MatchNext]_matchVars /\ WF_matchVars(MatchNext)
=============================================================================
