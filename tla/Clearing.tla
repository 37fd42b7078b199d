------------------------------ MODULE Clearing ------------------------------
(***************************************************************************)
(* What one call of OrderBook::matchAsksToBids promises, without saying how*)
(* the vectors are walked.  There is a pool of asks and a pool of bids.    *)
(* While some live ask and some live bid cross, a cheapest live ask trades *)
(* with a highest live bid that it crosses, at the ask's price and for the *)
(* smaller of the two amounts.  The call may only end when nothing crosses.*)
(***************************************************************************)
EXTENDS OrderBookEntry

VARIABLES asks,     \* sequence of orders: the asks, whose amounts decrease
          bids,     \* sequence of orders
          trades,   \* what has been traded so far
          done      \* the call has returned
clearingVars == <<asks, bids, trades, done>>

\* No live ask and live bid are left that could trade.
Cleared == \A m \in Live(asks), n \in Live(bids) : ~Crosses(asks[m], bids[n])

BestAsk(m) == m \in Live(asks) /\ \A k \in Live(asks) : asks[m].price <= asks[k].price
BestBid(n) == n \in Live(bids) /\ \A k \in Live(bids) : bids[n].price >= bids[k].price

Volume(m, n) ==
    IF asks[m].amount <= bids[n].amount THEN asks[m].amount ELSE bids[n].amount

Trade(m, n) ==
    /\ ~done
    /\ BestAsk(m) /\ BestBid(n) /\ Crosses(asks[m], bids[n])
    /\ asks' = [asks EXCEPT ![m].amount = @ - Volume(m, n)]
    /\ bids' = [bids EXCEPT ![n].amount = @ - Volume(m, n)]
    /\ trades' = Append(trades, [price |-> asks[m].price, amount |-> Volume(m, n),
                                 ask |-> asks[m].id, bid |-> bids[n].id])
    /\ UNCHANGED done

Close ==
    /\ ~done
    /\ Cleared
    /\ done' = TRUE
    /\ UNCHANGED <<asks, bids, trades>>

ClearingInit == trades = <<>> /\ done = FALSE

ClearingNext ==
    \/ \E m \in DOMAIN asks, n \in DOMAIN bids : Trade(m, n)
    \/ Close

ClearingSpec == ClearingInit /\ [][ClearingNext]_clearingVars
=============================================================================
