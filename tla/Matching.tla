------------------------------ MODULE Matching ------------------------------
(***************************************************************************)
(* The double loop of OrderBook::matchAsksToBids (OrderBook.cpp:123-171),  *)
(* one action for each way an iteration can go.  The loop runs on local    *)
(* copies of the orders, sorted by price before it starts; its sales are   *)
(* what the call returns.                                                  *)
(*                                                                         *)
(* The position is (i, j): the outer loop is at asks[i]; j = 0 is the test *)
(* on the ask's amount, j > 0 is the inner loop at bids[j].                *)
(***************************************************************************)
EXTENDS OrderBookEntry

VARIABLES asks, bids,   \* local copies, lowest ask first, highest bid first
          sales,        \* the vector of sales built so far
          i, j,         \* the loops' iterators
          returned      \* the call is over
matchVars == <<asks, bids, sales, i, j, returned>>

\* A sale.  Product and timestamp are the call's.  `ask' and `bid' are
\* auxiliary: the ids of the two orders.
Sale == [price : Int, amount : Int, orderType : {"asksale", "bidsale"},
         username : User, ask : Nat, bid : Nat]

\* A slip: the sale at the bid's price.
SaleAtBidPrice(ask, bid, amount) ==
    [price |-> bid.price, amount |-> amount,
     orderType |-> IF bid.username = "simuser" THEN "bidsale" ELSE "asksale",
     username |-> IF "simuser" \in {bid.username, ask.username}
                  THEN "simuser" ELSE "dataset",
     ask |-> ask.id, bid |-> bid.id]

\* Both comments of the code say a simuser sale is either bought or sold; a
\* sale between two simuser orders is tagged as bought.
SaleOf(ask, bid, amount) ==
    [price     |-> ask.price,
     amount    |-> amount,
     orderType |-> IF bid.username = "simuser" THEN "bidsale" ELSE "asksale",
     username  |-> IF "simuser" \in {bid.username, ask.username}
                   THEN "simuser" ELSE "dataset",
     ask |-> ask.id, bid |-> bid.id]

AtAsk == ~returned /\ i \in DOMAIN asks /\ j = 0
AtBid == ~returned /\ i \in DOMAIN asks /\ j \in DOMAIN bids
LoopsDone == ~returned /\ i = Len(asks) + 1

BreakToNextAsk == i' = i + 1 /\ j' = 0
NextBid        == i' = i /\ j' = j + 1

OuterSkip ==            \* if (ask.amount <= 0) continue;
    /\ AtAsk /\ asks[i].amount <= 0
    /\ BreakToNextAsk
    /\ UNCHANGED <<asks, bids, sales, returned>>

OuterEnter ==
    /\ AtAsk /\ asks[i].amount > 0
    /\ NextBid
    /\ UNCHANGED <<asks, bids, sales, returned>>

InnerEnd ==             \* the bids are exhausted
    /\ ~returned /\ i \in DOMAIN asks /\ j = Len(bids) + 1
    /\ BreakToNextAsk
    /\ UNCHANGED <<asks, bids, sales, returned>>

InnerSkipBreaks ==      \* a slip: `break' for `continue' at a dead bid
    /\ AtBid
    /\ bids[j].amount <= 0 \/ ~Crosses(asks[i], bids[j])
    /\ BreakToNextAsk
    /\ UNCHANGED <<asks, bids, sales, returned>>

InnerSkip ==            \* a dead bid, or one below the ask
    /\ AtBid
    /\ bids[j].amount <= 0 \/ ~Crosses(asks[i], bids[j])
    /\ NextBid
    /\ UNCHANGED <<asks, bids, sales, returned>>

AtCross == AtBid /\ bids[j].amount > 0 /\ Crosses(asks[i], bids[j])

FillEqual ==
    /\ AtCross /\ bids[j].amount = asks[i].amount
    /\ sales' = Append(sales, SaleOf(asks[i], bids[j], asks[i].amount))
    /\ bids' = [bids EXCEPT ![j].amount = 0]
    /\ asks' = [asks EXCEPT ![i].amount = 0]
    /\ BreakToNextAsk
    /\ UNCHANGED returned

FillAsk ==
    /\ AtCross /\ bids[j].amount > asks[i].amount
    /\ sales' = Append(sales, SaleOf(asks[i], bids[j], asks[i].amount))
    /\ bids' = [bids EXCEPT ![j].amount = @ - asks[i].amount]
    /\ asks' = [asks EXCEPT ![i].amount = 0]
    /\ BreakToNextAsk
    /\ UNCHANGED returned

FillBidBreaks ==        \* a slip: `break' for `continue' at line 167
    /\ AtCross /\ bids[j].amount < asks[i].amount
    /\ sales' = Append(sales, SaleOf(asks[i], bids[j], bids[j].amount))
    /\ asks' = [asks EXCEPT ![i].amount = @ - bids[j].amount]
    /\ bids' = [bids EXCEPT ![j].amount = 0]
    /\ BreakToNextAsk
    /\ UNCHANGED returned

FillBid ==
    /\ AtCross /\ bids[j].amount < asks[i].amount
    /\ sales' = Append(sales, SaleOf(asks[i], bids[j], bids[j].amount))
    /\ asks' = [asks EXCEPT ![i].amount = @ - bids[j].amount]
    /\ bids' = [bids EXCEPT ![j].amount = 0]
    /\ NextBid
    /\ UNCHANGED returned

LoopStep == \/ OuterSkip \/ OuterEnter \/ InnerEnd \/ InnerSkip
            \/ FillEqual \/ FillAsk \/ FillBid

Return ==
    /\ LoopsDone
    /\ returned' = TRUE
    /\ UNCHANGED <<asks, bids, sales, i, j>>

-----------------------------------------------------------------------------
(* The loop on its own: it starts on any two price-sorted vectors. *)

LoopStart == sales = <<>> /\ i = 1 /\ j = 0 /\ returned = FALSE

MatchInit ==
    /\ asks \in Seq(Entry) /\ IsSortedBy(asks, comapreByPriceAsc)
    /\ bids \in Seq(Entry) /\ IsSortedBy(bids, comapreByPriceDesc)
    /\ LoopStart

MatchNext == LoopStep \/ Return

MatchSpec == MatchInit /\ [][MatchNext]_matchVars
MatchFairSpec == MatchSpec /\ WF_matchVars(MatchNext)

-----------------------------------------------------------------------------
(* Properties *)

MatchTypeOK ==
    /\ asks \in Seq(Entry) /\ bids \in Seq(Entry) /\ sales \in Seq(Sale)
    /\ i \in 1..Len(asks) + 1
    /\ j \in 0..Len(bids) + 1
    /\ returned \in BOOLEAN

\* The asks the outer loop has left behind trade with nobody any more.
PassedAsks == \A m \in Live(asks), n \in Live(bids) :
                 m < i => ~Crosses(asks[m], bids[n])

\* Nor does the current ask with the bids the inner loop has left behind.
PassedBids == \A n \in Live(bids) :
                 i \in DOMAIN asks /\ n < j => ~Crosses(asks[i], bids[n])

LoopPosition ==
    /\ j > 0 => i \in Live(asks)
    /\ returned => i = Len(asks) + 1

\* The loop invariant of OrderBook.cpp:123-171: both vectors stay in price
\* order while their amounts change, and nothing behind the iterators crosses.
LoopInv ==
    /\ MatchTypeOK
    /\ IsSortedBy(asks, comapreByPriceAsc)
    /\ IsSortedBy(bids, comapreByPriceDesc)
    /\ LoopPosition /\ PassedAsks /\ PassedBids

\* When the loops end, no ask and bid that are both still live could trade:
\* the early breaks and continues of lines 151, 159 and 167 skip nobody.
UncrossedOnReturn ==
    returned => \A m \in Live(asks), n \in Live(bids) : ~Crosses(asks[m], bids[n])

\* The loop does what Clearing promises: each sale is between a cheapest live
\* ask and a highest live bid, at the ask's price, for the smaller amount, and
\* is taken off both; nothing else changes an amount.
TradeOf(s) == [price |-> s.price, amount |-> s.amount, ask |-> s.ask, bid |-> s.bid]
Traded == [k \in DOMAIN sales |-> TradeOf(sales[k])]
Promise == INSTANCE Clearing WITH trades <- Traded, done <- returned
ImplementsClearing == Promise!ClearingSpec

\* The double loop ends: every iteration moves an iterator forward, also the
\* ones that skip or trade.
LoopTerminates == <>returned
=============================================================================
