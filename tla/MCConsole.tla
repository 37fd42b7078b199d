----------------------------- MODULE MCConsole -----------------------------
(* The console program: product 1 is BTC/USDT, product 2 ETH/BTC, product 3 is
   typed without a separator. *)
EXTENDS Console

MCBase == <<"BTC", "ETH", "BTC">>
MCQuote == <<"USDT", "BTC">>
MCOfferPrices == {-1, 1, 2}
MCOfferAmounts == {-1, 1, 2}

Make(side, prod, p, a, t, n) ==
    [price |-> p, amount |-> a, product |-> prod, timestamp |-> t,
     orderType |-> side, username |-> "dataset", id |-> n]

\* Both sides of ETH/BTC at two times; a book the user can empty; bids of the
\* other market.
MCFiles ==
    {<<Make("ask", 2, 1, 1, 1, 1), Make("bid", 2, 2, 2, 2, 2)>>,
     <<Make("ask", 2, 1, 1, 1, 1)>>,
     <<Make("ask", 2, 2, 2, 1, 1), Make("bid", 1, 2, 1, 1, 2)>>}
=============================================================================
