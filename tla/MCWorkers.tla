----------------------------- MODULE MCWorkers -----------------------------
(* Two pages, on one worker or on two.  Product 1 is BTC/USDT, product 2 ETH/BTC:
   BTC is credited and debited by both. *)
EXTENDS Workers

MCBase == <<"BTC", "ETH">>
MCQuote == <<"USDT", "BTC">>
MCPrices == {-1, 1}

Make(side, prod, p, a, t, n) ==
    [price |-> p, amount |-> a, product |-> prod, timestamp |-> t,
     orderType |-> side, username |-> "dataset", id |-> n]

\* Asks and bids that the user meets, in both products, a trade between dataset
\* orders, and a second time.
MCFiles ==
    {<<Make("ask", 1, 1, 1, 1, 1), Make("ask", 2, 1, 2, 1, 2)>>,
     <<Make("bid", 1, 1, 1, 1, 1), Make("ask", 1, 1, 1, 1, 2), Make("bid", 2, 2, 1, 2, 3)>>}
=============================================================================
