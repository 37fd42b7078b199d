----------------------------- MODULE MCTrading -----------------------------
(* The server on a few small files: product 1 is BTC/USDT, product 2 ETH/BTC,
   so that BTC is the base of one and the quote of the other; product 3 is BTC,
   typed without a separator, and product 4 USDT/ETH, which the ui_ balances follow on
   neither side. *)
EXTENDS Trading, TLC

MCBase == <<"BTC", "ETH", "BTC", "USDT">>
MCQuote == (1 :> "USDT") @@ (2 :> "BTC") @@ (4 :> "ETH")

\* The order form only insists on a positive amount (app.js:281).
MCOfferPrices == {-1, 1, 2}

Make(side, prod, p, a, t, n) ==
    [price |-> p, amount |-> a, product |-> prod, timestamp |-> t,
     orderType |-> side, username |-> "dataset", id |-> n]

\* Orders that share a key at two times; both products with both sides; one
\* time only; a file the user can trade empty; one that trades by itself; one with the
\* product that the ui_ balances do not follow; one that trades itself empty.
MCFiles ==
    {<<Make("bid", 1, 1, 1, 1, 1), Make("ask", 2, 1, 1, 1, 2), Make("ask", 2, 1, 2, 2, 3)>>,
     <<Make("bid", 2, 1, 2, 1, 1), Make("ask", 1, 2, 1, 1, 2)>>,
     <<Make("ask", 1, 1, 2, 1, 1), Make("bid", 1, 1, 1, 2, 2), Make("bid", 2, 2, 1, 2, 3)>>,
     <<Make("ask", 2, 2, 1, 1, 1), Make("bid", 2, 1, 1, 1, 2), Make("ask", 2, 1, 1, 3, 3)>>,
     <<Make("bid", 4, 1, 1, 1, 1), Make("ask", 2, 1, 1, 2, 2)>>,
     <<Make("ask", 1, 1, 1, 1, 1), Make("bid", 1, 2, 1, 1, 2)>>}
=============================================================================
