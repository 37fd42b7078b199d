----------------------------- MODULE MCSession -----------------------------
(* One page and the server: product 2 is ETH/BTC, product 3 is BTC, typed without a
   separator. *)
EXTENDS Session, TLC

MCBase == (2 :> "ETH") @@ (3 :> "BTC")
MCQuote == (2 :> "BTC")

Make(side, prod, p, a, t, n) ==
    [price |-> p, amount |-> a, product |-> prod, timestamp |-> t,
     orderType |-> side, username |-> "dataset", id |-> n]

\* The order form only insists on a positive amount (app.js:281).
MCPrices == {-1, 2}

\* A trade between dataset orders of the product the user trades, which leaves a bid
\* to sell to.
MCFiles == {<<Make("ask", 2, 1, 1, 1, 1), Make("bid", 2, 2, 2, 1, 2)>>}
=============================================================================
