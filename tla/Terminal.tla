------------------------------- MODULE Terminal -------------------------------
(***************************************************************************)
(* The page of templete/app.js: what it remembers of orders, trades,       *)
(* balances and prices, and how the form and each message change it.       *)
(* A row of the transaction history is an object that `transactions' and   *)
(* `pendingOrders' both point to; it stays when it drops out of the        *)
(* history.  Numbers are written with 5 and 4 decimals: prices that agree  *)
(* so far are the same here.                                               *)
(***************************************************************************)
EXTENDS Integers, Sequences, FiniteSets, FiniteSetsExt

CONSTANTS PageProduct,      \* what the form's product may be
          HistoryLength     \* rows kept, 50 in the code

ASSUME HistoryAssumption == HistoryLength \in Nat \ {0}

VARIABLES rows,             \* every row object, in the order they were made
          transactions,     \* the history, newest first: numbers of rows
          pendingOrders,    \* a row number for each key that awaits its answer
          balances,         \* the balances shown, {} before the first message
          hint,             \* bestBid, bestAsk and whose they are, or {}
          market            \* the form's product
pageVars == <<rows, transactions, pendingOrders, balances, hint, market>>

FreshPage(p) ==
    /\ rows = <<>> /\ transactions = <<>> /\ pendingOrders = <<>>
    /\ balances = {} /\ hint = {} /\ market = p

\* A page that is loaded again: app.js runs from the start.
ReloadPage(p) ==
    /\ rows' = <<>> /\ transactions' = <<>> /\ pendingOrders' = <<>>
    /\ balances' = {} /\ hint' = {} /\ market' = p

\* The form's product is upper case here and sent as typed: the same for a
\* product that exists.
Key(m) == <<m.side, m.product, m.price, m.amount>>

Row(m, status, order) ==
    [side |-> m.side, product |-> m.product, price |-> m.price, amount |-> m.amount,
     status |-> status,
     order |-> order]   \* auxiliary: the user's order it was made for, or 0

\* unshift, and pop at the end.
WithNewest(n) ==
    LET all == <<n>> \o transactions
    IN  SubSeq(all, 1, Min({Len(all), HistoryLength}))

\* updateFormBadge, with what it sends in Session.
chooseMarket(p) ==
    /\ market' = p /\ hint' = {}
    /\ UNCHANGED <<rows, transactions, pendingOrders, balances>>

submitOrder(m, status, order) ==
    /\ rows' = Append(rows, Row(m, status, order))
    /\ transactions' = WithNewest(Len(rows'))
    /\ pendingOrders' = [k \in {Key(m)} \cup DOMAIN pendingOrders |->
                             IF k = Key(m) THEN Len(rows') ELSE pendingOrders[k]]
    /\ UNCHANGED <<balances, hint, market>>

\* A slip: whatever their status.
MatchingRowsOfAnyStatus(m) ==
    {k \in DOMAIN transactions :
        LET r == rows[transactions[k]] IN r.side = m.side /\ r.product = m.product}

\* The places in the history of the pending rows with the side and the product of m.
PendingRows(m) ==
    {k \in DOMAIN transactions :
        LET r == rows[transactions[k]]
        IN  r.side = m.side /\ r.product = m.product /\ r.status = "Pending"}

\* The newest pending row of its side and product becomes the trade; none: a
\* row of its own.
addTransaction(m) ==
    /\ IF PendingRows(m) # {}
       THEN /\ rows' = [rows EXCEPT ![transactions[Min(PendingRows(m))]] =
                           Row(m, "Filled", @.order)]
            /\ UNCHANGED transactions
       ELSE /\ rows' = Append(rows, Row(m, "Filled", 0))
            /\ transactions' = WithNewest(Len(rows'))
    /\ UNCHANGED <<pendingOrders, balances, hint, market>>

handleOrderAckKeeps(m) ==   \* a slip: the key is not deleted
    /\ IF Key(m) \in DOMAIN pendingOrders
       THEN rows' = [rows EXCEPT ![pendingOrders[Key(m)]].status = m.status]
       ELSE UNCHANGED rows
    /\ UNCHANGED <<transactions, pendingOrders, balances, hint, market>>

handleOrderAck(m) ==
    /\ IF Key(m) \in DOMAIN pendingOrders
       THEN /\ rows' = [rows EXCEPT ![pendingOrders[Key(m)]].status = m.status]
            /\ pendingOrders' = [k \in DOMAIN pendingOrders \ {Key(m)} |-> pendingOrders[k]]
       ELSE UNCHANGED <<rows, pendingOrders>>
    /\ UNCHANGED <<transactions, balances, hint, market>>

updateBalances(m) ==
    /\ balances' = {m.ui}
    /\ UNCHANGED <<rows, transactions, pendingOrders, hint, market>>

\* The product of a hint is not looked at.
priceHint(m) ==
    /\ hint' = {[bestBid |-> m.bestBid, bestAsk |-> m.bestAsk, product |-> m.product]}
    /\ UNCHANGED <<rows, transactions, pendingOrders, balances, market>>

onmessage(m) ==
    \/ m.type = "balances" /\ updateBalances(m)
    \/ m.type = "trade" /\ addTransaction(m)
    \/ m.type = "order_ack" /\ handleOrderAck(m)
    \/ m.type = "price_hint" /\ priceHint(m)

PageTypeOK ==
    /\ \A n \in DOMAIN transactions : transactions[n] \in DOMAIN rows
    /\ Len(transactions) <= HistoryLength
    /\ \A k \in DOMAIN pendingOrders :
         pendingOrders[k] \in DOMAIN rows /\ rows[pendingOrders[k]].order # 0
    /\ \A n \in DOMAIN rows :
         rows[n].status \in {"Pending", "Filled", "Rejected", "No Connection"}
    /\ Cardinality(balances) <= 1 /\ Cardinality(hint) <= 1
    /\ market \in PageProduct
=============================================================================
