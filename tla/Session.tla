------------------------------- MODULE Session -------------------------------
(***************************************************************************)
(* A page and the server over their WebSocket: a queue of messages in each *)
(* direction, which delivers in order and may close and lose what is in    *)
(* it.  The page never reconnects by itself; the user can reload it.  The  *)
(* server handles the messages of a connection one after the other; a      *)
(* handler that is running when its page goes away runs on and what it     *)
(* still sends is lost.                                                    *)
(***************************************************************************)
EXTENDS Trading, Terminal

CONSTANTS DefaultMarket, \* what the form shows at first, ETH/BTC
          MaxInFlight   \* bound: messages on the way when the page sends another

\* Of what the user may type only products that exist.
ASSUME PageAssumption == PageProduct \subseteq Product /\ DefaultMarket \in PageProduct

VARIABLES toServer, toPage,
          socket,       \* "open", "closed", "opening": onopen has yet to run
          mine,         \* the frame that runs was asked for by this connection
          dynamicWalletUpdated,
          \* auxiliary: no step reads these
          placed,       \* the user's orders in the order they were placed
          missed        \* balances have moved and the page will not be told so
linkVars == <<toServer, toPage, socket, mine, dynamicWalletUpdated>>
logVars == <<placed, missed>>
sessionVars == <<vars, pageVars, linkVars, logVars>>

SessionInit ==
    /\ Init
    /\ FreshPage(DefaultMarket)
    /\ toServer = <<>> /\ toPage = <<>> /\ socket = "opening"
    /\ mine = FALSE /\ dynamicWalletUpdated = FALSE
    /\ placed = <<>> /\ missed = FALSE

-----------------------------------------------------------------------------
(* The page: app.js *)

\* ws.send, when the socket is open.
PageSends(m) ==
    /\ Len(toServer) + Len(toPage) < MaxInFlight
    /\ IF socket = "open" THEN toServer' = Append(toServer, m) ELSE UNCHANGED toServer
    /\ UNCHANGED <<vars, toPage, socket, mine, dynamicWalletUpdated, missed>>

ChooseMarket(p) ==
    /\ p # market
    /\ chooseMarket(p)
    /\ PageSends([action |-> "change_market", product |-> p])
    /\ UNCHANGED placed

\* The price is typed, filled in from a hint, or for a market order the page's
\* simulated one.  The order's type is sent and the server does not read it.
PlaceOrder(side, price, amount) ==
    LET m == [action |-> "submit_order", side |-> side, product |-> market,
              price |-> price, amount |-> amount, order |-> Len(placed) + 1]
    IN  /\ Len(placed) < MaxOrders
        /\ submitOrder(m, IF socket = "open" THEN "Pending" ELSE "No Connection", m.order)
        /\ PageSends(m)
        /\ placed' = Append(placed, [key |-> Key(m), id |-> 0,
                                     traded |-> FALSE,
                                     fate |-> IF socket = "open" THEN "sent" ELSE "lost"])

ClickNextTimeframe ==
    /\ PageSends([action |-> "next_timeframe"])
    /\ UNCHANGED <<pageVars, placed>>

Deliver ==
    /\ socket = "open" /\ toPage # <<>>
    /\ onmessage(Head(toPage))
    /\ toPage' = Tail(toPage)
    /\ UNCHANGED <<vars, toServer, socket, mine, dynamicWalletUpdated, logVars>>

-----------------------------------------------------------------------------
(* The connection *)

Lost(os) == [k \in DOMAIN os |-> IF os[k].fate = "sent" THEN [os[k] EXCEPT !.fate = "lost"]
                                 ELSE os[k]]

Disconnect ==
    /\ socket \in {"open", "opening"}
    /\ socket' = "closed" /\ toServer' = <<>> /\ toPage' = <<>> /\ mine' = FALSE
    /\ placed' = Lost(placed)
    /\ UNCHANGED <<vars, pageVars, dynamicWalletUpdated, missed>>

\* A new page and a new connection.
Reload ==
    /\ pc # "crashed"
    /\ ReloadPage(DefaultMarket)
    /\ socket' = "opening" /\ toServer' = <<>> /\ toPage' = <<>> /\ mine' = FALSE
    /\ placed' = Lost(placed)
    /\ UNCHANGED <<vars, dynamicWalletUpdated, missed>>

-----------------------------------------------------------------------------
(* The server: Trading.cpp.  What a handler sends leaves the server at once. *)

\* ui_avax is kept and never sent.
Shown == [c \in {"BTC", "ETH", "USDT"} |-> ui[c]]
BalancesMessage == [type |-> "balances", ui |-> Shown]

\* onopen only reads, so it may run beside the frame of an older connection.
OnOpen ==
    /\ socket = "opening" /\ pc # "crashed"
    /\ socket' = "open"
    /\ toPage' = <<BalancesMessage>>
    /\ missed' = FALSE
    /\ UNCHANGED <<vars, pageVars, toServer, mine, dynamicWalletUpdated, placed>>

AckOf(m, status) ==
    [type |-> "order_ack", status |-> status, side |-> m.side, product |-> m.product,
     price |-> m.price, amount |-> m.amount]

\* The hint for product p with the orders os: sent when both sides have orders.
HintFor(os, p) ==
    LET prices(side) == {os[n].price : n \in {k \in DOMAIN os :
                           /\ os[k].orderType = side /\ os[k].product = p
                           /\ os[k].timestamp <= currentTime}}
    IN  IF prices("bid") = {} \/ prices("ask") = {} THEN <<>>
        ELSE <<[type |-> "price_hint", product |-> p,
                bestBid |-> Max(prices("bid")), bestAsk |-> Min(prices("ask"))]>>

Receive(action) ==
    /\ socket = "open" /\ pc = "idle"
    /\ toServer # <<>> /\ Head(toServer).action = action
    /\ toServer' = Tail(toServer)
    /\ UNCHANGED <<pageVars, socket, missed>>

HandleChangeMarket ==
    /\ Receive("change_market")
    /\ toPage' = toPage \o HintFor(orders, Head(toServer).product)
    /\ UNCHANGED <<vars, mine, dynamicWalletUpdated, placed>>

HandleAccepted ==
    LET m == Head(toServer) IN
    /\ Receive("submit_order")
    /\ SubmitOrder(m.side, m.product, m.price, m.amount)
    /\ toPage' = toPage \o <<AckOf(m, "Pending")>> \o HintFor(orders', m.product)
    /\ placed' = [placed EXCEPT ![m.order].fate = "accepted",
                                ![m.order].id = FirstUserId + submitted]
    /\ UNCHANGED <<mine, dynamicWalletUpdated>>

HandleRejected ==
    LET m == Head(toServer) IN
    /\ Receive("submit_order")
    /\ m.side = "sell" \/ m.product \in DOMAIN Quote =>
           ~CanAfford(UserOrder(m.side, m.product, m.price, m.amount))
    /\ toPage' = Append(toPage, AckOf(m, "Rejected"))
    /\ placed' = [placed EXCEPT ![m.order].fate = "rejected"]
    /\ UNCHANGED <<vars, mine, dynamicWalletUpdated>>

\* Reading tokens[1] of a product without a separator throws: no answer at all.
HandleThrows ==
    LET m == Head(toServer) IN
    /\ Receive("submit_order")
    /\ m.product \notin DOMAIN Quote
    /\ placed' = [placed EXCEPT ![m.order].fate = "thrown"]
    /\ UNCHANGED <<vars, toPage, mine, dynamicWalletUpdated>>

HandleNextTimeframe ==
    /\ Receive("next_timeframe")
    /\ NextTimeframe
    /\ mine' = TRUE /\ dynamicWalletUpdated' = FALSE
    /\ UNCHANGED <<toPage, placed>>

\* conn.send_text: nothing if the connection of the frame is gone.
FrameSends(m) ==
    IF mine THEN toPage' = Append(toPage, m) ELSE UNCHANGED toPage

MatchSends ==
    /\ MatchProduct \/ MatchStep \/ MatchReturn
    /\ UNCHANGED <<pageVars, linkVars, logVars>>

TradeMessage ==
    [type |-> "trade", side |-> IF sale.orderType = "bidsale" THEN "buy" ELSE "sell",
     product |-> call.product, price |-> sale.price, amount |-> sale.amount]

\* The frame's locals are gone when it ends.
FrameLeft == mine' = FALSE /\ dynamicWalletUpdated' = FALSE

MarkTraded(os) ==
    [k \in DOMAIN os |->
        IF os[k].id \in {sale.ask, sale.bid} THEN [os[k] EXCEPT !.traded = TRUE] ELSE os[k]]

SettleSendsToBuyers ==      \* a slip: only a purchase marks the wallet as updated
    /\ SettleSale /\ pc' = "frame"
    /\ FrameSends(TradeMessage)
    /\ dynamicWalletUpdated' =
         (dynamicWalletUpdated \/ (sale.username = "simuser" /\ sale.orderType = "bidsale"))
    /\ placed' = MarkTraded(placed)
    /\ UNCHANGED <<pageVars, toServer, socket, mine, missed>>

SettleSends ==
    /\ SettleSale /\ pc' = "frame"
    /\ FrameSends(TradeMessage)
    /\ dynamicWalletUpdated' = (dynamicWalletUpdated \/ sale.username = "simuser")
    /\ placed' = MarkTraded(placed)
    /\ UNCHANGED <<pageVars, toServer, socket, mine, missed>>

\* What throws leaves the frame before the balances are sent, and the message about the
\* trade.  When it is that message the settlement is done.
FrameThrows ==
    /\ (SettleSale /\ pc' = "idle") \/ BareProductAborts
    /\ missed' = (missed \/ dynamicWalletUpdated \/ ui' # ui)
    /\ FrameLeft
    /\ UNCHANGED <<pageVars, toServer, toPage, socket, placed>>

AdvanceSends ==
    /\ AdvanceTime \/ AdvanceTimeOfEmptyBook
    /\ IF dynamicWalletUpdated
       THEN FrameSends(BalancesMessage) /\ missed' = ~mine
       ELSE UNCHANGED <<toPage, missed>>
    /\ FrameLeft
    /\ UNCHANGED <<pageVars, toServer, socket, placed>>

Crash ==
    /\ BareProductCrash
    /\ pc = "idle" => /\ socket = "open" /\ toServer # <<>>
                      /\ Head(toServer).action = "submit_order"
                      /\ Head(toServer).product \notin DOMAIN Quote
    /\ UNCHANGED <<pageVars, linkVars, logVars>>

Frame == MatchSends \/ SettleSends \/ FrameThrows \/ AdvanceSends
Handle == \/ HandleChangeMarket \/ HandleAccepted \/ HandleRejected \/ HandleThrows
          \/ HandleNextTimeframe

\* The steps inside a match neither read nor change anything of the page or the
\* connection, so that none of what the user or the network does is put between them.
UserActs == returned /\
    \/ \E p \in PageProduct : ChooseMarket(p)
    \/ \E side \in {"buy", "sell"}, price \in OfferPrices, amount \in OfferAmounts : PlaceOrder(side, price, amount)
    \/ ClickNextTimeframe
    \/ Reload
    \/ Disconnect

SessionNext == UserActs \/ Deliver \/ OnOpen \/ Handle \/ Frame \/ Crash

SessionSpec == SessionInit /\ [][SessionNext]_sessionVars

\* The server handles what arrives and finishes its handlers; an open connection
\* delivers.  Nothing is assumed of the user, nor of the connection staying open.
FairSessionSpec ==
    /\ SessionSpec
    /\ WF_sessionVars(Handle) /\ WF_sessionVars(Frame)
    /\ WF_sessionVars(OnOpen) /\ WF_sessionVars(Deliver)

-----------------------------------------------------------------------------
(* Properties *)

SessionTypeOK ==
    /\ TypeOK /\ PageTypeOK
    /\ socket \in {"open", "closed", "opening"}
    /\ socket # "open" => toServer = <<>> /\ toPage = <<>>
    /\ pc = "idle" => ~mine /\ ~dynamicWalletUpdated
    /\ \A k \in DOMAIN placed :
         placed[k].fate \in {"sent", "accepted", "rejected", "thrown", "lost"}

\* Nothing is running and nothing is on its way.
Quiet == socket = "open" /\ pc = "idle" /\ toServer = <<>> /\ toPage = <<>>

\* The balances on the page are the server's, whatever was sold, rejected, reloaded
\* and reordered, unless a frame that moved them ended in an exception or belonged
\* to a connection that is gone (Trading.cpp:217-224).
ShownAreServers == Quiet /\ ~missed => balances = {Shown}

\* README.md:19, "broadcasts live order book and wallet state to the browser ... no
\* stale data".
NoStaleBalances == Quiet => balances = {Shown}

\* An order that the page takes for unanswered (app.js:294) has its order or its
\* answer on the way; otherwise its handler threw, or the page placed it before the
\* connection was open and never sent it.  Orders with the same key and answers that
\* clear another order's key do not break it.
PendingInFlight ==
    socket = "open" => \A key \in DOMAIN pendingOrders :
        \/ \E n \in DOMAIN toServer : /\ toServer[n].action = "submit_order"
                                      /\ Key(toServer[n]) = key
        \/ \E n \in DOMAIN toPage : toPage[n].type = "order_ack" /\ Key(toPage[n]) = key
        \/ placed[rows[pendingOrders[key]].order].fate \in {"thrown", "lost"}

UniqueKey(k) == \A l \in DOMAIN placed : placed[l].key = placed[k].key => l = k

\* Once all is quiet, a row shows a rejection exactly if its order was rejected: no
\* trade message, late answer or row that changed its price hides it or puts it on
\* another row, for an order whose key the user has not used twice.
RejectionsShown ==
    Quiet => \A n \in DOMAIN rows :
        LET k == rows[n].order
        IN  k # 0 /\ UniqueKey(k) =>
                (rows[n].status = "Rejected" <=> placed[k].fate = "rejected")

\* index.html:344, "records every order submitted during your session. Columns show
\* ... execution price, amount, total cost, and status": an order that is shown as
\* filled has traded.
FilledHasTraded ==
    \A n \in DOMAIN rows :
        rows[n].order # 0 /\ rows[n].status = "Filled" => placed[rows[n].order].traded

\* Trading.cpp:67, "Send price hints so the order form auto-fills correctly": the
\* prices the form is filled from are those of the form's product.
HintOfMarket == Quiet => \A h \in hint : h.product = market

\* A row does not stay unanswered while the connection holds and no handler threw.
PendingCleared ==
    DOMAIN pendingOrders # {}
        ~> \/ DOMAIN pendingOrders = {} \/ socket # "open" \/ pc = "crashed"
           \/ \E k \in DOMAIN placed : placed[k].fate \in {"thrown", "lost"}
=============================================================================
