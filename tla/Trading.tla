------------------------------- MODULE Trading -------------------------------
(***************************************************************************)
(* The server of Trading.cpp as one browser connection drives it: the      *)
(* messages of a connection are handled one at a time by the thread it is  *)
(* pinned to, each to its end.  The state is the order book, the wallet,   *)
(* the simulated time and the second set of balances that is sent to the   *)
(* browser.  next_timeframe is many steps, one for each iteration of its   *)
(* loops; the messages sent back are not part of this module.              *)
(***************************************************************************)
EXTENDS OrderBook, Wallet

CONSTANTS Product,          \* products that exist, ranked alphabetically
          Base, Quote,      \* their currencies; the domain of Quote is the
                            \* products with a separator
          StartBTC, StartUSDT, \* the funds main() inserts
          Files,            \* possible contents of the CSV file, sorted by time
          OfferPrices, OfferAmounts, \* what the user may enter
          GarbageTimes,     \* what reading orders[0] of an empty vector yields
          MaxOrders         \* bound: orders the user submits

\* The user types the product, so that any two currencies may be one (index.html:118).
ASSUME ProductAssumption ==
    /\ Product \subseteq Nat /\ DOMAIN Quote \subseteq Product
    /\ Base \in [Product -> Currency] /\ Quote \in [DOMAIN Quote -> Currency]

ASSUME FundsAssumption ==
    {"BTC", "USDT"} \subseteq Currency /\ StartBTC \in Nat /\ StartUSDT \in Nat

\* A file has an order (main reads orders[0]), is in time order, has no dead
\* orders, and its products have two currencies.
ASSUME FilesAssumption ==
    \A f \in Files :
        /\ f \in Seq(Entry) /\ f # <<>>
        /\ IsSortedBy(f, comapreByTimestamp)
        /\ Live(f) = DOMAIN f
        /\ \A n \in DOMAIN f : f[n].product \in DOMAIN Quote

\* Its orders belong to "dataset" (the default of OrderBookEntry's constructor)
\* and nobody in it pays for selling.
ASSUME DatasetAssumption ==
    \A f \in Files : \A n \in DOMAIN f :
        f[n].username = "dataset" /\ (f[n].orderType = "ask" => f[n].price >= 0)

\* The page only sends positive amounts (app.js:281).
ASSUME OfferAssumption ==
    /\ OfferPrices \subseteq Int /\ OfferAmounts \subseteq Nat \ {0}
    /\ GarbageTimes \subseteq Nat /\ MaxOrders \in Nat

VARIABLES currencies,   \* the wallet's map
          ui,           \* ui_btc, ui_eth, ui_usdt, ui_avax
          currentTime,
          pc,           \* "idle", "frame" inside next_timeframe, "crashed"
          todo,         \* products next_timeframe has yet to match
          \* auxiliary: no step reads these
          submitted,    \* orders accepted from the user so far
          owed,         \* the balances that follow from the user's fills
          flags         \* which of Flag has happened
serverVars == <<currencies, ui, currentTime, pc, todo>>
auxVars == <<submitted, owed, flags>>
vars == <<bookVars, serverVars, auxVars>>

UiCurrency == {"BTC", "ETH", "USDT", "AVAX"}

Flag == {"refused",    \* a removeCurrency of a settlement returned false
         "aborted",    \* an exception ended a settlement
         "cut",        \* one ended the frame at the message after a settlement
         "overlapped", \* an order was accepted while another was in the book
         "selfTraded"} \* an ask and a bid of the user were matched
        \cup UiCurrency \* settled on a side where the ui_ variable does not follow

StartFunds == [c \in {"BTC", "USDT"} |-> IF c = "BTC" THEN StartBTC ELSE StartUSDT]

Init ==
    /\ orders \in Files
    /\ call = [product |-> 0, timestamp |-> 0] /\ LocalsDead
    /\ currencies = StartFunds
    /\ ui = [c \in UiCurrency |-> BalanceOf(StartFunds, c)]
    /\ currentTime = getEarliestTime
    /\ pc = "idle" /\ todo = {}
    /\ submitted = 0 /\ flags = {}
    /\ owed = [c \in Currency |-> BalanceOf(StartFunds, c)]

-----------------------------------------------------------------------------
(* submit_order *)

\* Names for the user's orders; the orders of the files tried have smaller ones.
FirstUserId == 4

UserOrder(side, p, price, amount) ==
    [price |-> price, amount |-> amount, product |-> p, timestamp |-> currentTime,
     orderType |-> IF side = "buy" THEN "bid" ELSE "ask", username |-> "simuser",
     id |-> FirstUserId + submitted]

\* A slip: a bid is checked for its amount, not its value.
CanAffordAmount(e) ==
    containsCurrency(currencies,
        IF e.orderType = "bid" THEN Quote[e.product] ELSE Base[e.product], e.amount)

CanAfford(e) ==
    IF e.orderType = "bid"
    THEN containsCurrency(currencies, Quote[e.product], e.amount * e.price)
    ELSE containsCurrency(currencies, Base[e.product], e.amount)

HasOpenOrder == \E n \in DOMAIN orders : orders[n].username = "simuser"

\* An order the wallet cannot cover is answered "Rejected" and changes nothing.
\* tokens[1] of a product without a separator is past the end of the vector.  The
\* process may die (BareProductCrash), copying it may throw what the handler
\* catches, which changes nothing, or it is some string that is no currency: a
\* bid is then rejected, an ask, whose quote is not looked at, goes through.
SubmitOrder(side, p, price, amount) ==
    LET e == UserOrder(side, p, price, amount) IN
    /\ pc = "idle" /\ submitted < MaxOrders
    /\ side = "buy" => p \in DOMAIN Quote
    /\ CanAfford(e)
    /\ insertOrder(e)
    /\ submitted' = submitted + 1
    /\ flags' = flags \cup (IF HasOpenOrder THEN {"overlapped"} ELSE {})
    /\ UNCHANGED <<serverVars, owed>>

-----------------------------------------------------------------------------
(* next_timeframe *)

NextTimeframe ==
    /\ pc = "idle"
    /\ pc' = "frame"
    /\ todo' = KnownProducts
    /\ UNCHANGED <<bookVars, currencies, ui, currentTime, auxVars>>

\* The previous product's sales are all settled.
BetweenProducts == pc = "frame" /\ returned /\ sales = <<>>

MatchProduct ==
    /\ BetweenProducts /\ todo # {}
    /\ matchAsksToBids(Min(todo), currentTime)
    /\ todo' = todo \ {Min(todo)}
    /\ UNCHANGED <<currencies, ui, currentTime, pc, auxVars>>

\* tokens[1] again, after a match of such a product, which has no bids to sell to.
\* What it throws ends the frame; no sale is pending then.
BareProductAborts ==
    /\ BetweenProducts /\ todo # {} /\ Min(todo) \notin DOMAIN Quote
    /\ pc' = "idle" /\ todo' = {}
    /\ UNCHANGED <<bookVars, currencies, ui, currentTime, auxVars>>

BareProductCrash ==
    /\ \/ pc = "idle" /\ Product # DOMAIN Quote
       \/ BetweenProducts /\ todo # {} /\ Min(todo) \notin DOMAIN Quote
    /\ pc' = "crashed" /\ todo' = {}
    /\ UNCHANGED <<bookVars, currencies, ui, currentTime, auxVars>>

\* What a fill of volume a at price q is worth to the user, on either side.
Settled(w, a, q, bought, sold) ==
    LET p == call.product
        net == (IF bought THEN a ELSE 0) - (IF sold THEN a ELSE 0)
    IN  [c \in Currency |-> w[c] + (IF c = Base[p] THEN net ELSE 0)
                                 - (IF c = Quote[p] THEN net * q ELSE 0)]

MatchStep ==
    /\ pc = "frame"
    /\ MatchLoop
    /\ LET s == sales'[Len(sales')]
           bought == bids[j].username = "simuser"
           sold == asks[i].username = "simuser"
       IN  IF sales' = sales THEN UNCHANGED <<owed, flags>>
           ELSE /\ owed' = Settled(owed, s.amount, s.price, bought, sold)
                /\ flags' = flags \cup (IF bought /\ sold THEN {"selfTraded"} ELSE {})
    /\ UNCHANGED <<serverVars, submitted>>

MatchReturn == pc = "frame" /\ WriteBack /\ UNCHANGED <<serverVars, auxVars>>

\* The ui_ variables follow only some currencies on each side of a product.
FollowedBases == {"ETH", "BTC", "AVAX"}
FollowedQuotes == {"BTC", "USDT"}

\* A slip: a product quoted in BTC does not move ui_btc.
UiMovedUsdtOnly(baseChange, quoteChange) ==
    LET p == call.product
    IN  [c \in UiCurrency |->
           ui[c] + (IF c = Base[p] /\ c \in FollowedBases THEN baseChange ELSE 0)
                 + (IF c = Quote[p] /\ c = "USDT" THEN quoteChange ELSE 0)]

UiMoved(baseChange, quoteChange) ==
    LET p == call.product
    IN  [c \in UiCurrency |->
           ui[c] + (IF c = Base[p] /\ c \in FollowedBases THEN baseChange ELSE 0)
                 + (IF c = Quote[p] /\ c \in FollowedQuotes THEN quoteChange ELSE 0)]

\* What a settlement moves in the wallet and not in its ui_ variable.
Unfollowed ==
    LET p == call.product
    IN  UiCurrency \cap (({Base[p]} \ FollowedBases) \cup ({Quote[p]} \ FollowedQuotes))

sale == Head(sales)
Value == sale.amount * sale.price

\* The message about the trade.  Of a garbage time substr(11, 8) or the dump may throw:
\* the sale is settled, and what the frame had still to do is lost.  Only the user's
\* orders are in the book at such a time, and a trade among them is a purchase.
Told == sales' = Tail(sales) /\ UNCHANGED <<pc, todo>>
Untold == currentTime \in GarbageTimes /\ sales' = <<>> /\ pc' = "idle" /\ todo' = {}

SkipSale ==     \* a trade between two dataset orders
    /\ sale.username # "simuser"
    /\ Told
    /\ UNCHANGED <<currencies, ui, flags>>

\* The result of removeCurrency is not looked at: the credit stands without it.
SettleBuy ==
    LET base == Base[call.product]
        quote == Quote[call.product]
        credited == insertCurrency(currencies, base, sale.amount)
    IN  /\ sale.username = "simuser" /\ sale.orderType = "bidsale"
        /\ currencies' = removeCurrency(credited, quote, Value)
        /\ ui' = UiMoved(sale.amount, -Value)
        /\ Told \/ Untold
        /\ flags' = flags \cup Unfollowed
             \cup (IF RemoveSucceeds(credited, quote, Value) THEN {} ELSE {"refused"})
             \cup (IF pc' = "idle" THEN {"cut"} ELSE {})

SellDebited == removeCurrency(currencies, Base[call.product], sale.amount)
SellRefused == IF RemoveSucceeds(currencies, Base[call.product], sale.amount)
               THEN {} ELSE {"refused"}

SettleSell ==
    /\ sale.username = "simuser" /\ sale.orderType = "asksale"
    /\ ~InsertThrows(Value)
    /\ currencies' = insertCurrency(SellDebited, Quote[call.product], Value)
    /\ ui' = UiMoved(-sale.amount, Value)
    /\ Told
    /\ flags' = flags \cup Unfollowed \cup SellRefused

\* A slip: the exception is caught within the handler, behind its loops, so that time
\* moves with products still to match.
SettleSellGivesUp ==
    /\ sale.username = "simuser" /\ sale.orderType = "asksale"
    /\ InsertThrows(Value)
    /\ currencies' = SellDebited
    /\ flags' = flags \cup SellRefused \cup {"aborted"}
    /\ sales' = <<>> /\ todo' = {}
    /\ UNCHANGED <<ui, pc>>

\* insertCurrency throws: the debit stands, the handler's catch ends the frame.
SettleSellAborts ==
    /\ sale.username = "simuser" /\ sale.orderType = "asksale"
    /\ InsertThrows(Value)
    /\ currencies' = SellDebited
    /\ flags' = flags \cup SellRefused \cup {"aborted"}
    /\ sales' = <<>> /\ pc' = "idle" /\ todo' = {}
    /\ UNCHANGED ui

SettleSale ==
    /\ pc = "frame" /\ returned /\ sales # <<>>
    /\ SkipSale \/ SettleBuy \/ SettleSell \/ SettleSellAborts
    /\ UNCHANGED <<orders, call, asks, bids, i, j, returned, currentTime, submitted, owed>>

AdvanceTime ==
    /\ BetweenProducts /\ todo = {} /\ orders # <<>>
    /\ currentTime' = getNextTime(currentTime)
    /\ pc' = "idle"
    /\ UNCHANGED <<bookVars, currencies, ui, todo, auxVars>>

\* getNextTime of an empty book reads orders[0] all the same: the string that
\* was there has been freed, so the time is garbage, or the process dies, or copying
\* it throws and the time stays.
AdvanceTimeOfEmptyBook ==
    /\ BetweenProducts /\ todo = {} /\ orders = <<>>
    /\ \/ currentTime' \in GarbageTimes \cup {currentTime} /\ pc' = "idle"
       \/ pc' = "crashed" /\ UNCHANGED currentTime
    /\ UNCHANGED <<bookVars, currencies, ui, todo, auxVars>>

FrameStep == \/ MatchProduct \/ MatchStep \/ MatchReturn \/ SettleSale
             \/ BareProductAborts
             \/ AdvanceTime \/ AdvanceTimeOfEmptyBook

Next ==
    \/ \E side \in {"buy", "sell"}, p \in Product,
          price \in OfferPrices, amount \in OfferAmounts :
         SubmitOrder(side, p, price, amount)
    \/ NextTimeframe
    \/ FrameStep
    \/ BareProductCrash

Spec == Init /\ [][Next]_vars

\* The thread runs a handler to its end; with auto-play on, the page sends
\* next_timeframe every second (app.js:486-488).
FairSpec == Spec /\ WF_vars(FrameStep) /\ WF_vars(NextTimeframe)

-----------------------------------------------------------------------------
(* Properties *)

TypeOK ==
    /\ BookTypeOK
    /\ IsWallet(currencies)
    /\ ui \in [UiCurrency -> Int]
    /\ currentTime \in Nat
    /\ pc \in {"idle", "frame", "crashed"}
    /\ todo \subseteq Product
    /\ submitted \in 0..MaxOrders
    /\ owed \in [Currency -> Int]
    /\ flags \subseteq Flag
    /\ pc # "frame" => returned /\ sales = <<>> /\ todo = {}

\* No balance of the server's wallet is ever negative, whatever the orders the
\* user stacks on the same funds: every debit passes removeCurrency's test.
WalletNonNegative == \A c \in DOMAIN currencies : currencies[c] >= 0

\* The balances sent to the browser are kept by separate arithmetic
\* (Trading.cpp:186-200).  They are the wallet's as long as no settlement was
\* refused and none threw: ui_btc whatever is traded, ui_usdt until a product with the
\* base USDT is, ui_eth and ui_avax until one with that quote is.
UiMirrorsWallet ==
    flags \cap {"refused", "aborted"} = {} =>
        \A c \in UiCurrency \ flags : ui[c] = BalanceOf(currencies, c)

\* README.md:33, "atomic multi-currency wallet tracking (BTC, ETH, USDT, AVAX)", and
\* index.html:299, "Type the trading pair you want": the balances sent are the
\* wallet's, whatever is traded.
UiFollowsAllProducts ==
    flags \cap {"refused", "aborted"} = {} =>
        \A c \in UiCurrency : ui[c] = BalanceOf(currencies, c)

\* A sale can be settled: its product has two currencies, as no bid of another one
\* gets into the book, and crediting its amount does not throw.
SalesSettleable ==
    /\ \A k \in DOMAIN sales : sales[k].amount > 0
    /\ \A n \in DOMAIN orders :
         orders[n].product \in IF orders[n].orderType = "bid" THEN DOMAIN Quote ELSE Product
    /\ pc = "frame" /\ (~returned \/ sales # <<>>) => call.product \in DOMAIN Quote

\* The inductive invariant of the server.
ServerInv == TypeOK /\ BookInv /\ SalesSettleable /\ WalletNonNegative /\ UiMirrorsWallet

\* The check in submit_order is enough for a user with one order in the book at
\* a time: no debit of its fills, however many frames and partial fills they
\* take, is refused.
SingleOrderSolvent == "refused" \in flags => "overlapped" \in flags

\* At the end of a handler the wallet is what the user's fills add up to: each
\* fill is settled once, on both legs, in its product's currencies.
SettledInFull ==
    pc = "idle" /\ flags \cap {"refused", "aborted", "cut", "selfTraded"} = {} =>
        \A c \in Currency : BalanceOf(currencies, c) = owed[c]

\* README.md:21, "every fill triggers atomic ... wallet updates": both legs of a
\* fill happen or none.
AtomicFill == "refused" \notin flags

\* OrderBook.cpp:136, "Both cannot be simuser simultaneously in a real sim".
NoSelfTrade == "selfTraded" \notin flags

\* A bid and an ask of product p that are due and could trade.
Crossed(p) ==
    \E m, n \in DOMAIN orders :
       LET a == orders[m]  b == orders[n]
       IN  /\ a.orderType = "ask" /\ b.orderType = "bid" /\ Crosses(a, b)
           /\ {a.product, b.product} = {p}
           /\ a.timestamp <= currentTime /\ b.timestamp <= currentTime

\* Time does not move past a trade: an order that crosses another is matched while it
\* is due, also when exceptions (Trading.cpp:194, 206) end frame after frame with some
\* products matched and others not, or the book was traded empty (OrderBook.cpp:97).
ClearedBeforeTimeMoves ==
    [][currentTime' # currentTime => \A p \in Product : ~Crossed(p)]_vars

\* Every frame may end early, at the first such product, with the products behind
\* it unmatched and the time where it was.
FramesAbort == \E n \in DOMAIN orders : orders[n].product \notin DOMAIN Quote
Halted == pc = "crashed" \/ FramesAbort

\* Orders that cross do not stay in the book, the user's own at the current
\* time included (the comment at OrderBook.cpp:47), even when a settlement throws
\* frame after frame.  Only an order of a product without a separator can stop it.
CrossedOrdersTrade == \A p \in Product : Crossed(p) ~> (~Crossed(p) \/ Halted)

\* The simulation visits every order: none waits forever for its time, whatever
\* the user trades, short of that order.
Waiting(id) == \E n \in DOMAIN orders : orders[n].id = id /\ orders[n].timestamp > currentTime
EveryOrderGetsItsTime ==
    \A id \in 1..FirstUserId + MaxOrders : Waiting(id) ~> (~Waiting(id) \/ Halted)
=============================================================================
