------------------------------- MODULE Console -------------------------------
(***************************************************************************)
(* The console program of MerkelMain.cpp: a menu over the order book and   *)
(* the wallet.  The user types orders; "continue" matches one product,     *)
(* settles the user's sales with Wallet::processSale and moves time.  The  *)
(* options that only print, and input that does not parse, change nothing. *)
(***************************************************************************)
EXTENDS OrderBook, Wallet

CONSTANTS Product,          \* what the user may type as a product
          Base, Quote,      \* its currencies; the domain of Quote is the
                            \* products with a separator
          EthBtc,           \* the product gotoNextTimeframe matches
          Files,            \* possible contents of the CSV file
          StartBTC,
          OfferPrices, OfferAmounts, \* numbers the user may type
          GarbageTimes,     \* what reading orders[0] of an empty vector yields
          MaxOrders         \* bound: orders the user enters

ASSUME ConsoleProducts ==
    /\ Product \subseteq Nat /\ EthBtc \in DOMAIN Quote
    /\ DOMAIN Quote \subseteq Product
    /\ Base \in [Product -> Currency] /\ Quote \in [DOMAIN Quote -> Currency]
    /\ Base[EthBtc] = "ETH" /\ Quote[EthBtc] = "BTC" /\ {"ETH", "BTC"} \subseteq Currency

ASSUME ConsoleInputs ==
    /\ OfferPrices \subseteq Int /\ OfferAmounts \subseteq Int
    /\ GarbageTimes \subseteq Nat /\ MaxOrders \in Nat /\ StartBTC \in Nat

\* Every file the reader can return that is in time order; of one without
\* orders main would read orders[0].  The reader names no user, and the
\* constructor of OrderBookEntry then says "dataset".
ASSUME ConsoleFiles ==
    \A f \in Files : /\ f \in Seq(Entry) /\ f # <<>> /\ IsSortedBy(f, comapreByTimestamp)
                     /\ \A n \in DOMAIN f : f[n].username = "dataset"

VARIABLES currencies, currentTime,
          pc,           \* "menu", "frame" in gotoNextTimeframe, "crashed"
          \* auxiliary: no step reads these
          submitted,    \* orders accepted from the user so far
          flags         \* which of Flag has happened
consoleVars == <<currencies, currentTime, pc>>
auxVars == <<submitted, flags>>
vars == <<bookVars, consoleVars, auxVars>>

Flag == {"overlapped",  \* an order was accepted while another was in the book
         "signed"}      \* a typed price was negative, or an amount not positive

Init ==
    /\ orders \in Files
    /\ call = [product |-> 0, timestamp |-> 0] /\ LocalsDead
    /\ currencies = [c \in {"BTC"} |-> StartBTC]
    /\ currentTime = getEarliestTime
    /\ pc = "menu"
    /\ submitted = 0 /\ flags = {}

-----------------------------------------------------------------------------
(* enterAsk, enterBid *)

FirstUserId == 10

Typed(side, p, price, amount) ==
    [price |-> price, amount |-> amount, product |-> p, timestamp |-> currentTime,
     orderType |-> side, username |-> "simuser", id |-> FirstUserId + submitted]

HasOpenOrder == \E n \in DOMAIN orders : orders[n].username = "simuser"

\* Any number that stod reads is taken, negative ones and zero included.  An
\* order the wallet cannot cover changes nothing.
Enter(e) ==
    /\ pc = "menu" /\ submitted < MaxOrders
    /\ insertOrder(e)
    /\ submitted' = submitted + 1
    /\ flags' = flags \cup (IF HasOpenOrder THEN {"overlapped"} ELSE {})
                      \cup (IF e.price < 0 \/ e.amount <= 0 THEN {"signed"} ELSE {})
    /\ UNCHANGED consoleVars

\* currs[1] is only read for a bid, so a product without a separator will do.
enterAsk(p, price, amount) ==
    LET e == Typed("ask", p, price, amount) IN
    /\ canFulfillOrder(currencies, e, Base[p], "")
    /\ Enter(e)

enterBid(p, price, amount) ==
    LET e == Typed("bid", p, price, amount) IN
    /\ p \in DOMAIN Quote
    /\ canFulfillOrder(currencies, e, Base[p], Quote[p])
    /\ Enter(e)

\* currs[1] of a product without a separator is past the end of the vector: the
\* process dies, or whatever string is found there is no currency of the wallet
\* and the bid is turned down, which changes nothing.
enterBareBid(p) ==
    /\ pc = "menu" /\ p \notin DOMAIN Quote
    /\ pc' = "crashed"
    /\ UNCHANGED <<bookVars, currencies, currentTime, auxVars>>

-----------------------------------------------------------------------------
(* gotoNextTimeframe *)

gotoNextTimeframe ==
    /\ pc = "menu"
    /\ matchAsksToBids(EthBtc, currentTime)
    /\ pc' = "frame"
    /\ UNCHANGED <<currencies, currentTime, auxVars>>

Match == pc = "frame" /\ (MatchLoop \/ WriteBack) /\ UNCHANGED <<consoleVars, auxVars>>

AtSale == pc = "frame" /\ returned /\ sales # <<>>

SkipSale ==     \* a trade between two dataset orders
    /\ AtSale /\ Head(sales).username # "simuser"
    /\ sales' = Tail(sales)
    /\ UNCHANGED <<orders, call, asks, bids, i, j, returned, consoleVars, auxVars>>

Settle ==
    /\ AtSale /\ Head(sales).username = "simuser"
    /\ currencies' = processSale(currencies, Head(sales),
                                 Base[call.product], Quote[call.product])
    /\ sales' = Tail(sales)
    /\ UNCHANGED <<orders, call, asks, bids, i, j, returned, currentTime, pc, auxVars>>

FrameDone == pc = "frame" /\ returned /\ sales = <<>>

AdvanceTimeStuck ==         \* a slip: the menu is not shown again
    /\ FrameDone /\ orders # <<>>
    /\ currentTime' = getNextTime(currentTime)
    /\ UNCHANGED <<bookVars, currencies, pc, auxVars>>

AdvanceTime ==
    /\ FrameDone /\ orders # <<>>
    /\ currentTime' = getNextTime(currentTime)
    /\ pc' = "menu"
    /\ UNCHANGED <<bookVars, currencies, auxVars>>

\* orders[0] of an empty vector: a freed string, or the process dies.
AdvanceTimeOfEmptyBook ==
    /\ FrameDone /\ orders = <<>>
    /\ \/ currentTime' \in GarbageTimes /\ pc' = "menu"
       \/ pc' = "crashed" /\ UNCHANGED currentTime
    /\ UNCHANGED <<bookVars, currencies, auxVars>>

FrameStep == \/ Match \/ SkipSale \/ Settle \/ AdvanceTime \/ AdvanceTimeOfEmptyBook

Next ==
    \/ \E p \in Product, price \in OfferPrices, amount \in OfferAmounts :
         enterAsk(p, price, amount) \/ enterBid(p, price, amount)
    \/ \E p \in Product : enterBareBid(p)
    \/ gotoNextTimeframe
    \/ FrameStep

Spec == Init /\ [][Next]_vars

\* An option that was chosen runs to its end; the user need not choose any.
FairSpec == Spec /\ WF_vars(FrameStep)

-----------------------------------------------------------------------------
(* Properties *)

\* Orders with nothing to trade may be in the book here: the user can type them.
TypeOK ==
    /\ orders \in Seq(Entry) /\ call \in [product : Nat, timestamp : Nat]
    /\ MatchTypeOK
    /\ IsWallet(currencies)
    /\ currentTime \in Nat
    /\ pc \in {"menu", "frame", "crashed"}
    /\ submitted \in 0..MaxOrders /\ flags \subseteq Flag
    /\ pc # "frame" => returned /\ sales = <<>>

\* An order typed with amount zero or less stays in the book and is copied, sorted
\* and written back with the others; it is never traded (OrderBook.cpp:125,129).
SalesPositive == \A k \in DOMAIN sales : sales[k].amount > 0

\* processSale tests nothing, and yet canFulfillOrder at the time of entry is
\* enough for a user with one order in the book at a time and positive numbers:
\* whatever the frames and partial fills, no balance becomes negative.
OverdrawnByOverlapOnly ==
    (\E c \in DOMAIN currencies : currencies[c] < 0) => flags \cap {"overlapped", "signed"} # {}

\* Only ETH/BTC is ever matched: whatever is in the book and whatever the user
\* orders, the wallet never gets a third currency.
HoldsEthAndBtcOnly == DOMAIN currencies \subseteq {"ETH", "BTC"}

\* Wallet.h:20, canFulfillOrder "checks if the wallet can cope with this ask and
\* bid": the orders it let through can be paid for.
WalletCopes == \A c \in DOMAIN currencies : currencies[c] >= 0

\* The menu comes back after every "continue": the matching loops end also with
\* dead orders among the copies.
MenuReturns == pc = "frame" ~> pc # "frame"
=============================================================================
