---------------------------- MODULE ServingProofs ----------------------------
(***************************************************************************)
(* The server, for any file, funds, products and number of orders: its     *)
(* inductive invariant, and from it type correctness, that no balance is   *)
(* ever negative, and that the browser's balances mirror the wallet where  *)
(* they follow it; that time does not move past a trade; and that the      *)
(* wallet is what the user's fills add up to, and covers one order at a    *)
(* time.                                                                   *)
(*                                                                         *)
(* The server as one page uses it: the session of the page and the server, *)
(* for any files, orders, prices and history, and with the connection      *)
(* closing, the page reloading and messages being lost at any point.  It   *)
(* only ever does what Trading does, so that all that is proved of the     *)
(* server holds in it; the balances that are shown, the rows that wait and *)
(* the rows that are rejected follow from an invariant that accounts for   *)
(* every message on its way.                                               *)
(*                                                                         *)
(* By several pages, for any number of connections and workers, any files  *)
(* and any orders: however the handlers interleave, as long as their       *)
(* accesses do not overlap, the book stays sorted and clean, every         *)
(* handler's loop keeps its invariant and every variable its type.  On one *)
(* worker the handlers implement Trading, a settlement done leg by leg     *)
(* included, and between two handlers the wallet is what the fills add up  *)
(* to.                                                                     *)
(***************************************************************************)
EXTENDS Session, Workers, OrderBookProofs

-----------------------------------------------------------------------------
(* The server *)

(* The wallet's operations *)

\* insertCurrency keeps a wallet a wallet with no balance below zero, and adds what it is given
\* to that currency only, if this is not negative.
LEMMA InsertCurrencyProperties ==
    ASSUME NEW w, IsWallet(w), NEW c \in Currency, NEW a \in Int
    PROVE  LET v == insertCurrency(w, c, a)
           IN  /\ IsWallet(v)
               /\ (\A d \in DOMAIN w : w[d] >= 0) => \A d \in DOMAIN v : v[d] >= 0
               /\ a >= 0 => \A d : BalanceOf(v, d) = BalanceOf(w, d) + (IF d = c THEN a ELSE 0)
<1> DEFINE v == [d \in DOMAIN w \cup {c} |-> IF d = c THEN BalanceOf(w, c) + a ELSE w[d]]
<1>1. \A d \in DOMAIN w : w[d] \in Int
  BY DEF IsWallet
<1>2. CASE a < 0
  BY <1>2 DEF insertCurrency, InsertThrows
<1>3. CASE ~(a < 0)
  <2>1. insertCurrency(w, c, a) = v
    BY <1>3 DEF insertCurrency, InsertThrows
  <2>2. BalanceOf(w, c) \in Int
    BY <1>1 DEF BalanceOf
  <2>3. IsWallet(v)
    BY <1>1, <2>2 DEF IsWallet
  <2>4. ASSUME \A d \in DOMAIN w : w[d] >= 0
        PROVE  \A d \in DOMAIN v : v[d] >= 0
    <3>1. BalanceOf(w, c) >= 0
      BY <2>4 DEF BalanceOf
    <3> QED
      BY <1>1, <1>3, <2>2, <2>4, <3>1
  <2>5. ASSUME NEW d
        PROVE  BalanceOf(v, d) = BalanceOf(w, d) + (IF d = c THEN a ELSE 0)
    <3>1. CASE d = c
      BY <3>1 DEF BalanceOf
    <3>2. CASE d # c /\ d \in DOMAIN w
      BY <1>1, <3>2 DEF BalanceOf
    <3>3. CASE d # c /\ d \notin DOMAIN w
      BY <3>3 DEF BalanceOf
    <3> QED
      BY <3>1, <3>2, <3>3
  <2> QED
    BY <2>1, <2>3, <2>4, <2>5
<1> QED
  BY <1>2, <1>3

\* removeCurrency keeps a wallet a wallet with no balance below zero, and takes off what it
\* says when it succeeds.
LEMMA RemoveCurrencyProperties ==
    ASSUME NEW w, IsWallet(w), NEW c \in Currency, NEW a \in Int
    PROVE  LET v == removeCurrency(w, c, a)
           IN  /\ IsWallet(v)
               /\ (\A d \in DOMAIN w : w[d] >= 0) => \A d \in DOMAIN v : v[d] >= 0
               /\ RemoveSucceeds(w, c, a) =>
                    \A d : BalanceOf(v, d) = BalanceOf(w, d) - (IF d = c THEN a ELSE 0)
<1>1. \A d \in DOMAIN w : w[d] \in Int
  BY DEF IsWallet
<1>2. CASE ~RemoveSucceeds(w, c, a)
  BY <1>2 DEF removeCurrency
<1>3. CASE RemoveSucceeds(w, c, a)
  <2> DEFINE v == [w EXCEPT ![c] = @ - a]
  <2>1. removeCurrency(w, c, a) = v
    BY <1>3 DEF removeCurrency
  <2>2. c \in DOMAIN w /\ w[c] >= a
    BY <1>3 DEF RemoveSucceeds, containsCurrency
  <2>3. /\ DOMAIN v = DOMAIN w /\ v[c] = w[c] - a
        /\ \A d \in DOMAIN w : d # c => v[d] = w[d]
    BY <2>2
  <2>4. IsWallet(v)
    BY <1>1, <2>2 DEF IsWallet
  <2> HIDE DEF v
  <2>5. (\A d \in DOMAIN w : w[d] >= 0) => \A d \in DOMAIN v : v[d] >= 0
    BY <1>1, <2>2, <2>3
  <2>6. ASSUME NEW d
        PROVE  BalanceOf(v, d) = BalanceOf(w, d) - (IF d = c THEN a ELSE 0)
    <3>1. CASE d = c
      BY <2>2, <2>3, <3>1 DEF BalanceOf
    <3>2. CASE d # c /\ d \in DOMAIN w
      BY <1>1, <2>3, <3>2 DEF BalanceOf
    <3>3. CASE d # c /\ d \notin DOMAIN w
      BY <2>3, <3>3 DEF BalanceOf
    <3> QED
      BY <3>1, <3>2, <3>3
  <2> QED
    BY <2>1, <2>4, <2>5, <2>6
<1> QED
  BY <1>2, <1>3

-----------------------------------------------------------------------------
(* The inductive invariant *)

\* An order that can be settled: SalesSettleable says it of every order.
Quoted(e) == e.product \in IF e.orderType = "bid" THEN DOMAIN Quote ELSE Product

\* The invariant holds when the server starts.
LEMMA ServerInvInit == Init => ServerInv
<1> SUFFICES ASSUME Init PROVE ServerInv
  OBVIOUS
<1>1. /\ orders \in Seq(Entry) /\ orders # <<>>
      /\ IsSortedBy(orders, comapreByTimestamp) /\ Live(orders) = DOMAIN orders
      /\ \A n \in DOMAIN orders : Quoted(orders[n])
  BY FilesAssumption, ProductAssumption DEF Init, Quoted
<1>2. call \in [product : Nat, timestamp : Nat] /\ LocalsDead
  BY DEF Init
<1>3. BookInv
  BY <1>1, <1>2, LoadedBook
<1>4. currentTime \in Nat
  <2>1. orders[1] \in Entry
    BY <1>1
  <2> QED
    BY <2>1 DEF Init, getEarliestTime, Entry
<1>5. /\ StartBTC \in Nat /\ StartUSDT \in Nat
      /\ DOMAIN StartFunds = {"BTC", "USDT"}
      /\ StartFunds["BTC"] = StartBTC /\ StartFunds["USDT"] = StartUSDT
  BY FundsAssumption DEF StartFunds
<1>6. IsWallet(StartFunds) /\ \A c \in DOMAIN StartFunds : StartFunds[c] >= 0
  <2>1. \A c \in DOMAIN StartFunds : StartFunds[c] \in Int /\ StartFunds[c] >= 0
    BY <1>5
  <2>2. StartFunds \in [DOMAIN StartFunds -> Int]
    BY <2>1 DEF StartFunds
  <2> QED
    BY <1>5, <2>1, <2>2, FundsAssumption DEF IsWallet
<1>7. \A c : BalanceOf(StartFunds, c) \in Int
  BY <1>5 DEF BalanceOf
<1>8. WalletNonNegative /\ UiMirrorsWallet
  BY <1>6 DEF Init, WalletNonNegative, UiMirrorsWallet
<1>9. TypeOK
  <2>1. ui \in [UiCurrency -> Int] /\ owed \in [Currency -> Int]
    BY <1>7 DEF Init
  <2>2. submitted \in 0..MaxOrders
    BY OfferAssumption DEF Init
  <2> QED
    BY <1>2, <1>3, <1>4, <1>6, <2>1, <2>2 DEF Init, TypeOK, BookInv, LocalsDead
<1> QED
  BY <1>1, <1>2, <1>3, <1>8, <1>9 DEF ServerInv, SalesSettleable, Quoted, Init, LocalsDead

\* The part of the invariant that depends on the server's own variables.
ServerPart ==
    /\ IsWallet(currencies)
    /\ ui \in [UiCurrency -> Int]
    /\ currentTime \in Nat
    /\ pc \in {"idle", "frame", "crashed"}
    /\ todo \subseteq Product
    /\ submitted \in 0..MaxOrders
    /\ owed \in [Currency -> Int]
    /\ flags \subseteq Flag
    /\ WalletNonNegative /\ UiMirrorsWallet

\* The invariant as a conjunction of parts that the actions disturb one by one.
LEMMA ServerInvParts ==
    ServerInv <=> /\ BookInv /\ ServerPart /\ SalesSettleable
                  /\ pc # "frame" => returned /\ sales = <<>> /\ todo = {}
BY DEF ServerInv, ServerPart, TypeOK, BookInv

\* The invariant after a step, put together from its parts.
LEMMA ServerInvNext ==
    ASSUME BookInv', ServerPart', SalesSettleable',
           pc' # "frame" => returned' /\ sales' = <<>> /\ todo' = {}
    PROVE  ServerInv'
<1>1. (ServerInv <=> /\ BookInv /\ ServerPart /\ SalesSettleable
                     /\ pc # "frame" => returned /\ sales = <<>> /\ todo = {})'
  BY ServerInvParts, PTL
<1> QED
  BY <1>1

\* A step that leaves the wallet and the balances alone keeps their invariant.
LEMMA ServerPartNext ==
    ASSUME ServerPart, UNCHANGED <<currencies, ui, submitted>>,
           currentTime' \in Nat, pc' \in {"idle", "frame", "crashed"}, todo' \subseteq Product,
           owed' \in [Currency -> Int], flags' \subseteq Flag, flags \subseteq flags'
    PROVE  ServerPart'
BY DEF ServerPart, WalletNonNegative, UiMirrorsWallet

\* An order the user submits is a live entry of the book.
LEMMA UserOrderType ==
    ASSUME currentTime \in Nat, submitted \in Nat,
           NEW side \in {"buy", "sell"}, NEW p \in Product,
           NEW price \in OfferPrices, NEW amount \in OfferAmounts
    PROVE  LET e == UserOrder(side, p, price, amount)
           IN  e \in Entry /\ e.amount > 0 /\ e.product = p
<1>1. /\ price \in Int /\ amount \in Int /\ amount > 0 /\ p \in Nat
      /\ currentTime \in Nat /\ FirstUserId + submitted \in Nat
  BY OfferAssumption, ProductAssumption DEF FirstUserId
<1> QED
  BY <1>1 DEF UserOrder, Entry, OrderBookType, User

\* A submission keeps the invariant.
LEMMA SubmitKeepsInv ==
    ASSUME ServerInv, NEW side \in {"buy", "sell"}, NEW p \in Product,
           NEW price \in OfferPrices, NEW amount \in OfferAmounts,
           SubmitOrder(side, p, price, amount)
    PROVE  ServerInv'
<1> DEFINE e == UserOrder(side, p, price, amount)
<1>1. e \in Entry /\ e.amount > 0 /\ e.product = p
  BY UserOrderType DEF ServerInv, TypeOK
<1> HIDE DEF e
<1>2. insertOrder(e)
  BY DEF SubmitOrder, e
<1>3. BookInv'
  BY <1>1, <1>2, InsertKeepsInv DEF ServerInv
<1>4. \A n \in DOMAIN orders' : Quoted(orders'[n])
  <2>1. \A k \in DOMAIN orders' :
          orders'[k] = e \/ \E m \in DOMAIN orders : orders'[k] = orders[m]
    BY <1>1, <1>2, InsertedBook DEF ServerInv, BookInv, BookTypeOK
  <2>2. Quoted(e)
    BY <1>1, ProductAssumption DEF Quoted, SubmitOrder, UserOrder, e
  <2> QED
    BY <2>1, <2>2 DEF ServerInv, SalesSettleable, Quoted
<1>5. pc' = "idle" /\ returned /\ UNCHANGED <<serverVars, owed, sales, returned>>
  BY <1>2 DEF SubmitOrder, insertOrder, matchVars, ServerInv, TypeOK, serverVars
<1>6. submitted' \in 0..MaxOrders /\ flags' \subseteq Flag
  BY OfferAssumption DEF SubmitOrder, ServerInv, TypeOK, Flag
<1>7. flags \subseteq flags'
  BY DEF SubmitOrder
<1>8. ServerPart'
  BY <1>5, <1>6, <1>7 DEF ServerInv, TypeOK, ServerPart, serverVars, WalletNonNegative,
     UiMirrorsWallet
<1>9. SalesSettleable'
  BY <1>4, <1>5 DEF ServerInv, SalesSettleable, Quoted
<1>10. returned' /\ sales' = <<>> /\ todo' = {}
  BY <1>5 DEF SubmitOrder, ServerInv, TypeOK, serverVars
<1> QED
  BY <1>3, <1>8, <1>9, <1>10, ServerInvNext

\* The start of a frame keeps the invariant.
LEMMA NextTimeframeKeepsInv ==
    ASSUME ServerInv, NextTimeframe
    PROVE  ServerInv'
<1>1. BookInv /\ ServerPart /\ SalesSettleable
  BY ServerInvParts
<1>2. BookInv'
  BY <1>1, BookInvStep DEF NextTimeframe
<1>3. todo' \subseteq Product
  BY <1>1, ProductAssumption DEF NextTimeframe, KnownProducts, SalesSettleable
<1>4. ServerPart'
  BY <1>1, <1>3, ServerPartNext DEF NextTimeframe, auxVars, ServerPart
<1>5. returned /\ sales = <<>> /\ UNCHANGED <<orders, call, returned, sales>>
  BY DEF NextTimeframe, ServerInv, TypeOK, bookVars, matchVars
<1>6. SalesSettleable'
  BY <1>1, <1>5 DEF SalesSettleable
<1> QED
  BY <1>2, <1>4, <1>6, ServerInvNext DEF NextTimeframe

\* The start of a match keeps the invariant.
LEMMA MatchProductKeepsInv ==
    ASSUME ServerInv, MatchProduct
    PROVE  ServerInv'
<1>1. BookInv /\ ServerPart /\ SalesSettleable
  BY ServerInvParts
<1>2. todo \subseteq Product /\ currentTime \in Nat /\ todo \subseteq Nat /\ todo # {}
  BY <1>1, ProductAssumption DEF ServerPart, MatchProduct
<1>3. Min(todo) \in Product /\ Min(todo) \in Nat
  BY <1>2, MinProperties
<1> DEFINE p == Min(todo)
<1> HIDE DEF p
<1>4. matchAsksToBids(p, currentTime) /\ p \in Product /\ p \in Nat
  BY <1>3 DEF MatchProduct, p
<1>5. BookInv'
  BY <1>1, <1>2, <1>4, BookInvStep DEF BookNext
<1>6. UNCHANGED orders /\ call'.product = p /\ sales' = <<>>
  BY <1>4 DEF matchAsksToBids, MatchEmpty, MatchBegin
<1>7. ASSUME ~returned'
      PROVE  p \in DOMAIN Quote
  <2>1. getOrders("bid", p, currentTime) # <<>>
    BY <1>4, <1>7 DEF matchAsksToBids, MatchEmpty, MatchBegin
  <2> DEFINE K == Visible("bid", p, currentTime)
  <2>2. K # {}
    BY <2>1, FS_EmptySet DEF getOrders, At
  <2> QED
    BY <1>1, <2>2 DEF Visible, SalesSettleable
<1>8. SalesSettleable'
  BY <1>1, <1>6, <1>7 DEF SalesSettleable
<1>9. ServerPart'
  BY <1>1, ServerPartNext DEF MatchProduct, auxVars, ServerPart
<1>10. pc' = "frame"
  BY DEF MatchProduct, BetweenProducts
<1> QED
  BY <1>5, <1>8, <1>9, <1>10, ServerInvNext

\* A product without a separator keeps the invariant, however the frame ends.
LEMMA BareProductKeepsInv ==
    ASSUME ServerInv, BareProductAborts \/ BareProductCrash
    PROVE  ServerInv'
<1>1. BookInv /\ ServerPart /\ SalesSettleable
  BY ServerInvParts
<1>2. /\ returned /\ sales = <<>> /\ pc' \in {"idle", "crashed"} /\ todo' = {}
      /\ UNCHANGED <<bookVars, currencies, ui, currentTime, auxVars>>
  BY DEF BareProductAborts, BareProductCrash, BetweenProducts, ServerInv, TypeOK
<1>3. BookInv'
  BY <1>1, <1>2, BookInvStep
<1>4. ServerPart'
  BY <1>1, <1>2, ServerPartNext DEF auxVars, ServerPart
<1>5. UNCHANGED <<orders, call, sales, returned>>
  BY <1>2 DEF bookVars, matchVars
<1>6. SalesSettleable'
  BY <1>1, <1>2, <1>5 DEF SalesSettleable
<1> QED
  BY <1>2, <1>3, <1>4, <1>5, <1>6, ServerInvNext

\* A fill changes what the user is owed by integers.
LEMMA SettledType ==
    ASSUME NEW w \in [Currency -> Int], NEW a \in Int, NEW q \in Int,
           NEW bought \in BOOLEAN, NEW sold \in BOOLEAN
    PROVE  Settled(w, a, q, bought, sold) \in [Currency -> Int]
<1> DEFINE net == (IF bought THEN a ELSE 0) - (IF sold THEN a ELSE 0)
<1>1. net \in Int
  OBVIOUS
<1>2. Settled(w, a, q, bought, sold) =
        [c \in Currency |-> w[c] + (IF c = Base[call.product] THEN net ELSE 0)
                                 - (IF c = Quote[call.product] THEN net * q ELSE 0)]
  BY DEF Settled
<1> HIDE DEF net
<1>3. net * q \in Int
  BY <1>1
<1>4. \A c \in Currency : w[c] + (IF c = Base[call.product] THEN net ELSE 0)
                              - (IF c = Quote[call.product] THEN net * q ELSE 0) \in Int
  BY <1>1, <1>3
<1> QED
  BY <1>2, <1>4

\* The loop only sells positive amounts.
LEMMA MatchLoopSales ==
    ASSUME LoopInv, MatchLoop, \A k \in DOMAIN sales : sales[k].amount > 0
    PROVE  \A k \in DOMAIN sales' : sales'[k].amount > 0
<1>1. CASE FillEqual \/ FillAsk \/ FillBid
  <2>1. PICK x \in Int : x > 0 /\ sales' = Append(sales, SaleOf(asks[i], bids[j], x))
    BY <1>1, FillCases
  <2>2. sales \in Seq(Sale)
    BY DEF LoopInv, MatchTypeOK
  <2>3. SaleOf(asks[i], bids[j], x).amount = x
    BY DEF SaleOf
  <2> QED
    BY <2>1, <2>2, <2>3
<1>2. CASE OuterSkip \/ OuterEnter \/ InnerEnd \/ InnerSkip
  BY <1>2 DEF OuterSkip, OuterEnter, InnerEnd, InnerSkip
<1> QED
  BY <1>1, <1>2 DEF MatchLoop, LoopStep

\* A fill changes what the user is owed by integers and refuses nothing.
LEMMA MatchStepOwed ==
    ASSUME LoopInv, LoopInv', MatchStep, owed \in [Currency -> Int], flags \subseteq Flag
    PROVE  /\ owed' \in [Currency -> Int] /\ flags' \subseteq Flag
           /\ flags \subseteq flags'
<1>1. CASE sales' = sales
  BY <1>1 DEF MatchStep
<1>2. CASE sales' # sales
  <2> DEFINE s == sales'[Len(sales')]
             bought == bids[j].username = "simuser"
             sold == asks[i].username = "simuser"
  <2>1. /\ owed' = Settled(owed, s.amount, s.price, bought, sold)
        /\ flags' = flags \cup (IF bought /\ sold THEN {"selfTraded"} ELSE {})
    BY <1>2 DEF MatchStep
  <2>2. sales' \in Seq(Sale) /\ sales' # <<>>
    <3>1. sales' \in Seq(Sale) /\ sales \in Seq(Sale)
      BY DEF LoopInv, MatchTypeOK
    <3>2. FillEqual \/ FillAsk \/ FillBid
      BY <1>2 DEF MatchStep, MatchLoop, LoopStep, OuterSkip, OuterEnter, InnerEnd, InnerSkip
    <3>3. PICK x : sales' = Append(sales, x)
      BY <3>2 DEF FillEqual, FillAsk, FillBid
    <3> QED
      BY <3>1, <3>3
  <2>3. s \in Sale
    BY <2>2
  <2>4. s.amount \in Int /\ s.price \in Int
    BY <2>3 DEF Sale
  <2> HIDE DEF s
  <2>5. owed' \in [Currency -> Int]
    BY <2>1, <2>4, SettledType
  <2> QED
    BY <2>1, <2>5 DEF Flag
<1> QED
  BY <1>1, <1>2

\* A step of the matching loop keeps the invariant.
LEMMA MatchStepKeepsInv ==
    ASSUME ServerInv, MatchStep
    PROVE  ServerInv'
<1>1. BookInv /\ ServerPart /\ SalesSettleable
  BY ServerInvParts
<1>2. MatchLoop /\ pc' = "frame" /\ pc = "frame" /\ UNCHANGED <<serverVars, submitted>>
  BY DEF MatchStep, serverVars
<1>3. BookInv'
  BY <1>1, <1>2, BookInvStep DEF BookNext
<1>4. ~returned /\ UNCHANGED <<orders, call>>
  BY <1>2 DEF MatchLoop, LoopStep, OuterSkip, OuterEnter, InnerEnd, InnerSkip, FillEqual,
     FillAsk, FillBid, AtAsk, AtBid, AtCross
<1>5. SalesSettleable'
  <2>1. \A k \in DOMAIN sales' : sales'[k].amount > 0
    BY <1>1, <1>2, MatchLoopSales DEF SalesSettleable, BookInv
  <2> QED
    BY <1>1, <1>2, <1>4, <2>1 DEF SalesSettleable
<1>6. /\ owed' \in [Currency -> Int] /\ flags' \subseteq Flag
      /\ flags \subseteq flags'
  BY <1>1, <1>3, MatchStepOwed DEF ServerPart, BookInv
<1>7. ServerPart'
  BY <1>1, <1>2, <1>6, ServerPartNext DEF serverVars, ServerPart
<1> QED
  BY <1>2, <1>3, <1>5, <1>7, ServerInvNext

\* The write-back keeps the invariant.
LEMMA MatchReturnKeepsInv ==
    ASSUME ServerInv, MatchReturn
    PROVE  ServerInv'
<1>1. BookInv /\ ServerPart /\ SalesSettleable
  BY ServerInvParts
<1>2. /\ WriteBack /\ pc = "frame" /\ pc' = "frame"
      /\ UNCHANGED <<serverVars, auxVars, call, sales>>
  BY DEF MatchReturn, WriteBack, serverVars
<1>3. BookInv'
  BY <1>1, <1>2, BookInvStep DEF BookNext
<1>4. \A k \in DOMAIN orders' : Quoted(orders'[k])
  <2>1. \A k \in DOMAIN orders' : \E n \in DOMAIN orders :
          /\ orders'[k].product = orders[n].product
          /\ orders'[k].orderType = orders[n].orderType
    BY <1>1, <1>2, WriteBackLeaves DEF BookInv, BookTypeOK, MatchTypeOK
  <2> QED
    BY <1>1, <2>1 DEF SalesSettleable, Quoted
<1>5. ~returned
  BY <1>2 DEF WriteBack, LoopsDone
<1>6. SalesSettleable'
  BY <1>1, <1>2, <1>4, <1>5 DEF SalesSettleable, Quoted
<1>7. ServerPart'
  BY <1>1, <1>2, ServerPartNext DEF serverVars, auxVars, ServerPart
<1> QED
  BY <1>2, <1>3, <1>6, <1>7, ServerInvNext

\* A settlement leaves the invariant of the book alone.
LEMMA SettleKeepsBook ==
    ASSUME BookInv, sales' \in Seq(Sale),
           UNCHANGED <<orders, call, asks, bids, i, j, returned>>
    PROVE  BookInv'
<1>1. MatchTypeOK'
  BY DEF BookInv, BookTypeOK, MatchTypeOK
<1>2. LoopInv'
  BY <1>1 DEF BookInv, LoopInv, IsSortedBy, LoopPosition, PassedAsks, PassedBids, Live,
     Crosses, comapreByPriceAsc, comapreByPriceDesc
<1>3. CopiesComplete'
  BY DEF BookInv, CopiesComplete, Visible, Twins
<1> QED
  BY <1>1, <1>2, <1>3 DEF BookInv, BookTypeOK, BookSorted, IsSortedBy, comapreByTimestamp, Live

\* The ui_ variables follow the base and the quote of every product, those aside that
\* Unfollowed names.
LEMMA UiMovedProperties ==
    ASSUME ui \in [UiCurrency -> Int], NEW b \in Int, NEW q \in Int
    PROVE  /\ UiMoved(b, q) \in [UiCurrency -> Int]
           /\ \A c \in UiCurrency \ Unfollowed :
                UiMoved(b, q)[c] = ui[c] + (IF c = Base[call.product] THEN b ELSE 0)
                                         + (IF c = Quote[call.product] THEN q ELSE 0)
<1>1. UiMoved(b, q) \in [UiCurrency -> Int]
  BY DEF UiMoved
<1>2. ASSUME NEW c \in UiCurrency \ Unfollowed
      PROVE  /\ c = Base[call.product] => c \in FollowedBases
             /\ c = Quote[call.product] => c \in FollowedQuotes
  BY <1>2 DEF Unfollowed
<1>3. \A c \in UiCurrency :
        UiMoved(b, q)[c] =
          ui[c] + (IF c = Base[call.product] /\ c \in FollowedBases THEN b ELSE 0)
                + (IF c = Quote[call.product] /\ c \in FollowedQuotes THEN q ELSE 0)
  BY DEF UiMoved
<1> HIDE DEF Unfollowed
<1> QED
  BY <1>1, <1>2, <1>3

\* A sale that waits has a known product, with its currencies, and a positive amount.
LEMMA PendingSale ==
    ASSUME sales \in Seq(Sale), sales # <<>>, call.product \in DOMAIN Quote,
           \A k \in DOMAIN sales : sales[k].amount > 0
    PROVE  /\ sale \in Sale /\ Tail(sales) \in Seq(Sale)
           /\ sale.amount \in Int /\ sale.amount > 0 /\ Value \in Int
           /\ Base[call.product] \in Currency /\ Quote[call.product] \in Currency
           /\ \A k \in DOMAIN Tail(sales) : Tail(sales)[k].amount > 0
<1>1. sale = sales[1] /\ sale \in Sale /\ Tail(sales) \in Seq(Sale) /\ 1 \in DOMAIN sales
  BY DEF sale
<1>2. sale.amount \in Int /\ sale.price \in Int /\ sale.amount > 0
  BY <1>1 DEF Sale
<1>3. Value \in Int
  BY <1>2 DEF Value
<1>4. \A k \in DOMAIN Tail(sales) : k + 1 \in DOMAIN sales /\ Tail(sales)[k] = sales[k + 1]
  OBVIOUS
<1>5. \A k \in DOMAIN Tail(sales) : Tail(sales)[k].amount > 0
  BY <1>4
<1> QED
  BY <1>1, <1>2, <1>3, <1>5, ProductAssumption

\* It again, from the invariant.
LEMMA SaleTypes ==
    ASSUME ServerInv, pc = "frame", returned, sales # <<>>
    PROVE  /\ sale \in Sale /\ Tail(sales) \in Seq(Sale)
           /\ sale.amount \in Int /\ sale.amount > 0 /\ Value \in Int
           /\ call.product \in DOMAIN Quote
           /\ Base[call.product] \in Currency /\ Quote[call.product] \in Currency
           /\ \A k \in DOMAIN Tail(sales) : Tail(sales)[k].amount > 0
<1>1. sales \in Seq(Sale) /\ call.product \in DOMAIN Quote
      /\ \A k \in DOMAIN sales : sales[k].amount > 0
  BY DEF ServerInv, TypeOK, BookTypeOK, MatchTypeOK, SalesSettleable
<1> QED
  BY <1>1, PendingSale

\* The settlement of a purchase keeps the invariant.
LEMMA SettleBuyKeeps ==
    ASSUME ServerInv, pc = "frame", returned, sales # <<>>, SettleBuy,
           UNCHANGED <<currentTime, submitted, owed>>
    PROVE  ServerPart'
<1> DEFINE base == Base[call.product]
           quote == Quote[call.product]
           credited == insertCurrency(currencies, base, sale.amount)
<1>1. /\ sale.amount \in Int /\ sale.amount > 0 /\ Value \in Int
      /\ call.product \in DOMAIN Quote /\ base \in Currency /\ quote \in Currency
  BY SaleTypes
<1>2. ServerPart
  BY ServerInvParts
<1>3. /\ currencies' = removeCurrency(credited, quote, Value)
      /\ ui' = UiMoved(sale.amount, -Value)
      /\ flags' = flags \cup Unfollowed
           \cup (IF RemoveSucceeds(credited, quote, Value) THEN {} ELSE {"refused"})
           \cup (IF pc' = "idle" THEN {"cut"} ELSE {})
      /\ Told \/ Untold
  BY DEF SettleBuy
<1> HIDE DEF base, quote
<1>4. /\ IsWallet(credited) /\ \A d \in DOMAIN credited : credited[d] >= 0
      /\ \A d : BalanceOf(credited, d) =
               BalanceOf(currencies, d) + (IF d = base THEN sale.amount ELSE 0)
  <2>1. IsWallet(currencies) /\ \A d \in DOMAIN currencies : currencies[d] >= 0
    BY <1>2 DEF ServerPart, WalletNonNegative
  <2>2. sale.amount \in Int /\ sale.amount >= 0 /\ base \in Currency
    BY <1>1
  <2> QED
    BY <2>1, <2>2, InsertCurrencyProperties
<1> HIDE DEF credited
<1>5. /\ IsWallet(currencies') /\ \A d \in DOMAIN currencies' : currencies'[d] >= 0
      /\ RemoveSucceeds(credited, quote, Value) =>
           \A d : BalanceOf(currencies', d) =
                    BalanceOf(credited, d) - (IF d = quote THEN Value ELSE 0)
  BY <1>1, <1>3, <1>4, RemoveCurrencyProperties
<1>6. /\ ui' \in [UiCurrency -> Int]
      /\ \A c \in UiCurrency \ Unfollowed : ui'[c] = ui[c] + (IF c = base THEN sale.amount ELSE 0)
                                             + (IF c = quote THEN -Value ELSE 0)
  <2>1. -Value \in Int /\ ui \in [UiCurrency -> Int]
    BY <1>1, <1>2 DEF ServerPart
  <2> QED
    BY <1>1, <1>3, <2>1, UiMovedProperties DEF base, quote
<1>7. ASSUME flags' \cap {"refused", "aborted"} = {}, NEW c \in UiCurrency \ flags'
      PROVE  ui'[c] = BalanceOf(currencies', c)
  <2>1. /\ RemoveSucceeds(credited, quote, Value) /\ flags \cap {"refused", "aborted"} = {}
        /\ c \in UiCurrency \ flags /\ c \in UiCurrency \ Unfollowed
    BY <1>3, <1>7
  <2>2. ui[c] = BalanceOf(currencies, c) /\ ui[c] \in Int
    BY <1>2, <2>1 DEF ServerPart, UiMirrorsWallet
  <2> QED
    BY <1>1, <1>4, <1>5, <1>6, <2>1, <2>2
<1>8. flags' \subseteq Flag
  BY <1>2, <1>3 DEF ServerPart, Flag, Unfollowed
<1>9. pc' \in {"idle", "frame", "crashed"} /\ todo' \subseteq Product
  BY <1>2, <1>3 DEF ServerPart, Told, Untold
<1> QED
  BY <1>2, <1>3, <1>5, <1>6, <1>7, <1>8, <1>9 DEF ServerPart, WalletNonNegative, UiMirrorsWallet

\* The settlement of a sale keeps the invariant.
LEMMA SettleSellKeeps ==
    ASSUME ServerInv, pc = "frame", returned, sales # <<>>, SettleSell,
           UNCHANGED <<currentTime, submitted, owed>>
    PROVE  ServerPart'
<1> DEFINE base == Base[call.product]
           quote == Quote[call.product]
           debited == removeCurrency(currencies, base, sale.amount)
<1>1. /\ sale.amount \in Int /\ sale.amount > 0 /\ Value \in Int
      /\ call.product \in DOMAIN Quote /\ base \in Currency /\ quote \in Currency
  BY SaleTypes
<1>2. ServerPart
  BY ServerInvParts
<1>3. /\ currencies' = insertCurrency(debited, quote, Value) /\ Value >= 0
      /\ ui' = UiMoved(-sale.amount, Value)
      /\ flags' = flags \cup Unfollowed \cup
           (IF RemoveSucceeds(currencies, base, sale.amount) THEN {} ELSE {"refused"})
      /\ UNCHANGED <<pc, todo>>
  BY <1>1 DEF SettleSell, SellDebited, SellRefused, InsertThrows, Told
<1> HIDE DEF base, quote
<1>4. /\ IsWallet(debited) /\ \A d \in DOMAIN debited : debited[d] >= 0
      /\ RemoveSucceeds(currencies, base, sale.amount) =>
           \A d : BalanceOf(debited, d) =
                    BalanceOf(currencies, d) - (IF d = base THEN sale.amount ELSE 0)
  BY <1>1, <1>2, RemoveCurrencyProperties DEF ServerPart, WalletNonNegative
<1> HIDE DEF debited
<1>5. /\ IsWallet(currencies') /\ \A d \in DOMAIN currencies' : currencies'[d] >= 0
      /\ \A d : BalanceOf(currencies', d) =
               BalanceOf(debited, d) + (IF d = quote THEN Value ELSE 0)
  BY <1>1, <1>3, <1>4, InsertCurrencyProperties
<1>6. /\ ui' \in [UiCurrency -> Int]
      /\ \A c \in UiCurrency \ Unfollowed : ui'[c] = ui[c] + (IF c = base THEN -sale.amount ELSE 0)
                                             + (IF c = quote THEN Value ELSE 0)
  <2>1. -sale.amount \in Int /\ ui \in [UiCurrency -> Int]
    BY <1>1, <1>2 DEF ServerPart
  <2> QED
    BY <1>1, <1>3, <2>1, UiMovedProperties DEF base, quote
<1>7. ASSUME flags' \cap {"refused", "aborted"} = {}, NEW c \in UiCurrency \ flags'
      PROVE  ui'[c] = BalanceOf(currencies', c)
  <2>1. /\ RemoveSucceeds(currencies, base, sale.amount)
        /\ flags \cap {"refused", "aborted"} = {}
        /\ c \in UiCurrency \ flags /\ c \in UiCurrency \ Unfollowed
    BY <1>3, <1>7
  <2>2. ui[c] = BalanceOf(currencies, c) /\ ui[c] \in Int
    BY <1>2, <2>1 DEF ServerPart, UiMirrorsWallet
  <2> QED
    BY <1>1, <1>4, <1>5, <1>6, <2>1, <2>2
<1>8. flags' \subseteq Flag
  BY <1>2, <1>3 DEF ServerPart, Flag, Unfollowed
<1> QED
  BY <1>2, <1>3, <1>5, <1>6, <1>7, <1>8 DEF ServerPart, WalletNonNegative, UiMirrorsWallet

\* A settlement that throws keeps the invariant.
LEMMA SettleSellAbortsKeeps ==
    ASSUME ServerInv, pc = "frame", returned, sales # <<>>, SettleSellAborts,
           UNCHANGED <<currentTime, submitted, owed>>
    PROVE  ServerPart'
<1>1. sale.amount \in Int /\ Base[call.product] \in Currency
  BY SaleTypes
<1>2. ServerPart
  BY ServerInvParts
<1>3. IsWallet(currencies') /\ \A d \in DOMAIN currencies' : currencies'[d] >= 0
  BY <1>1, <1>2, RemoveCurrencyProperties
     DEF SettleSellAborts, SellDebited, ServerPart, WalletNonNegative
<1>4. flags' \subseteq Flag /\ "aborted" \in flags'
  BY <1>2 DEF SettleSellAborts, SellRefused, ServerPart, Flag
<1> QED
  BY <1>2, <1>3, <1>4
     DEF SettleSellAborts, ServerPart, WalletNonNegative, UiMirrorsWallet

\* Every settlement keeps the invariant.
LEMMA SettleSaleKeepsInv ==
    ASSUME ServerInv, SettleSale
    PROVE  ServerInv'
<1>1. BookInv /\ ServerPart /\ SalesSettleable /\ pc = "frame" /\ returned /\ sales # <<>>
  BY ServerInvParts DEF SettleSale
<1>2. UNCHANGED <<orders, call, asks, bids, i, j, returned, currentTime, submitted, owed>>
  BY DEF SettleSale
<1>3. /\ Tail(sales) \in Seq(Sale) /\ call.product \in DOMAIN Quote
      /\ \A k \in DOMAIN Tail(sales) : Tail(sales)[k].amount > 0
  BY <1>1, SaleTypes
<1>4. CASE SkipSale
  <2>1. sales' = Tail(sales) /\ UNCHANGED <<currencies, ui, pc, todo, flags>>
    BY <1>4 DEF SkipSale, Told
  <2>2. ServerPart'
    BY <1>1, <1>2, <2>1, ServerPartNext DEF ServerPart
  <2>3. BookInv' /\ SalesSettleable'
    BY <1>1, <1>2, <1>3, <2>1, SettleKeepsBook DEF SalesSettleable
  <2> QED
    BY <1>1, <2>1, <2>2, <2>3, ServerInvNext
<1>5. CASE SettleBuy \/ SettleSell
  <2>1. Told \/ Untold
    BY <1>5 DEF SettleBuy, SettleSell
  <2>2. \/ sales' = Tail(sales) /\ UNCHANGED <<pc, todo>>
        \/ sales' = <<>> /\ pc' = "idle" /\ todo' = {}
    BY <2>1 DEF Told, Untold
  <2>3. ServerPart'
    BY <1>1, <1>2, <1>5, SettleBuyKeeps, SettleSellKeeps
  <2>4. sales' \in Seq(Sale) /\ \A k \in DOMAIN sales' : sales'[k].amount > 0
    <3>1. CASE sales' = Tail(sales)
      BY <1>3, <3>1
    <3>2. CASE sales' = <<>>
      BY <3>2
    <3> QED
      BY <2>2, <3>1, <3>2
  <2>5. BookInv'
    BY <1>1, <1>2, <2>4, SettleKeepsBook
  <2>6. SalesSettleable'
    BY <1>1, <1>2, <1>3, <2>4 DEF SalesSettleable
  <2> QED
    BY <1>1, <1>2, <2>2, <2>3, <2>5, <2>6, ServerInvNext
<1>6. CASE SettleSellAborts
  <2>1. sales' = <<>> /\ pc' = "idle" /\ todo' = {}
    BY <1>6 DEF SettleSellAborts
  <2>2. ServerPart'
    BY <1>1, <1>2, <1>6, SettleSellAbortsKeeps
  <2>3. BookInv' /\ SalesSettleable'
    BY <1>1, <1>2, <2>1, SettleKeepsBook DEF SalesSettleable
  <2> QED
    BY <1>1, <1>2, <2>1, <2>2, <2>3, ServerInvNext
<1> QED
  BY <1>4, <1>5, <1>6 DEF SettleSale

\* The end of a frame keeps the invariant.
LEMMA AdvanceKeepsInv ==
    ASSUME ServerInv, AdvanceTime \/ AdvanceTimeOfEmptyBook
    PROVE  ServerInv'
<1>1. BookInv /\ ServerPart /\ SalesSettleable
  BY ServerInvParts
<1>2. /\ returned /\ sales = <<>> /\ todo = {}
      /\ UNCHANGED <<bookVars, currencies, ui, todo, auxVars>>
  BY DEF AdvanceTime, AdvanceTimeOfEmptyBook, BetweenProducts
<1>3. BookInv'
  BY <1>1, <1>2, BookInvStep
<1>4. pc' \in {"idle", "crashed"}
  BY DEF AdvanceTime, AdvanceTimeOfEmptyBook
<1>5. currentTime' \in Nat
  <2>1. CASE AdvanceTime
    <3> DEFINE times == {orders[n].timestamp : n \in DOMAIN orders}
               later == {u \in times : u > currentTime}
    <3>1. /\ orders \in Seq(Entry) /\ BookSorted /\ orders # <<>> /\ currentTime \in Nat
          /\ currentTime' = getNextTime(currentTime)
      BY <1>1, <2>1 DEF AdvanceTime, BookInv, BookTypeOK, ServerPart
    <3>2. /\ times \in SUBSET Nat
          /\ currentTime' = IF later = {} THEN Min(times) ELSE Min(later)
      BY <3>1, NextTime
    <3>3. times # {} /\ later \in SUBSET Nat
      BY <3>1, <3>2
    <3> HIDE DEF times, later
    <3> QED
      BY <3>2, <3>3, MinProperties
  <2>2. CASE AdvanceTimeOfEmptyBook
    BY <1>1, <2>2, OfferAssumption DEF AdvanceTimeOfEmptyBook, ServerPart
  <2> QED
    BY <2>1, <2>2
<1>6. ServerPart'
  BY <1>1, <1>2, <1>4, <1>5, ServerPartNext DEF auxVars, ServerPart
<1>7. UNCHANGED <<orders, call, sales, returned>>
  BY <1>2 DEF bookVars, matchVars
<1>8. SalesSettleable'
  BY <1>1, <1>2, <1>7 DEF SalesSettleable
<1> QED
  BY <1>2, <1>3, <1>4, <1>6, <1>7, <1>8, ServerInvNext

\* Every step of the server keeps the invariant.
LEMMA ServerInvStep == ServerInv /\ [Next]_vars => ServerInv'
<1> SUFFICES ASSUME ServerInv, [Next]_vars PROVE ServerInv'
  OBVIOUS
<1>1. ASSUME NEW side \in {"buy", "sell"}, NEW p \in Product,
             NEW price \in OfferPrices, NEW amount \in OfferAmounts,
             SubmitOrder(side, p, price, amount)
      PROVE  ServerInv'
  BY <1>1, SubmitKeepsInv
<1>2. CASE NextTimeframe
  BY <1>2, NextTimeframeKeepsInv
<1>3. CASE FrameStep
  BY <1>3, MatchProductKeepsInv, MatchStepKeepsInv, MatchReturnKeepsInv, SettleSaleKeepsInv,
     BareProductKeepsInv, AdvanceKeepsInv DEF FrameStep
<1>4. CASE UNCHANGED vars
  <2>1. BookInv /\ ServerPart /\ SalesSettleable
    BY ServerInvParts
  <2>2. UNCHANGED bookVars /\ UNCHANGED serverVars /\ UNCHANGED auxVars
    BY <1>4 DEF vars
  <2>3. BookInv'
    BY <2>1, <2>2, BookInvStep
  <2>4. ServerPart'
    BY <2>1, <2>2, ServerPartNext DEF serverVars, auxVars, ServerPart
  <2>5. UNCHANGED <<orders, call, sales, returned, pc, todo>>
    BY <2>2 DEF bookVars, matchVars, serverVars
  <2>6. SalesSettleable'
    BY <2>1, <2>5 DEF SalesSettleable
  <2> QED
    BY <2>3, <2>4, <2>5, <2>6, ServerInvParts, ServerInvNext
<1>5. CASE BareProductCrash
  BY <1>5, BareProductKeepsInv
<1> QED
  BY <1>1, <1>2, <1>3, <1>4, <1>5 DEF Next

\* The server's inductive invariant: the book's, and what the settlement needs
\* to know of the sales it goes through.
THEOREM ServerInvariant == Spec => []ServerInv
BY ServerInvInit, ServerInvStep, PTL DEF Spec

\* Every variable keeps its type; between two handlers no match is under way and no sale waits.
THEOREM TypeCorrect == Spec => []TypeOK
<1>1. ServerInv => TypeOK
  BY DEF ServerInv
<1> QED
  BY <1>1, ServerInvariant, PTL

\* No balance of the wallet is ever negative, however many orders the user
\* stacks on the same funds.
THEOREM WalletStaysNonNegative == Spec => []WalletNonNegative
<1>1. ServerInv => WalletNonNegative
  BY DEF ServerInv
<1> QED
  BY <1>1, ServerInvariant, PTL

\* Until a settlement is refused or throws, the balances shown by the browser are the
\* wallet's, whatever products are typed; each until a sale moves its currency on a side
\* where the ui_ variable does not follow it.
THEOREM UiFollowsWallet == Spec => []UiMirrorsWallet
<1>1. ServerInv => UiMirrorsWallet
  BY DEF ServerInv
<1> QED
  BY <1>1, ServerInvariant, PTL
-----------------------------------------------------------------------------
(* Time and trades.  A frame matches the products it found at its start one after the *)
(* other, and an exception may end it at any sale.  That time only moves when nothing *)
(* due could still trade follows from where the products that could are while a frame *)
(* runs: they are still to be matched, or in the match that runs, at the server's time. *)

ClearedInv ==
    pc = "frame" =>
        /\ ~returned => call.timestamp = currentTime
        /\ \A p \in Product : Crossed(p) => p \in todo \/ (~returned /\ call.product = p)

\* Orders that cross after a step that leaves the time, and the orders all but their
\* amounts, crossed before it.
LEMMA CrossedKept ==
    ASSUME UNCHANGED currentTime, NEW p, Crossed(p)',
           \A k \in DOMAIN orders' : \E n \in DOMAIN orders :
               /\ orders'[k].product = orders[n].product
               /\ orders'[k].orderType = orders[n].orderType
               /\ orders'[k].price = orders[n].price
               /\ orders'[k].timestamp = orders[n].timestamp
    PROVE  Crossed(p)
<1>1. PICK k \in DOMAIN orders', l \in DOMAIN orders' :
        /\ orders'[k].orderType = "ask" /\ orders'[l].orderType = "bid"
        /\ orders'[l].price >= orders'[k].price
        /\ {orders'[k].product, orders'[l].product} = {p}
        /\ orders'[k].timestamp <= currentTime /\ orders'[l].timestamp <= currentTime
  BY DEF Crossed, Crosses
<1>2. PICK m \in DOMAIN orders :
        /\ orders'[k].product = orders[m].product
        /\ orders'[k].orderType = orders[m].orderType
        /\ orders'[k].price = orders[m].price
        /\ orders'[k].timestamp = orders[m].timestamp
  OBVIOUS
<1>3. PICK n \in DOMAIN orders :
        /\ orders'[l].product = orders[n].product
        /\ orders'[l].orderType = orders[n].orderType
        /\ orders'[l].price = orders[n].price
        /\ orders'[l].timestamp = orders[n].timestamp
  OBVIOUS
<1> QED
  BY <1>1, <1>2, <1>3 DEF Crossed, Crosses

\* A product is matched at the server's time, or has nothing to match then.
LEMMA MatchProductClears ==
    ASSUME ServerInv, ClearedInv, MatchProduct
    PROVE  ClearedInv'
<1>1. /\ pc = "frame" /\ returned /\ matchAsksToBids(Min(todo), currentTime)
      /\ todo' = todo \ {Min(todo)} /\ UNCHANGED <<currentTime, pc, orders>>
  BY DEF MatchProduct, BetweenProducts, matchAsksToBids, MatchEmpty, MatchBegin
<1>2. ASSUME NEW p \in Product, Crossed(p)'
      PROVE  p \in todo' \/ p = Min(todo)
  <2>1. Crossed(p)
    BY <1>1, <1>2 DEF Crossed
  <2> QED
    BY <1>1, <2>1 DEF ClearedInv
<1>3. CASE MatchBegin(Min(todo), currentTime)
  <2>1. call' = [product |-> Min(todo), timestamp |-> currentTime] /\ returned' = FALSE
    BY <1>3 DEF MatchBegin
  <2> QED
    BY <1>1, <1>2, <2>1 DEF ClearedInv
<1>4. CASE MatchEmpty(Min(todo), currentTime)
  <2>1. returned'
    BY <1>1, <1>4 DEF MatchEmpty
  <2>2. ASSUME NEW type, getOrders(type, Min(todo), currentTime) = <<>>
        PROVE  Visible(type, Min(todo), currentTime) = {}
    <3>1. PICK K : K = Visible(type, Min(todo), currentTime)
      OBVIOUS
    <3>2. orders \in Seq(Entry) /\ K \in SUBSET DOMAIN orders
      BY <3>1 DEF ServerInv, TypeOK, BookTypeOK, Visible
    <3>3. \A n \in K : \E k \in DOMAIN At(orders, K) : Nth(K, k) = n
      BY <3>2, AtProperties
    <3>4. At(orders, K) = <<>>
      BY <2>2, <3>1 DEF getOrders
    <3> QED
      BY <3>1, <3>3, <3>4
  <2>3. ASSUME NEW p \in Product, p = Min(todo), Crossed(p)'
        PROVE  FALSE
    <3>1. Crossed(p)
      BY <1>1, <2>3 DEF Crossed
    <3>2. PICK m \in DOMAIN orders, n \in DOMAIN orders :
            /\ orders[m].orderType = "ask" /\ orders[n].orderType = "bid"
            /\ orders[m].product = p /\ orders[n].product = p
            /\ orders[m].timestamp <= currentTime /\ orders[n].timestamp <= currentTime
      BY <3>1 DEF Crossed
    <3>3. m \in Visible("ask", p, currentTime) /\ n \in Visible("bid", p, currentTime)
      BY <3>2 DEF Visible
    <3>4. getOrders("ask", p, currentTime) = <<>> \/ getOrders("bid", p, currentTime) = <<>>
      BY <1>4, <2>3 DEF MatchEmpty
    <3> QED
      BY <2>2, <2>3, <3>3, <3>4
  <2>4. ASSUME NEW p \in Product, Crossed(p)'
        PROVE  p \in todo'
    BY <1>2, <2>3, <2>4
  <2> QED
    BY <2>1, <2>4 DEF ClearedInv
<1> QED
  BY <1>1, <1>3, <1>4 DEF matchAsksToBids

\* What is left after a write-back is still to be matched.
LEMMA MatchReturnClears ==
    ASSUME ServerInv, ClearedInv, MatchReturn
    PROVE  ClearedInv'
<1>1. /\ pc = "frame" /\ WriteBack /\ returned' = TRUE /\ ~returned
      /\ UNCHANGED <<currentTime, todo, call>>
  BY DEF MatchReturn, WriteBack, LoopsDone, serverVars
<1>2. BookInv /\ call.timestamp = currentTime
  BY <1>1 DEF ServerInv, ClearedInv
<1>3. ASSUME NEW p \in Product, Crossed(p)'
      PROVE  p \in todo
  <2>1. Crossed(p)
    BY <1>1, <1>2, <1>3, WriteBackLeaves, CrossedKept DEF BookInv, BookTypeOK, MatchTypeOK
  <2>2. PICK m \in DOMAIN orders', n \in DOMAIN orders' :
          /\ orders'[m].orderType = "ask" /\ orders'[n].orderType = "bid"
          /\ Crosses(orders'[m], orders'[n])
          /\ {orders'[m].product, orders'[n].product} = {p}
          /\ orders'[m].timestamp <= currentTime /\ orders'[n].timestamp <= currentTime
    BY <1>1, <1>3 DEF Crossed, Crosses
  <2>3. p # call.product
    BY <1>1, <1>2, <2>2, WriteBackUncrosses
  <2> QED
    BY <1>1, <2>1, <2>3 DEF ClearedInv
<1> QED
  BY <1>1, <1>3 DEF ClearedInv

\* The other steps of a frame leave the products that could trade where they are, and
\* none starts with one left behind.
LEMMA ClearedStep == ServerInv /\ ClearedInv /\ [Next]_vars => ClearedInv'
<1> SUFFICES ASSUME ServerInv, ClearedInv, [Next]_vars, pc' = "frame" PROVE ClearedInv'
  BY DEF ClearedInv
<1>1. CASE NextTimeframe
  <2>1. /\ todo' = KnownProducts /\ returned /\ UNCHANGED <<returned, orders, currentTime>>
    BY <1>1 DEF NextTimeframe, bookVars, matchVars, ServerInv, TypeOK
  <2>2. ASSUME NEW p \in Product, Crossed(p)'
        PROVE  p \in todo'
    BY <2>1, <2>2 DEF Crossed, KnownProducts
  <2> QED
    BY <2>1, <2>2 DEF ClearedInv
<1>2. CASE MatchStep \/ SettleSale \/ UNCHANGED vars
  <2>1. UNCHANGED <<orders, call, returned, currentTime>>
    BY <1>2 DEF MatchStep, MatchLoop, LoopStep, OuterSkip, OuterEnter, InnerEnd, InnerSkip,
       FillEqual, FillAsk, FillBid, AtAsk, AtBid, AtCross, SettleSale, serverVars, vars, bookVars,
       matchVars
  <2>2. pc = "frame" /\ UNCHANGED todo
    BY <1>2 DEF MatchStep, SettleSale, SkipSale, SettleBuy, SettleSell, SettleSellAborts, Told,
       Untold, serverVars, vars
  <2>3. \A p \in Product : Crossed(p)' <=> Crossed(p)
    BY <2>1 DEF Crossed
  <2> QED
    BY <2>1, <2>2, <2>3 DEF ClearedInv
<1>3. ~(BareProductCrash \/ BareProductAborts \/ AdvanceTime \/ AdvanceTimeOfEmptyBook)
  BY DEF BareProductCrash, BareProductAborts, AdvanceTime, AdvanceTimeOfEmptyBook
<1>4. ASSUME NEW side \in {"buy", "sell"}, NEW p \in Product,
             NEW price \in OfferPrices, NEW amount \in OfferAmounts
      PROVE  ~SubmitOrder(side, p, price, amount)
  BY DEF SubmitOrder, serverVars
<1> QED
  BY <1>1, <1>2, <1>3, <1>4, MatchProductClears, MatchReturnClears DEF Next, FrameStep

\* Time does not move past a trade, for any file, products and orders: whatever frames
\* exceptions have ended, the one that moves it has matched all that is due.
THEOREM TimeMovesOnceCleared == Spec => ClearedBeforeTimeMoves
<1>1. Init => ClearedInv
  BY DEF Init, ClearedInv
<1>2. ASSUME ServerInv, ClearedInv, [Next]_vars, currentTime' # currentTime, NEW p \in Product
      PROVE  ~Crossed(p)
  <2>1. CASE AdvanceTime \/ AdvanceTimeOfEmptyBook
    BY <1>2, <2>1 DEF AdvanceTime, AdvanceTimeOfEmptyBook, BetweenProducts, ClearedInv
  <2>2. ~(NextTimeframe \/ MatchProduct \/ MatchStep \/ MatchReturn \/ SettleSale
          \/ BareProductAborts \/ BareProductCrash \/ UNCHANGED vars)
    BY <1>2 DEF NextTimeframe, MatchProduct, MatchStep, MatchReturn, SettleSale,
       BareProductAborts, BareProductCrash, serverVars, vars
  <2>3. ASSUME NEW side \in {"buy", "sell"}, NEW q \in Product,
               NEW price \in OfferPrices, NEW amount \in OfferAmounts
        PROVE  ~SubmitOrder(side, q, price, amount)
    BY <1>2 DEF SubmitOrder, serverVars
  <2> QED
    BY <1>2, <2>1, <2>2, <2>3 DEF Next, FrameStep
<1>3. ServerInv /\ ClearedInv /\ [Next]_vars =>
        [currentTime' # currentTime => \A p \in Product : ~Crossed(p)]_vars
  BY <1>2
<1> QED
  BY <1>1, <1>3, ClearedStep, ServerInvariant, PTL DEF Spec, ClearedBeforeTimeMoves
-----------------------------------------------------------------------------
(* The fills and the wallet.  That the wallet is what the user's fills add up to   *)
(* holds between two frames only: within one the loop has filled orders whose      *)
(* sales wait.  The invariant says that they make up the difference, sale by sale: *)
(* there is a list of balances that starts at the wallet's, is moved on by each    *)
(* waiting sale in turn, and ends at what the fills add up to.  The loop adds to   *)
(* its end, and each settlement takes its beginning away.                          *)

Clean == flags \cap {"refused", "aborted", "cut", "selfTraded"} = {}

Balances == [c \in Currency |-> BalanceOf(currencies, c)]

\* What settling s makes of balances w.
Worth(w, s) ==
    IF s.username = "simuser"
    THEN Settled(w, s.amount, s.price, s.orderType = "bidsale", s.orderType = "asksale")
    ELSE w

\* The list for balances w.
IsLedger(w, r) ==
    /\ r \in [0..Len(sales) -> [Currency -> Int]]
    /\ r[0] = w /\ r[Len(sales)] = owed
    /\ \A k \in 1..Len(sales) : r[k] = Worth(r[k - 1], sales[k])

LedgerInv == Clean => \E r : IsLedger(Balances, r)

\* There is a ledger when the server starts.
LEMMA LedgerInit == Init => LedgerInv
<1> SUFFICES ASSUME Init PROVE \E r : IsLedger(Balances, r)
  BY DEF LedgerInv
<1>1. sales = <<>> /\ Len(sales) = 0 /\ owed = Balances
  BY DEF Init, LocalsDead, Balances
<1>2. owed \in [Currency -> Int]
  BY ServerInvInit DEF ServerInv, TypeOK
<1> DEFINE r == [k \in 0..0 |-> owed]
<1>3. r \in [0..Len(sales) -> [Currency -> Int]] /\ r[0] = Balances /\ r[Len(sales)] = owed
  BY <1>1, <1>2
<1>4. \A k \in 1..Len(sales) : r[k] = Worth(r[k - 1], sales[k])
  BY <1>1
<1> QED
  BY <1>3, <1>4 DEF IsLedger

\* A step that neither fills nor settles keeps the ledger.
LEMMA LedgerUntouched ==
    ASSUME LedgerInv, UNCHANGED <<sales, currencies, owed>>,
           sales = <<>> \/ UNCHANGED call, Clean' => Clean
    PROVE  LedgerInv'
<1> SUFFICES ASSUME Clean' PROVE \E r : IsLedger(Balances, r)'
  BY DEF LedgerInv
<1>1. PICK r : IsLedger(Balances, r)
  BY DEF LedgerInv
<1>2. Balances' = Balances
  BY DEF Balances
<1>3. ASSUME NEW k \in 1..Len(sales)
      PROVE  r[k] = Worth(r[k - 1], sales[k])'
  <2>1. sales # <<>>
    BY <1>3
  <2>2. UNCHANGED call
    BY <2>1
  <2> QED
    BY <1>1, <1>3, <2>2 DEF IsLedger, Worth, Settled
<1> QED
  BY <1>1, <1>2, <1>3 DEF IsLedger

\* A fill makes one sale, worth to the user what MatchStep adds to owed, unless he
\* is on both sides of it.
LEMMA FillWorth ==
    ASSUME LoopInv, owed \in [Currency -> Int], MatchStep, sales' # sales, Clean'
    PROVE  \E s \in Sale : sales' = Append(sales, s) /\ owed' = Worth(owed, s)
<1>1. sales \in Seq(Sale)
  BY DEF LoopInv, MatchTypeOK
<1>2. FillEqual \/ FillAsk \/ FillBid
  BY DEF MatchStep, MatchLoop, LoopStep, OuterSkip, OuterEnter, InnerEnd, InnerSkip
<1>3. PICK x \in Int : sales' = Append(sales, SaleOf(asks[i], bids[j], x))
  BY <1>2, FillCases
<1> DEFINE s == SaleOf(asks[i], bids[j], x)
           bought == bids[j].username = "simuser"
           sold == asks[i].username = "simuser"
<1>4. s \in Sale
  <2>1. i \in DOMAIN asks /\ j \in DOMAIN bids /\ asks \in Seq(Entry) /\ bids \in Seq(Entry)
    BY <1>2 DEF FillEqual, FillAsk, FillBid, AtCross, AtBid, LoopInv, MatchTypeOK
  <2> QED
    BY <2>1, SaleOfType
<1>5. sales'[Len(sales')] = s
  BY <1>1, <1>3, <1>4
<1>6. /\ owed' = Settled(owed, s.amount, s.price, bought, sold)
      /\ flags' = flags \cup (IF bought /\ sold THEN {"selfTraded"} ELSE {})
  BY <1>5 DEF MatchStep
<1>7. ~(bought /\ sold)
  BY <1>6 DEF Clean
<1>8. CASE bought
  <2>1. s.username = "simuser" /\ s.orderType = "bidsale" /\ sold = FALSE /\ bought = TRUE
    BY <1>7, <1>8 DEF SaleOf
  <2> QED
    BY <1>3, <1>4, <1>6, <2>1 DEF Worth
<1>9. CASE sold
  <2>1. s.username = "simuser" /\ s.orderType = "asksale" /\ sold = TRUE /\ bought = FALSE
    BY <1>7, <1>9 DEF SaleOf
  <2> QED
    BY <1>3, <1>4, <1>6, <2>1 DEF Worth
<1>10. CASE ~bought /\ ~sold
  <2>1. s.username # "simuser"
    BY <1>10 DEF SaleOf
  <2>2. s.amount \in Int /\ s.price \in Int /\ owed \in [Currency -> Int]
    BY <1>4 DEF Sale
  <2>3. owed' = owed
    <3>1. bought = FALSE /\ sold = FALSE
      BY <1>10
    <3>2. owed' = [c \in Currency |->
                     owed[c] + (IF c = Base[call.product] THEN 0 ELSE 0)
                             - (IF c = Quote[call.product] THEN 0 * s.price ELSE 0)]
      BY <1>6, <3>1 DEF Settled
    <3>3. \A c \in Currency : owed[c] + (IF c = Base[call.product] THEN 0 ELSE 0)
                     - (IF c = Quote[call.product] THEN 0 * s.price ELSE 0) = owed[c]
      BY <2>2
    <3> QED
      BY <2>2, <3>2, <3>3
  <2> QED
    BY <1>3, <1>4, <2>1, <2>3 DEF Worth
<1> QED
  BY <1>8, <1>9, <1>10

\* The loop adds to the end of the ledger.
LEMMA MatchStepKeepsLedger ==
    ASSUME LoopInv, owed \in [Currency -> Int], owed' \in [Currency -> Int], LedgerInv, MatchStep
    PROVE  LedgerInv'
<1>1. UNCHANGED <<currencies, call>>
  BY DEF MatchStep, MatchLoop, serverVars
<1>2. Clean' => Clean
  BY DEF MatchStep, Clean
<1>3. CASE sales' = sales
  BY <1>1, <1>2, <1>3, LedgerUntouched DEF MatchStep
<1>4. CASE sales' # sales
  <2> SUFFICES ASSUME Clean' PROVE \E r : IsLedger(Balances, r)'
    BY DEF LedgerInv
  <2>1. PICK s \in Sale : sales' = Append(sales, s) /\ owed' = Worth(owed, s)
    BY <1>4, FillWorth
  <2>2. PICK r : IsLedger(Balances, r)
    BY <1>2 DEF LedgerInv
  <2> PICK n : n = Len(sales)
    OBVIOUS
  <2> PICK q : q = [k \in 0..n + 1 |-> IF k = n + 1 THEN owed' ELSE r[k]]
    OBVIOUS
  <2>3. sales \in Seq(Sale) /\ n \in Nat
    BY DEF LoopInv, MatchTypeOK
  <2>4. /\ Len(sales') = n + 1 /\ sales'[n + 1] = s
        /\ \A k \in 1..n : sales'[k] = sales[k]
    BY <2>1, <2>3
  <2>5. r \in [0..n -> [Currency -> Int]] /\ r[0] = Balances /\ r[n] = owed
    BY <2>2 DEF IsLedger
  <2>6. q \in [0..Len(sales') -> [Currency -> Int]]
    BY <2>3, <2>4, <2>5
  <2>7. q[0] = Balances' /\ q[Len(sales')] = owed'
    <3>1. Balances' = Balances
      BY <1>1 DEF Balances
    <3> QED
      BY <2>3, <2>4, <2>5, <3>1
  <2>8. ASSUME NEW k \in 1..Len(sales')
        PROVE  q[k] = Worth(q[k - 1], sales[k])'
    <3>1. \A w, x : Worth(w, x)' = Worth(w, x)
      BY <1>1 DEF Worth, Settled
    <3>2. CASE k = n + 1
      <4>1. q[k] = owed' /\ q[k - 1] = owed /\ sales'[k] = s
        BY <2>3, <2>4, <2>5, <3>2
      <4> QED
        BY <2>1, <3>1, <4>1
    <3>3. CASE k \in 1..n
      <4>1. q[k] = r[k] /\ q[k - 1] = r[k - 1] /\ sales'[k] = sales[k]
        BY <2>3, <2>4, <2>8, <3>3
      <4> QED
        BY <2>2, <3>1, <3>3, <4>1 DEF IsLedger
    <3> QED
      BY <2>3, <2>4, <2>8, <3>2, <3>3
  <2> QED
    BY <2>4, <2>6, <2>7, <2>8, ZenonT(60) DEF IsLedger
<1> QED
  BY <1>3, <1>4

\* Both legs of a sale that is settled with nothing refused and nothing thrown move
\* the wallet by what the sale is worth.
LEMMA SettlementWorth ==
    ASSUME ServerInv, pc = "frame", returned, sales # <<>>,
           SkipSale \/ SettleBuy \/ SettleSell, Clean'
    PROVE  Balances' = Worth(Balances, sale)
<1> DEFINE base == Base[call.product]
           quote == Quote[call.product]
           a == sale.amount
           B == Balances
<1>1. /\ a \in Int /\ a > 0 /\ Value \in Int /\ sale.price \in Int
      /\ base \in Currency /\ quote \in Currency /\ Value = a * sale.price
  BY SaleTypes DEF Sale, Value
<1>2. IsWallet(currencies)
  BY DEF ServerInv, TypeOK
<1>3. /\ B \in [Currency -> Int]
      /\ \A c \in Currency : B[c] = BalanceOf(currencies, c)
  BY <1>2 DEF Balances, BalanceOf, IsWallet
<1> HIDE DEF base, quote, a, B
<1>4. CASE SkipSale
  BY <1>4 DEF SkipSale, Worth, Balances
<1>5. CASE SettleBuy
  <2> DEFINE credited == insertCurrency(currencies, base, a)
  <2>1. /\ sale.username = "simuser" /\ sale.orderType = "bidsale"
        /\ currencies' = removeCurrency(credited, quote, Value)
        /\ RemoveSucceeds(credited, quote, Value)
    BY <1>5 DEF SettleBuy, Clean, base, quote, a
  <2>2. /\ IsWallet(credited)
        /\ \A c : BalanceOf(credited, c) = BalanceOf(currencies, c) + (IF c = base THEN a ELSE 0)
    <3>1. a >= 0
      BY <1>1
    <3> QED
      BY <1>1, <1>2, <3>1, InsertCurrencyProperties
  <2> HIDE DEF credited
  <2>3. \A c : BalanceOf(currencies', c)
                 = BalanceOf(credited, c) - (IF c = quote THEN Value ELSE 0)
    BY <1>1, <2>1, <2>2, RemoveCurrencyProperties
  <2>4. Worth(B, sale) = [c \in Currency |-> B[c] + (IF c = base THEN a ELSE 0)
                                                  - (IF c = quote THEN Value ELSE 0)]
    <3>1. Worth(B, sale) = Settled(B, a, sale.price, TRUE, FALSE)
      BY <2>1 DEF Worth, a
    <3>2. (IF TRUE THEN a ELSE 0) - (IF FALSE THEN a ELSE 0) = a
      BY <1>1
    <3> QED
      BY <1>1, <3>1, <3>2 DEF Settled, base, quote
  <2>5. ASSUME NEW c \in Currency
        PROVE  BalanceOf(currencies', c) =
                 B[c] + (IF c = base THEN a ELSE 0) - (IF c = quote THEN Value ELSE 0)
    <3>1. /\ BalanceOf(credited, c) = B[c] + (IF c = base THEN a ELSE 0)
          /\ BalanceOf(currencies', c) = BalanceOf(credited, c) - (IF c = quote THEN Value ELSE 0)
      BY <1>3, <2>2, <2>3
    <3> QED
      BY <1>1, <1>3, <3>1
  <2> QED
    BY <2>4, <2>5 DEF Balances, B
<1>6. CASE SettleSell
  <2> DEFINE debited == removeCurrency(currencies, base, a)
  <2>1. /\ sale.username = "simuser" /\ sale.orderType = "asksale"
        /\ currencies' = insertCurrency(debited, quote, Value) /\ Value >= 0
        /\ RemoveSucceeds(currencies, base, a)
    <3>1. /\ sale.username = "simuser" /\ sale.orderType = "asksale"
          /\ currencies' = insertCurrency(debited, quote, Value)
          /\ ~(Value < 0) /\ SellRefused \subseteq flags'
      BY <1>6 DEF SettleSell, SellDebited, InsertThrows, base, quote, a
    <3>2. "refused" \notin SellRefused
      BY <3>1 DEF Clean
    <3>3. RemoveSucceeds(currencies, base, a)
      BY <3>2 DEF SellRefused, base, a
    <3> QED
      BY <1>1, <3>1, <3>3
  <2>2. /\ IsWallet(debited)
        /\ \A c : BalanceOf(debited, c) = BalanceOf(currencies, c) - (IF c = base THEN a ELSE 0)
    BY <1>1, <1>2, <2>1, RemoveCurrencyProperties
  <2> HIDE DEF debited
  <2>3. \A c : BalanceOf(currencies', c)
                 = BalanceOf(debited, c) + (IF c = quote THEN Value ELSE 0)
    BY <1>1, <2>1, <2>2, InsertCurrencyProperties
  <2>4. Worth(B, sale) = [c \in Currency |-> B[c] + (IF c = base THEN 0 - a ELSE 0)
                                       - (IF c = quote THEN (0 - a) * sale.price ELSE 0)]
    BY <2>1 DEF Worth, Settled, base, quote, a
  <2>5. (0 - a) * sale.price = 0 - Value
    BY <1>1, SMTT(30)
  <2>6. \A c \in Currency : BalanceOf(currencies', c) =
          B[c] + (IF c = base THEN 0 - a ELSE 0) - (IF c = quote THEN 0 - Value ELSE 0)
    BY <1>1, <1>3, <2>2, <2>3, SMTT(30)
  <2> QED
    BY <2>4, <2>5, <2>6 DEF Balances, B
<1> QED
  BY <1>4, <1>5, <1>6

\* A settlement takes the beginning of the ledger away: it makes of the balances w
\* that the ledger starts with what the first sale makes of them.
LEMMA LedgerSettled ==
    ASSUME NEW STATE w, NEW r, IsLedger(w, r), sales \in Seq(Sale), sales # <<>>,
           sales' = Tail(sales), UNCHANGED <<call, owed>>, Balances' = Worth(w, sale)
    PROVE  LedgerInv'
<1> SUFFICES \E q : IsLedger(Balances, q)'
  BY DEF LedgerInv
<1> PICK n : n = Len(sales)
  OBVIOUS
<1> PICK q : q = [k \in 0..n - 1 |-> r[k + 1]]
  OBVIOUS
<1>1. n \in Nat /\ n >= 1 /\ sale = sales[1]
  BY DEF sale
<1>2. Len(sales') = n - 1 /\ \A k \in 1..n - 1 : sales'[k] = sales[k + 1]
  BY <1>1
<1>3. /\ r \in [0..n -> [Currency -> Int]] /\ r[0] = w /\ r[n] = owed
      /\ \A k \in 1..n : r[k] = Worth(r[k - 1], sales[k])
  BY DEF IsLedger
<1>4. q \in [0..Len(sales') -> [Currency -> Int]]
  BY <1>1, <1>2, <1>3
<1>5. q[0] = Balances'
  <2>1. r[1] = Worth(r[1 - 1], sales[1])
    BY <1>1, <1>3
  <2>2. r[1] = Worth(w, sale)
    BY <1>1, <1>3, <2>1
  <2> QED
    BY <1>1, <2>2
<1>6. q[Len(sales')] = owed'
  BY <1>1, <1>2, <1>3
<1>7. ASSUME NEW k \in 1..Len(sales')
      PROVE  q[k] = Worth(q[k - 1], sales[k])'
  <2>1. \A v, x : Worth(v, x)' = Worth(v, x)
    BY DEF Worth, Settled
  <2>2. /\ q[k] = r[k + 1] /\ q[k - 1] = r[k] /\ sales'[k] = sales[k + 1]
        /\ k + 1 \in 1..n /\ (k + 1) - 1 = k
    BY <1>1, <1>2, <1>7
  <2>3. r[k + 1] = Worth(r[k], sales[k + 1])
    BY <1>3, <2>2
  <2> QED
    BY <2>1, <2>2, <2>3
<1> QED
  BY <1>4, <1>5, <1>6, <1>7 DEF IsLedger

\* Each settlement does.
LEMMA SettleSaleKeepsLedger ==
    ASSUME ServerInv, LedgerInv, SettleSale
    PROVE  LedgerInv'
<1>1. /\ pc = "frame" /\ returned /\ sales # <<>> /\ UNCHANGED <<call, owed>>
      /\ SkipSale \/ SettleBuy \/ SettleSell \/ SettleSellAborts
  BY DEF SettleSale
<1>2. CASE SettleSellAborts
  BY <1>2 DEF SettleSellAborts, LedgerInv, Clean
<1>3. CASE SkipSale \/ SettleBuy \/ SettleSell
  <2> SUFFICES ASSUME Clean' PROVE LedgerInv'
    BY DEF LedgerInv
  <2>1. sales' = Tail(sales) /\ Clean
    <3>1. flags \subseteq flags' /\ "cut" \notin flags'
      BY <1>3 DEF SkipSale, SettleBuy, SettleSell, Clean
    <3>2. Told
      BY <1>3, <3>1 DEF SkipSale, SettleBuy, SettleSell, Untold
    <3> QED
      BY <3>1, <3>2 DEF Clean, Told
  <2>2. PICK r : IsLedger(Balances, r)
    BY <2>1 DEF LedgerInv
  <2>3. sales \in Seq(Sale)
    BY DEF ServerInv, TypeOK, BookTypeOK, MatchTypeOK
  <2>4. Balances' = Worth(Balances, sale)
    BY <1>1, <1>3, SettlementWorth
  <2> QED
    BY <1>1, <2>1, <2>2, <2>3, <2>4, LedgerSettled
<1> QED
  BY <1>1, <1>2, <1>3

\* After every step of the server there is a ledger.
LEMMA LedgerStep == ServerInv /\ ServerInv' /\ LedgerInv /\ [Next]_vars => LedgerInv'
<1> SUFFICES ASSUME ServerInv, ServerInv', LedgerInv, [Next]_vars PROVE LedgerInv'
  OBVIOUS
<1>1. pc # "frame" => sales = <<>>
  BY DEF ServerInv, TypeOK
<1>2. ASSUME NEW side \in {"buy", "sell"}, NEW p \in Product,
             NEW price \in OfferPrices, NEW amount \in OfferAmounts,
             SubmitOrder(side, p, price, amount)
      PROVE  LedgerInv'
  <2>1. sales = <<>> /\ UNCHANGED <<sales, currencies, owed>> /\ (Clean' => Clean)
    BY <1>1, <1>2 DEF SubmitOrder, insertOrder, matchVars, serverVars, Clean
  <2> QED
    BY <2>1, LedgerUntouched
<1>3. CASE NextTimeframe \/ BareProductCrash \/ BareProductAborts
           \/ AdvanceTime \/ AdvanceTimeOfEmptyBook
  <2>1. UNCHANGED <<sales, currencies, owed, call>> /\ (Clean' => Clean)
    BY <1>3 DEF NextTimeframe, BareProductCrash, BareProductAborts, AdvanceTime,
       AdvanceTimeOfEmptyBook, bookVars, matchVars, auxVars, Clean
  <2> QED
    BY <2>1, LedgerUntouched
<1>4. CASE MatchProduct
  <2>1. sales = <<>> /\ sales' = <<>> /\ UNCHANGED <<currencies, owed>> /\ (Clean' => Clean)
    BY <1>4 DEF MatchProduct, BetweenProducts, matchAsksToBids, MatchEmpty, MatchBegin,
       auxVars, Clean
  <2> QED
    BY <2>1, LedgerUntouched
<1>5. CASE MatchReturn
  <2>1. UNCHANGED <<sales, currencies, owed, call>> /\ (Clean' => Clean)
    BY <1>5 DEF MatchReturn, WriteBack, serverVars, auxVars, Clean
  <2> QED
    BY <2>1, LedgerUntouched
<1>6. CASE UNCHANGED vars
  <2>1. UNCHANGED <<sales, currencies, owed, call>> /\ (Clean' => Clean)
    BY <1>6 DEF vars, bookVars, matchVars, serverVars, auxVars, Clean
  <2> QED
    BY <2>1, LedgerUntouched
<1>7. CASE MatchStep
  BY <1>7, MatchStepKeepsLedger DEF ServerInv, BookInv, TypeOK
<1> QED
  BY <1>2, <1>3, <1>4, <1>5, <1>6, <1>7, SettleSaleKeepsLedger DEF Next, FrameStep

\* Between two frames the wallet is what the user's fills add up to, leg by leg,
\* for any number of products, orders and fills, until a debit is refused, a
\* credit throws or the user trades with himself.
THEOREM WalletIsSettledInFull == Spec => []SettledInFull
<1>1. Spec => []LedgerInv
  BY LedgerInit, LedgerStep, ServerInvariant, PTL DEF Spec
<1>2. ServerInv /\ LedgerInv => SettledInFull
  <2> SUFFICES ASSUME ServerInv, LedgerInv, pc = "idle", Clean, NEW c \in Currency
               PROVE  BalanceOf(currencies, c) = owed[c]
    BY DEF SettledInFull, Clean
  <2>1. sales = <<>> /\ Len(sales) = 0
    BY DEF ServerInv, TypeOK
  <2>2. PICK r : IsLedger(Balances, r)
    BY DEF LedgerInv
  <2> QED
    BY <2>1, <2>2 DEF IsLedger, Balances
<1> QED
  BY <1>1, <1>2, ServerInvariant, PTL
-----------------------------------------------------------------------------
(* One order at a time.  While the user has at most one order in the book, it has  *)
(* at most one copy in a match, the write-back gives that order the amount of that *)
(* copy, and all sales of the user that wait debit the one currency it pays with.  *)
(* Of that currency there is a budget: it starts with no more than the balance,    *)
(* goes down by each waiting sale, and what it ends with pays for what is left of  *)
(* the order, in the copy while a match runs.                                      *)

AsksPriced ==
    \A n \in DOMAIN orders :
        orders[n].orderType = "ask" /\ ~Mine(orders[n]) => orders[n].price >= 0

\* The currency an order of the user pays with, and a sale.
Pays(e) == IF e.orderType = "bid" THEN Quote[e.product] ELSE Base[e.product]
PaidIn(s) == IF s.orderType = "bidsale" THEN Quote[call.product] ELSE Base[call.product]

IsBudget(c, d) ==
    /\ c \in Currency /\ d \in [0..Len(sales) -> Nat]
    /\ d[0] <= BalanceOf(currencies, c)
    /\ \A k \in 1..Len(sales) : d[k] = d[k - 1] - Debit(sales[k]) /\ Debit(sales[k]) \in Nat
    /\ \A k \in 0..Len(sales) : d[Len(sales)] <= d[k]
    /\ \A k \in 1..Len(sales) :
         sales[k].username = "simuser" => PaidIn(sales[k]) = c /\ c \in DOMAIN currencies
    /\ \A n \in DOMAIN orders :
         Mine(orders[n]) => /\ Pays(orders[n]) = c /\ c \in DOMAIN currencies
                            /\ Cost(orders[n], Left(orders[n])) <= d[Len(sales)]

SolventInv ==
    /\ AsksPriced /\ CopiesFromBook
    /\ "overlapped" \notin flags =>
         "refused" \notin flags /\ OneOwner /\ \E c, d : IsBudget(c, d)

\* There is a budget when the server starts.
LEMMA SolventInit == Init => SolventInv
<1> SUFFICES ASSUME Init PROVE SolventInv
  OBVIOUS
<1>1. /\ sales = <<>> /\ Len(sales) = 0 /\ returned /\ flags = {}
      /\ \A n \in DOMAIN orders :
            ~Mine(orders[n]) /\ (orders[n].orderType = "ask" => orders[n].price >= 0)
  BY DatasetAssumption DEF Init, LocalsDead, Mine
<1>2. AsksPriced /\ CopiesFromBook /\ OneOwner
  BY <1>1 DEF AsksPriced, CopiesFromBook, OneOwner, SoleOwner
<1>3. BalanceOf(currencies, "BTC") >= 0
  BY ServerInvInit DEF ServerInv, WalletNonNegative, BalanceOf
<1> DEFINE d == [k \in 0..0 |-> 0]
<1>4. IsBudget("BTC", d)
  BY <1>1, <1>3, FundsAssumption DEF IsBudget
<1> QED
  BY <1>1, <1>2, <1>4 DEF SolventInv

\* A step that leaves the book, the sales and the wallet alone keeps the budget.
LEMMA SolventUntouched ==
    ASSUME SolventInv, UNCHANGED <<orders, sales, currencies, asks, bids, returned>>,
           UNCHANGED call \/ (returned /\ sales = <<>>),
           flags' \cap {"overlapped", "refused"} = flags \cap {"overlapped", "refused"}
    PROVE  SolventInv'
<1>1. AsksPriced' /\ CopiesFromBook'
  BY DEF SolventInv, AsksPriced, CopiesFromBook, CopyOf, Visible, Mine
<1>2. ASSUME "overlapped" \notin flags'
      PROVE  "refused" \notin flags' /\ OneOwner' /\ (\E c, d : IsBudget(c, d))'
  <2>1. "overlapped" \notin flags /\ "refused" \notin flags' /\ OneOwner
    BY <1>2 DEF SolventInv
  <2>2. PICK c, d : IsBudget(c, d)
    BY <2>1 DEF SolventInv
  <2>3. OneOwner'
    BY <2>1 DEF OneOwner, SoleOwner, Mine
  <2>4. ASSUME NEW k \in 1..Len(sales) PROVE PaidIn(sales[k])' = PaidIn(sales[k])
    <3>1. sales # <<>>
      BY <2>4
    <3> QED
      BY <3>1 DEF PaidIn
  <2>5. ASSUME NEW n \in DOMAIN orders PROVE Left(orders[n])' = Left(orders[n])
    BY DEF Left, WrittenBack, Twins
  <2>6. IsBudget(c, d)'
    BY <2>2, <2>4, <2>5 DEF IsBudget, Debit, Mine, Pays, Cost
  <2> QED
    BY <2>1, <2>3, <2>6
<1> QED
  BY <1>1, <1>2 DEF SolventInv

\* When a match begins each copy is as its order is.
LEMMA MatchBeginKeepsSolvent ==
    ASSUME ServerInv, SolventInv, NEW p, NEW t, MatchBegin(p, t), sales = <<>>,
           UNCHANGED <<currencies, flags>>
    PROVE  SolventInv'
<1>1. orders \in Seq(Entry) /\ sales' = <<>> /\ UNCHANGED orders
  BY DEF MatchBegin, ServerInv, BookInv, BookTypeOK
<1>2. AsksPriced' /\ CopiesFromBook'
  BY <1>1, MatchBeginCopies DEF SolventInv, AsksPriced, Mine
<1>3. ASSUME "overlapped" \notin flags'
      PROVE  "refused" \notin flags' /\ OneOwner' /\ (\E c, d : IsBudget(c, d))'
  <2>1. "refused" \notin flags /\ SoleOwner(orders)
    BY <1>3 DEF SolventInv, OneOwner
  <2>2. PICK c, d : IsBudget(c, d)
    BY <1>3 DEF SolventInv
  <2>3. /\ OneOwner'
        /\ \A n \in DOMAIN orders : Mine(orders[n]) => Left(orders[n])' = Left(orders[n])
    BY <1>1, <2>1, MatchBeginLeft
  <2>4. IsBudget(c, d)'
    BY <1>1, <2>2, <2>3 DEF IsBudget, Mine, Pays, Cost
  <2> QED
    BY <1>3, <2>1, <2>3, <2>4
<1> QED
  BY <1>2, <1>3 DEF SolventInv

\* What a fill does to the budget.
LEMMA FillKeepsBudget ==
    ASSUME ServerInv, SolventInv, OneOwner, NEW c, NEW d, IsBudget(c, d),
           FillEqual \/ FillAsk \/ FillBid, UNCHANGED <<orders, call, currencies, returned>>
    PROVE  (\E q : IsBudget(c, q))'
<1>1. LoopInv /\ sales \in Seq(Sale) /\ asks \in Seq(Entry) /\ bids \in Seq(Entry)
      /\ orders \in Seq(Entry) /\ CopiesFromBook
  BY DEF ServerInv, BookInv, BookTypeOK, MatchTypeOK, SolventInv
<1>2. /\ ~returned /\ i \in DOMAIN asks /\ j \in DOMAIN bids /\ bids[j].price >= asks[i].price
  BY DEF FillEqual, FillAsk, FillBid, AtCross, AtBid, Crosses
<1>3. PICK v \in Int, w \in Int, x \in Int :
         /\ v >= 0 /\ w >= 0 /\ x > 0
         /\ asks[i].amount = x + v /\ bids[j].amount = x + w
         /\ sales' = Append(sales, SaleOf(asks[i], bids[j], x))
         /\ \/ /\ Mine(bids[j]) /\ ~Mine(asks[i])
               /\ \E l \in DOMAIN orders : FilledOrder(l, "bid", bids[j], w)
            \/ /\ Mine(asks[i]) /\ ~Mine(bids[j])
               /\ \E l \in DOMAIN orders : FilledOrder(l, "ask", asks[i], v)
            \/ /\ ~Mine(asks[i]) /\ ~Mine(bids[j])
               /\ \A l \in DOMAIN orders :
                     Mine(orders[l]) => Left(orders[l])' = Left(orders[l])
  BY <1>1, FillLeaves
<1>5. asks[i].price \in Int /\ bids[j].price \in Int
  BY <1>1, <1>2, OrderFields
<1> PICK n : n = Len(sales)
  OBVIOUS
<1> PICK s : s = SaleOf(asks[i], bids[j], x)
  OBVIOUS
<1>6. /\ n \in Nat /\ Len(sales') = n + 1 /\ sales'[n + 1] = s
      /\ \A k \in 1..n : sales'[k] = sales[k]
  <2>1. s \in Sale
    BY <1>1, <1>2, SaleOfType
  <2> QED
    BY <1>1, <1>3, <2>1
<1>7. /\ s.amount = x /\ s.price = asks[i].price
      /\ s.orderType = (IF Mine(bids[j]) THEN "bidsale" ELSE "asksale")
      /\ (s.username = "simuser") <=> (Mine(asks[i]) \/ Mine(bids[j]))
  BY DEF SaleOf, Mine
<1>8. /\ c \in Currency /\ d \in [0..n -> Nat]
      /\ d[0] <= BalanceOf(currencies, c)
      /\ \A k \in 1..n : d[k] = d[k - 1] - Debit(sales[k]) /\ Debit(sales[k]) \in Nat
      /\ \A k \in 0..n : d[n] <= d[k]
      /\ \A k \in 1..n :
           sales[k].username = "simuser" => PaidIn(sales[k]) = c /\ c \in DOMAIN currencies
      /\ \A l \in DOMAIN orders :
           Mine(orders[l]) => /\ Pays(orders[l]) = c /\ c \in DOMAIN currencies
                              /\ Cost(orders[l], Left(orders[l])) <= d[n]
  BY DEF IsBudget
\* The sale is within the budget, and what is left of the order stays so.
<1>9. /\ Debit(s) \in Nat /\ d[n] - Debit(s) \in Nat
      /\ s.username = "simuser" => PaidIn(s) = c /\ c \in DOMAIN currencies
      /\ \A l \in DOMAIN orders :
           Mine(orders[l]) => Cost(orders[l], Left(orders[l])') <= d[n] - Debit(s)
  <2>1. d[n] \in Nat
    BY <1>6, <1>8
  <2>2. CASE ~Mine(asks[i]) /\ ~Mine(bids[j])
    <3>1. s.username # "simuser" /\ Debit(s) = 0 /\ d[n] - Debit(s) = d[n]
      BY <1>7, <2>1, <2>2 DEF Debit
    <3>2. \A l \in DOMAIN orders : Mine(orders[l]) => Left(orders[l])' = Left(orders[l])
      BY <1>3, <2>2
    <3> QED
      BY <1>8, <2>1, <3>1, <3>2
  <2>3. CASE Mine(bids[j])
    <3>1. PICK l \in DOMAIN orders :
             /\ Mine(orders[l]) /\ orders[l].orderType = "bid"
             /\ orders[l].product = call.product /\ orders[l].price = bids[j].price
             /\ Left(orders[l]) = bids[j].amount /\ Left(orders[l])' = w
             /\ \A k \in DOMAIN orders : Mine(orders[k]) => k = l
      BY <1>3, <2>3 DEF FilledOrder
    <3>2. asks[i].price >= 0
      <4>1. PICK k \in Visible("ask", call.product, call.timestamp) :
               orders[k].username = asks[i].username /\ orders[k].price = asks[i].price
        BY <1>2 DEF SolventInv, CopiesFromBook, CopyOf
      <4>2. k \in DOMAIN orders /\ orders[k].orderType = "ask" /\ k # l
        BY <3>1, <4>1 DEF Visible
      <4>3. ~Mine(orders[k])
        BY <3>1, <4>2
      <4> QED
        BY <4>1, <4>2, <4>3 DEF SolventInv, AsksPriced
    <3>3. Cost(orders[l], Left(orders[l])) = (x + w) * bids[j].price
      BY <1>3, <3>1 DEF Cost
    <3>4. /\ x * asks[i].price \in Nat /\ d[n] - x * asks[i].price \in Nat
          /\ w * bids[j].price <= d[n] - x * asks[i].price
      <4>1. (x + w) * bids[j].price <= d[n]
        BY <1>8, <3>1, <3>3
      <4>2. PICK P \in Int, p \in Int, b \in Int :
               P = bids[j].price /\ p = asks[i].price /\ b = d[n]
        BY <1>5, <2>1
      <4>3. P >= p /\ p >= 0 /\ (x + w) * P <= b
        BY <1>2, <3>2, <4>1, <4>2
      <4> HIDE <4>2
      <4>4. P >= 0
        BY <4>3
      <4>5. x * p \in Int /\ w * P \in Nat /\ w * P <= b - x * p
        BY <1>3, <4>3, <4>4, BidFillCost, Zenon
      <4>6. x * p >= 0
        BY <1>3, <4>3
      <4>7. x * p \in Nat /\ b - x * p \in Nat
        BY <4>5, <4>6
      <4> QED
        BY <4>2, <4>5, <4>7
    <3>5. Debit(s) = x * asks[i].price /\ PaidIn(s) = Quote[call.product]
      BY <1>7, <2>3 DEF Debit, PaidIn
    <3>7. Cost(orders[l], Left(orders[l])') = w * bids[j].price
      BY <3>1 DEF Cost
    <3>8. Pays(orders[l]) = Quote[call.product]
      BY <3>1 DEF Pays
    <3> QED
      BY <1>8, <3>1, <3>4, <3>5, <3>7, <3>8
  <2>4. CASE Mine(asks[i])
    <3>1. PICK l \in DOMAIN orders :
             /\ Mine(orders[l]) /\ orders[l].orderType = "ask"
             /\ orders[l].product = call.product
             /\ Left(orders[l]) = asks[i].amount /\ Left(orders[l])' = v
             /\ \A k \in DOMAIN orders : Mine(orders[k]) => k = l
      BY <1>3, <2>4 DEF FilledOrder
    <3>2. ~Mine(bids[j])
      BY <1>3, <2>4
    <3>3. Debit(s) = x /\ PaidIn(s) = Base[call.product]
      BY <1>7, <2>4, <3>2 DEF Debit, PaidIn
    <3>4. Cost(orders[l], Left(orders[l])) = x + v /\ Pays(orders[l]) = Base[call.product]
      BY <1>3, <3>1 DEF Cost, Pays
    <3>6. Cost(orders[l], Left(orders[l])') = v
      BY <3>1 DEF Cost
    <3>7. x + v <= d[n] /\ x \in Nat
      BY <1>3, <1>8, <3>1, <3>4
    <3> QED
      BY <1>3, <1>8, <2>1, <3>1, <3>3, <3>4, <3>6, <3>7
  <2> QED
    BY <2>2, <2>3, <2>4
<1> PICK q : q = [k \in 0..n + 1 |-> IF k = n + 1 THEN d[n] - Debit(s) ELSE d[k]]
  OBVIOUS
<1>10. q \in [0..Len(sales') -> Nat] /\ q[0] = d[0] /\ q[n + 1] = d[n] - Debit(s)
  BY <1>6, <1>8, <1>9
<1>11. ASSUME NEW k \in 1..Len(sales')
       PROVE  /\ q[k] = q[k - 1] - Debit(sales'[k]) /\ Debit(sales'[k]) \in Nat
              /\ sales'[k].username = "simuser" =>
                    PaidIn(sales'[k]) = c /\ c \in DOMAIN currencies
  <2>1. CASE k = n + 1
    <3>1. q[k - 1] = d[n] /\ sales'[k] = s
      BY <1>6, <2>1
    <3> QED
      BY <1>9, <1>10, <2>1, <3>1
  <2>2. CASE k \in 1..n
    <3>1. q[k] = d[k] /\ q[k - 1] = d[k - 1] /\ sales'[k] = sales[k]
      BY <1>6, <2>2
    <3> QED
      BY <1>8, <2>2, <3>1
  <2> QED
    BY <1>6, <2>1, <2>2
<1>12. ASSUME NEW k \in 0..Len(sales')
       PROVE  q[Len(sales')] <= q[k]
  <2>1. d[n] - Debit(s) <= d[n] /\ d[n] \in Nat /\ Debit(s) \in Nat
    BY <1>6, <1>8, <1>9
  <2>2. CASE k = n + 1
    BY <1>6, <1>9, <1>10, <2>2
  <2>3. CASE k \in 0..n
    <3>1. q[k] = d[k] /\ d[n] <= d[k] /\ d[k] \in Nat
      BY <1>6, <1>8, <2>3, SMTT(60)
    <3> QED
      BY <1>6, <1>10, <2>1, <3>1
  <2> QED
    BY <1>6, <2>2, <2>3
<1>13. ASSUME NEW l \in DOMAIN orders, Mine(orders[l])
       PROVE  /\ Pays(orders[l]) = c /\ c \in DOMAIN currencies
              /\ Cost(orders[l], Left(orders[l])') <= q[Len(sales')]
  BY <1>6, <1>8, <1>9, <1>10, <1>13
<1>14. IsBudget(c, q)'
  <2>1. \A e : Debit(e)' = Debit(e) /\ PaidIn(e)' = PaidIn(e) /\ Pays(e)' = Pays(e)
    BY DEF Debit, PaidIn, Pays
  <2>2. \A l \in DOMAIN orders : Cost(orders[l], Left(orders[l]))' = Cost(orders[l], Left(orders[l])')
    BY DEF Cost
  <2> QED
    BY <1>8, <1>10, <1>11, <1>12, <1>13, <2>1, <2>2 DEF IsBudget, Mine, Debit, PaidIn, Pays
<1> QED
  BY <1>14

\* No step of a match takes the budget away.
LEMMA MatchStepKeepsSolvent ==
    ASSUME ServerInv, SolventInv, MatchStep
    PROVE  SolventInv'
<1>1. LoopStep /\ UNCHANGED <<orders, call, currencies>> /\ LoopInv
  BY DEF MatchStep, MatchLoop, serverVars, ServerInv, BookInv
<1>2. ~returned /\ returned' = returned
  BY <1>1 DEF LoopStep, OuterSkip, OuterEnter, InnerEnd, InnerSkip, FillEqual, FillAsk,
     FillBid, AtAsk, AtBid, AtCross
<1>3. flags' \cap {"overlapped", "refused"} = flags \cap {"overlapped", "refused"}
  BY DEF MatchStep
<1>4. CASE OuterSkip \/ OuterEnter \/ InnerEnd \/ InnerSkip
  <2>1. UNCHANGED <<orders, sales, currencies, asks, bids, returned, call>>
    BY <1>1, <1>4 DEF OuterSkip, OuterEnter, InnerEnd, InnerSkip
  <2> QED
    BY <1>3, <2>1, SolventUntouched
<1>5. CASE FillEqual \/ FillAsk \/ FillBid
  <2>1. AsksPriced'
    BY <1>1 DEF SolventInv, AsksPriced
  <2>2. CopiesFromBook'
    BY <1>1, LoopKeepsOwners DEF SolventInv
  <2>3. ASSUME "overlapped" \notin flags'
        PROVE  "refused" \notin flags' /\ OneOwner' /\ (\E c, d : IsBudget(c, d))'
    <3>1. "overlapped" \notin flags /\ "refused" \notin flags' /\ OneOwner
      BY <1>3, <2>3 DEF SolventInv
    <3>2. PICK c, d : IsBudget(c, d)
      BY <3>1 DEF SolventInv
    <3>3. (\E q : IsBudget(c, q))'
      BY <1>1, <1>2, <1>5, <3>1, <3>2, FillKeepsBudget
    <3>4. OneOwner'
      BY <1>1, <3>1, LoopKeepsOwners DEF SolventInv
    <3> QED
      BY <3>1, <3>3, <3>4
  <2> QED
    BY <2>1, <2>2, <2>3 DEF SolventInv
<1> QED
  BY <1>1, <1>4, <1>5 DEF LoopStep

\* The write-back gives the user's order what is left of it.
LEMMA MatchReturnKeepsSolvent ==
    ASSUME ServerInv, SolventInv, MatchReturn
    PROVE  SolventInv'
<1>1. /\ orders \in Seq(Entry) /\ asks \in Seq(Entry) /\ bids \in Seq(Entry) /\ BookSorted
  BY DEF ServerInv, BookInv, BookTypeOK, MatchTypeOK
<1>2. /\ WriteBack /\ returned' = TRUE /\ UNCHANGED <<sales, call, currencies, flags>>
  BY DEF MatchReturn, WriteBack, serverVars, auxVars
<1>3. /\ \A k \in DOMAIN orders' : \E n \in DOMAIN orders :
            /\ orders'[k].orderType = orders[n].orderType
            /\ orders'[k].product = orders[n].product
            /\ orders'[k].price = orders[n].price
            /\ orders'[k].username = orders[n].username
            /\ orders'[k].amount = Left(orders[n])
            /\ Left(orders[k])' = orders'[k].amount
      /\ OneOwner => OneOwner'
  BY <1>1, <1>2, WriteBackLeft
<1>4. AsksPriced' /\ CopiesFromBook'
  BY <1>2, <1>3 DEF SolventInv, AsksPriced, CopiesFromBook, Mine
<1>5. ASSUME "overlapped" \notin flags'
      PROVE  "refused" \notin flags' /\ OneOwner' /\ (\E c, d : IsBudget(c, d))'
  <2>1. "refused" \notin flags' /\ OneOwner'
    BY <1>2, <1>3, <1>5 DEF SolventInv
  <2>2. PICK c, d : IsBudget(c, d)
    BY <1>2, <1>5 DEF SolventInv
  <2>3. ASSUME NEW k \in DOMAIN orders', Mine(orders'[k])
        PROVE  /\ Pays(orders'[k]) = c /\ c \in DOMAIN currencies
               /\ Cost(orders'[k], Left(orders[k])') <= d[Len(sales)]
    <3>1. PICK n \in DOMAIN orders :
            /\ orders'[k].orderType = orders[n].orderType
            /\ orders'[k].product = orders[n].product
            /\ orders'[k].price = orders[n].price
            /\ orders'[k].username = orders[n].username
            /\ Left(orders[k])' = Left(orders[n])
      BY <1>3, <2>3
    <3>2. Mine(orders[n])
      BY <2>3, <3>1 DEF Mine
    <3>3. /\ Pays(orders[n]) = c /\ c \in DOMAIN currencies
          /\ Cost(orders[n], Left(orders[n])) <= d[Len(sales)]
      BY <2>2, <3>2 DEF IsBudget
    <3> QED
      BY <3>1, <3>3 DEF Pays, Cost
  <2>4. IsBudget(c, d)'
    BY <1>2, <2>2, <2>3 DEF IsBudget, Debit, PaidIn, Mine, Pays, Cost
  <2> QED
    BY <2>1, <2>4
<1> QED
  BY <1>4, <1>5 DEF SolventInv

\* A settlement that the balance of the debited currency covers is not refused, and
\* takes no more of it than the sale says; a credit never lowers it.
LEMMA SettlementCovered ==
    ASSUME ServerInv, pc = "frame", returned, sales # <<>>,
           SkipSale \/ SettleBuy \/ SettleSell \/ SettleSellAborts,
           "refused" \notin flags, NEW c \in Currency, NEW b \in Nat,
           b <= BalanceOf(currencies, c), Debit(sale) \in Nat, b - Debit(sale) \in Nat,
           sale.username = "simuser" => PaidIn(sale) = c /\ c \in DOMAIN currencies
    PROVE  /\ "refused" \notin flags'
           /\ b - Debit(sale) <= BalanceOf(currencies', c)
           /\ DOMAIN currencies \subseteq DOMAIN currencies'
<1> DEFINE base == Base[call.product]
           quote == Quote[call.product]
           a == sale.amount
<1>1. /\ a \in Int /\ a > 0 /\ Value \in Int /\ base \in Currency /\ quote \in Currency
      /\ Value = a * sale.price
  BY SaleTypes DEF Value
<1>2. IsWallet(currencies) /\ \A e \in DOMAIN currencies : currencies[e] \in Int
  BY DEF ServerInv, TypeOK, IsWallet
<1>3. BalanceOf(currencies, c) \in Int
  BY <1>2 DEF BalanceOf
<1> HIDE DEF base, quote, a
<1>4. CASE SkipSale
  BY <1>3, <1>4 DEF SkipSale, Debit
<1>5. CASE SettleBuy
  <2> DEFINE credited == insertCurrency(currencies, base, a)
  <2>1. /\ sale.username = "simuser" /\ sale.orderType = "bidsale"
        /\ currencies' = removeCurrency(credited, quote, Value)
        /\ RemoveSucceeds(credited, quote, Value) => "refused" \notin flags'
    BY <1>5 DEF SettleBuy, Unfollowed, UiCurrency, base, quote, a
  <2>2. Debit(sale) = Value /\ quote = c /\ c \in DOMAIN currencies
    BY <1>1, <2>1 DEF Debit, PaidIn, quote, a
  <2>3. /\ IsWallet(credited)
        /\ \A e : BalanceOf(credited, e) = BalanceOf(currencies, e) + (IF e = base THEN a ELSE 0)
    <3>1. a >= 0
      BY <1>1
    <3> QED
      BY <1>1, <1>2, <3>1, InsertCurrencyProperties
  <2>4. DOMAIN credited = DOMAIN currencies \cup {base}
    BY <1>1 DEF insertCurrency, InsertThrows
  <2> HIDE DEF credited
  <2>5. credited[c] = BalanceOf(credited, c) /\ BalanceOf(credited, c) \in Int
        /\ BalanceOf(credited, c) >= b
    <3>1. BalanceOf(credited, c) = BalanceOf(currencies, c) + (IF c = base THEN a ELSE 0)
      BY <2>3
    <3> QED
      BY <1>1, <1>3, <2>2, <2>4, <3>1 DEF BalanceOf
  <2>6. RemoveSucceeds(credited, quote, Value)
    BY <1>1, <2>2, <2>4, <2>5 DEF RemoveSucceeds, containsCurrency
  <2>7. BalanceOf(currencies', c) = BalanceOf(credited, c) - Value
    BY <1>1, <2>1, <2>2, <2>3, <2>6, RemoveCurrencyProperties
  <2>8. DOMAIN currencies' = DOMAIN credited
    BY <2>1, <2>6 DEF removeCurrency
  <2> QED
    BY <1>1, <2>1, <2>2, <2>4, <2>5, <2>6, <2>7, <2>8
<1>6. CASE SettleSell \/ SettleSellAborts
  <2> DEFINE debited == removeCurrency(currencies, base, a)
  <2>1. /\ sale.username = "simuser" /\ sale.orderType = "asksale"
        /\ debited = SellDebited
    BY <1>6 DEF SettleSell, SettleSellAborts, SellDebited, base, a
  <2>2. Debit(sale) = a /\ base = c /\ c \in DOMAIN currencies
    BY <1>1, <2>1 DEF Debit, PaidIn, base, a
  <2>3. RemoveSucceeds(currencies, base, a)
    <3>1. currencies[c] = BalanceOf(currencies, c) /\ a >= 0
      BY <1>1, <2>2 DEF BalanceOf
    <3> QED
      BY <1>1, <1>3, <2>2, <3>1 DEF RemoveSucceeds, containsCurrency
  <2>4. SellRefused = {}
    BY <2>3 DEF SellRefused, base, a
  <2>5. IsWallet(debited) /\ BalanceOf(debited, c) = BalanceOf(currencies, c) - a
    BY <1>1, <1>2, <2>2, <2>3, RemoveCurrencyProperties
  <2>6. DOMAIN debited = DOMAIN currencies
    BY <2>3 DEF removeCurrency
  <2> HIDE DEF debited
  <2>7. CASE SettleSellAborts
    <3>1. currencies' = debited /\ "refused" \notin flags'
      BY <2>1, <2>4, <2>7 DEF SettleSellAborts
    <3> QED
      BY <1>1, <1>3, <2>2, <2>5, <2>6, <3>1
  <2>8. CASE SettleSell
    <3>1. /\ currencies' = insertCurrency(debited, quote, Value) /\ "refused" \notin flags'
          /\ Value >= 0
      BY <1>1, <2>1, <2>4, <2>8 DEF SettleSell, InsertThrows, Unfollowed, UiCurrency, quote
    <3>2. BalanceOf(currencies', c) = BalanceOf(debited, c) + (IF c = quote THEN Value ELSE 0)
      BY <1>1, <2>5, <3>1, InsertCurrencyProperties, SMTT(60)
    <3>3. DOMAIN currencies' = DOMAIN debited \cup {quote}
      BY <1>1, <3>1 DEF insertCurrency, InsertThrows
    <3> QED
      BY <1>1, <1>3, <2>2, <2>5, <2>6, <3>1, <3>2, <3>3
  <2> QED
    BY <1>6, <2>7, <2>8
<1> QED
  BY <1>4, <1>5, <1>6

\* After a settlement there is a budget for what is left.
LEMMA SettleSaleKeepsSolvent ==
    ASSUME ServerInv, SolventInv, SettleSale
    PROVE  SolventInv'
<1>1. /\ pc = "frame" /\ returned /\ sales # <<>> /\ UNCHANGED <<orders, call, asks, bids, returned>>
      /\ SkipSale \/ SettleBuy \/ SettleSell \/ SettleSellAborts
  BY DEF SettleSale
<1>2. AsksPriced' /\ CopiesFromBook'
  BY <1>1 DEF SolventInv, AsksPriced, CopiesFromBook, Mine
<1>3. ASSUME "overlapped" \notin flags'
      PROVE  "refused" \notin flags' /\ OneOwner' /\ (\E c, d : IsBudget(c, d))'
  <2>1. "overlapped" \notin flags
    BY <1>1, <1>3 DEF SkipSale, SettleBuy, SettleSell, SettleSellAborts
  <2>2. "refused" \notin flags /\ OneOwner
    BY <2>1 DEF SolventInv
  <2>3. PICK c, d : IsBudget(c, d)
    BY <2>1 DEF SolventInv
  <2> PICK n : n = Len(sales)
    OBVIOUS
  <2>4. sales \in Seq(Sale) /\ n \in Nat /\ n >= 1 /\ sale = sales[1]
    <3>1. sales \in Seq(Sale)
      BY DEF ServerInv, TypeOK, BookTypeOK, MatchTypeOK
    <3> QED
      BY <1>1, <3>1 DEF sale
  <2>5. /\ c \in Currency /\ d \in [0..n -> Nat]
        /\ d[0] <= BalanceOf(currencies, c)
        /\ \A k \in 1..n : d[k] = d[k - 1] - Debit(sales[k]) /\ Debit(sales[k]) \in Nat
        /\ \A k \in 0..n : d[n] <= d[k]
        /\ \A k \in 1..n :
             sales[k].username = "simuser" => PaidIn(sales[k]) = c /\ c \in DOMAIN currencies
        /\ \A l \in DOMAIN orders :
             Mine(orders[l]) => /\ Pays(orders[l]) = c /\ c \in DOMAIN currencies
                                /\ Cost(orders[l], Left(orders[l])) <= d[n]
    BY <2>3 DEF IsBudget
  <2>6. /\ d[1] = d[0] - Debit(sale) /\ Debit(sale) \in Nat
        /\ d[0] \in Nat /\ d[1] \in Nat /\ d[n] \in Nat /\ d[n] <= d[1]
        /\ sale.username = "simuser" => PaidIn(sale) = c /\ c \in DOMAIN currencies
    <3>1. 1 \in 1..n /\ 1 - 1 = 0 /\ 0 \in 0..n /\ 1 \in 0..n /\ n \in 0..n
      BY <2>4
    <3> QED
      BY <2>4, <2>5, <3>1
  <2>7. /\ "refused" \notin flags'
        /\ d[1] <= BalanceOf(currencies', c)
        /\ DOMAIN currencies \subseteq DOMAIN currencies'
    BY <1>1, <2>2, <2>5, <2>6, SettlementCovered
  <2>8. OneOwner'
    BY <1>1, <2>2 DEF OneOwner, SoleOwner, Mine
  <2>9. /\ \A e : Left(e)' = e.amount /\ Left(e) = e.amount
        /\ \A e : Debit(e)' = Debit(e) /\ PaidIn(e)' = PaidIn(e) /\ Pays(e)' = Pays(e)
        /\ \A e, x : Cost(e, x)' = Cost(e, x)
    BY <1>1 DEF Left, Debit, PaidIn, Pays, Cost
  <2>10. BalanceOf(currencies', c) \in Int
    <3>1. IsWallet(currencies')
      BY SettleSaleKeepsInv DEF ServerInv, TypeOK
    <3> QED
      BY <3>1 DEF IsWallet, BalanceOf
  <2>11. CASE sales' = <<>>
    <3> PICK q : q = [k \in 0..0 |-> d[n]]
      OBVIOUS
    <3>1. sales' = <<>> /\ Len(sales') = 0
      BY <2>11
    <3>2. d[n] <= BalanceOf(currencies', c)
      BY <2>6, <2>7, <2>10
    <3>3. q \in [0..0 -> Nat] /\ q[0] = d[n]
      BY <2>6
    <3>4. IsBudget(c, q)'
      BY <1>1, <2>5, <2>7, <2>9, <3>1, <3>2, <3>3 DEF IsBudget, Mine
    <3> QED
      BY <2>7, <2>8, <3>4
  <2>12. CASE sales' = Tail(sales)
    <3> PICK q : q = [k \in 0..n - 1 |-> d[k + 1]]
      OBVIOUS
    <3>1. sales' = Tail(sales)
      BY <2>12
    <3>2. Len(sales') = n - 1 /\ \A k \in 1..n - 1 : sales'[k] = sales[k + 1]
      BY <2>4, <3>1
    <3>3. /\ q \in [0..Len(sales') -> Nat] /\ q[0] = d[1] /\ q[Len(sales')] = d[n]
          /\ \A k \in 0..n - 1 : q[k] = d[k + 1] /\ k + 1 \in 0..n
      BY <2>4, <2>5, <3>2
    <3>4. ASSUME NEW k \in 1..Len(sales')
          PROVE  /\ q[k] = q[k - 1] - Debit(sales'[k]) /\ Debit(sales'[k]) \in Nat
                 /\ sales'[k].username = "simuser" =>
                       PaidIn(sales'[k]) = c /\ c \in DOMAIN currencies
      <4>1. /\ sales'[k] = sales[k + 1] /\ k + 1 \in 1..n /\ (k + 1) - 1 = k
            /\ q[k] = d[k + 1] /\ q[k - 1] = d[k]
        BY <2>4, <3>2, <3>3, <3>4
      <4> QED
        BY <2>5, <4>1
    <3>5. \A k \in 0..Len(sales') : q[Len(sales')] <= q[k]
      BY <2>5, <3>2, <3>3
    <3>6. IsBudget(c, q)'
      BY <1>1, <2>5, <2>7, <2>9, <3>3, <3>4, <3>5 DEF IsBudget, Mine
    <3> QED
      BY <2>7, <2>8, <3>6
  <2>13. sales' = Tail(sales) \/ sales' = <<>>
    BY <1>1 DEF SkipSale, SettleBuy, SettleSell, SettleSellAborts, Told, Untold
  <2> QED
    BY <2>11, <2>12, <2>13
<1> QED
  BY <1>2, <1>3 DEF SolventInv
\* An order is accepted when its owner can pay for it: with no other order of his in
\* the book that is the budget.
LEMMA SubmitKeepsSolvent ==
    ASSUME ServerInv, SolventInv, NEW side \in {"buy", "sell"}, NEW p \in Product,
           NEW price \in OfferPrices, NEW amount \in OfferAmounts,
           SubmitOrder(side, p, price, amount)
    PROVE  SolventInv'
<1> DEFINE e == UserOrder(side, p, price, amount)
           s == Append(orders, e)
<1>1. /\ e \in Entry /\ Mine(e) /\ e.product = p
      /\ e.orderType = (IF side = "buy" THEN "bid" ELSE "ask")
  BY UserOrderType DEF UserOrder, Mine, ServerInv, TypeOK
<1>2. /\ side = "buy" => p \in DOMAIN Quote
      /\ CanAfford(e) /\ insertOrder(e) /\ returned
      /\ flags' = flags \cup (IF HasOpenOrder THEN {"overlapped"} ELSE {})
      /\ UNCHANGED currencies
  BY DEF SubmitOrder, insertOrder, serverVars
<1> HIDE DEF e
<1>3. /\ sales = <<>> /\ sales' = <<>> /\ returned' = returned /\ UNCHANGED call
  BY <1>2 DEF SubmitOrder, insertOrder, matchVars, ServerInv, TypeOK
<1>4. /\ orders \in Seq(Entry) /\ s \in Seq(Entry) /\ Len(orders) \in Nat
      /\ DOMAIN s = 1..Len(orders) + 1 /\ s[Len(orders) + 1] = e
      /\ \A n \in DOMAIN orders : s[n] = orders[n]
  BY <1>1 DEF ServerInv, BookInv, BookTypeOK
<1>5. DrawnFrom(orders', s)
  BY <1>2, <1>4, StableSortProperties DEF insertOrder
<1>6. ASSUME NEW n \in DOMAIN s
      PROVE  n = Len(orders) + 1 \/ n \in DOMAIN orders
  BY <1>4
<1> HIDE DEF s
<1>7. AsksPriced'
  <2> SUFFICES ASSUME NEW k \in DOMAIN orders', orders'[k].orderType = "ask", ~Mine(orders'[k])
               PROVE  orders'[k].price >= 0
    BY DEF AsksPriced, Mine
  <2>1. PICK n \in DOMAIN s : orders'[k] = s[n]
    BY <1>5 DEF DrawnFrom
  <2>2. n \in DOMAIN orders
    BY <1>1, <1>4, <1>6, <2>1
  <2> QED
    BY <1>4, <2>1, <2>2 DEF SolventInv, AsksPriced
<1>8. CopiesFromBook'
  BY <1>2, <1>3 DEF CopiesFromBook
<1>9. ASSUME "overlapped" \notin flags'
      PROVE  "refused" \notin flags' /\ OneOwner' /\ (\E c, d : IsBudget(c, d))'
  <2>1. ~HasOpenOrder /\ "refused" \notin flags'
    BY <1>2, <1>9 DEF SolventInv
  <2>2. \A n \in DOMAIN s : Mine(s[n]) => n = Len(orders) + 1
    BY <1>4, <1>6, <2>1 DEF HasOpenOrder, Mine
  <2>3. SoleOwner(s)
    BY <2>2 DEF SoleOwner
  <2>4. OneOwner'
    BY <1>2, <1>3, <1>5, <2>3, SoleOwnerDrawn DEF OneOwner, SoleOwner, Mine
  <2>5. ASSUME NEW k \in DOMAIN orders', Mine(orders'[k])
        PROVE  orders'[k] = e
    <3>1. PICK n \in DOMAIN s : orders'[k] = s[n]
      BY <1>5, <2>5 DEF DrawnFrom
    <3> QED
      BY <1>4, <2>2, <2>5, <3>1
  <2> PICK c : c = Pays(e)
    OBVIOUS
  <2>6. c \in Currency /\ containsCurrency(currencies, c, Cost(e, e.amount))
    <3>1. CASE side = "buy"
      BY <1>1, <1>2, <3>1, ProductAssumption DEF Pays, Cost, CanAfford
    <3>2. CASE side = "sell"
      BY <1>1, <1>2, <3>2, ProductAssumption DEF Pays, Cost, CanAfford
    <3> QED
      BY <3>1, <3>2
  <2>7. /\ c \in DOMAIN currencies /\ BalanceOf(currencies, c) \in Nat
        /\ Cost(e, e.amount) <= BalanceOf(currencies, c)
    <3>1. c \in DOMAIN currencies /\ currencies[c] >= Cost(e, e.amount)
      BY <2>6 DEF containsCurrency
    <3>2. currencies[c] \in Int /\ currencies[c] >= 0
      BY <3>1 DEF ServerInv, TypeOK, IsWallet, WalletNonNegative
    <3>3. Cost(e, e.amount) \in Int
      BY <1>1 DEF Cost, Entry
    <3> QED
      BY <3>1, <3>2, <3>3 DEF BalanceOf
  <2> PICK d : d = [k \in 0..0 |-> BalanceOf(currencies, c)]
    OBVIOUS
  <2>8. d \in [0..0 -> Nat] /\ d[0] = BalanceOf(currencies, c)
    BY <2>7
  <2>9. ASSUME NEW k \in DOMAIN orders', Mine(orders'[k])
        PROVE  Pays(orders'[k]) = c /\ Cost(orders'[k], Left(orders[k])') <= d[0]
    BY <1>2, <1>3, <2>5, <2>7, <2>8, <2>9 DEF Left
  <2>10. IsBudget(c, d)'
    <3>1. Len(sales') = 0 /\ 1..0 = {}
      BY <1>3
    <3>2. \A x : Pays(x)' = Pays(x)
      BY DEF Pays
    <3> QED
      BY <1>2, <2>6, <2>7, <2>8, <2>9, <3>1, <3>2 DEF IsBudget, Mine, Cost
  <2> QED
    BY <2>1, <2>4, <2>10
<1> QED
  BY <1>7, <1>8, <1>9 DEF SolventInv

\* After every step of the server there is a budget.
LEMMA SolventStep == ServerInv /\ SolventInv /\ [Next]_vars => SolventInv'
<1> SUFFICES ASSUME ServerInv, SolventInv, [Next]_vars PROVE SolventInv'
  OBVIOUS
<1>1. ASSUME NEW side \in {"buy", "sell"}, NEW p \in Product,
             NEW price \in OfferPrices, NEW amount \in OfferAmounts,
             SubmitOrder(side, p, price, amount)
      PROVE  SolventInv'
  BY <1>1, SubmitKeepsSolvent
<1>2. CASE NextTimeframe \/ BareProductCrash \/ BareProductAborts
           \/ AdvanceTime \/ AdvanceTimeOfEmptyBook \/ UNCHANGED vars
  <2>1. UNCHANGED <<bookVars, currencies, flags>>
    BY <1>2 DEF NextTimeframe, BareProductCrash, BareProductAborts, AdvanceTime,
       AdvanceTimeOfEmptyBook, auxVars, vars, serverVars
  <2>2. UNCHANGED <<orders, sales, currencies, asks, bids, returned, call, flags>>
    BY <2>1 DEF bookVars, matchVars
  <2> QED
    BY <2>2, SolventUntouched
<1>3. CASE MatchProduct
  <2>1. returned /\ sales = <<>> /\ UNCHANGED <<currencies, flags>>
    BY <1>3 DEF MatchProduct, BetweenProducts, auxVars
  <2>2. CASE MatchEmpty(Min(todo), currentTime)
    <3>1. UNCHANGED <<orders, sales, currencies, asks, bids, returned, flags>>
      BY <2>1, <2>2 DEF MatchEmpty
    <3> QED
      BY <2>1, <3>1, SolventUntouched
  <2>3. CASE MatchBegin(Min(todo), currentTime)
    BY <2>1, <2>3, MatchBeginKeepsSolvent
  <2> QED
    BY <1>3, <2>2, <2>3 DEF MatchProduct, matchAsksToBids
<1> QED
  BY <1>1, <1>2, <1>3, MatchStepKeepsSolvent, MatchReturnKeepsSolvent, SettleSaleKeepsSolvent
     DEF Next, FrameStep

\* The check in submit_order is enough for a user with one order in the book at a
\* time: no debit of its fills is refused, for any file whose asks have no negative
\* price, however many frames and partial fills they take.
THEOREM SingleOrdersAreSolvent == Spec => []SingleOrderSolvent
<1>1. Spec => []SolventInv
  BY SolventInit, SolventStep, ServerInvariant, PTL DEF Spec
<1>2. SolventInv => SingleOrderSolvent
  BY DEF SolventInv, SingleOrderSolvent
<1> QED
  BY <1>1, <1>2, PTL

-----------------------------------------------------------------------------
(* One page *)

Side == {"buy", "sell"}
PageKey == Side \X PageProduct \X OfferPrices \X OfferAmounts
Fate == {"sent", "accepted", "rejected", "thrown", "lost"}

PageRow == [side : Side, product : Nat, price : Int, amount : Int,
            status : {"Pending", "Filled", "Rejected", "No Connection"}, order : Nat]
PlacedOrder == [key : PageKey, id : Nat, traded : BOOLEAN, fate : Fate]

SubmitMessage == [action : {"submit_order"}, side : Side, product : PageProduct,
                  price : OfferPrices, amount : OfferAmounts, order : Nat]
ServerMessage == SubmitMessage \cup [action : {"change_market"}, product : PageProduct]
                               \cup [action : {"next_timeframe"}]

AckMessage == [type : {"order_ack"}, status : {"Pending", "Rejected"}, side : Side,
               product : PageProduct, price : OfferPrices, amount : OfferAmounts]
OtherPageMessage ==
    [type : {"balances"}, ui : [{"BTC", "ETH", "USDT"} -> Int]]
    \cup [type : {"trade"}, side : Side, product : Nat, price : Int, amount : Int]
    \cup [type : {"price_hint"}, product : PageProduct, bestBid : Int, bestAsk : Int]
PageMessage == AckMessage \cup OtherPageMessage

\* The submissions and the answers among the messages of a queue.
Submits(s) == {s[n] : n \in {k \in DOMAIN s : s[k].action = "submit_order"}}
Acks(s) == {s[n] : n \in {k \in DOMAIN s : s[k].type = "order_ack"}}

\* The queues, and what is known of the connection and of the frame that runs.
LinkInv ==
    /\ socket \in {"open", "closed", "opening"} /\ mine \in BOOLEAN
    /\ dynamicWalletUpdated \in BOOLEAN /\ missed \in BOOLEAN
    /\ toServer \in Seq(ServerMessage) /\ toPage \in Seq(PageMessage)
    /\ socket # "open" => toServer = <<>> /\ toPage = <<>>
    /\ pc = "idle" => ~mine /\ ~dynamicWalletUpdated
    /\ mine => socket = "open"

\* What the page remembers and what the user has placed.
PageInv ==
    /\ rows \in Seq(PageRow) /\ placed \in Seq(PlacedOrder)
    /\ transactions \in Seq(Nat) /\ PageTypeOK
    /\ \A key \in DOMAIN pendingOrders : pendingOrders[key] \in Nat

\* The last balances the page has been sent, or shows when none are on their way.
NoBalances(s) == \A n \in DOMAIN s : s[n].type # "balances"
IsLatest(s, u) ==
    \E n \in DOMAIN s : /\ s[n].type = "balances" /\ s[n].ui = u
                        /\ \A k \in DOMAIN s : k > n => s[k].type # "balances"

\* They are the server's, until a frame moves those.
ToldInv ==
    socket = "open" /\ ~missed /\ ~dynamicWalletUpdated =>
        \/ IsLatest(toPage, Shown)
        \/ balances = {Shown} /\ NoBalances(toPage)

\* Each order has at most one row; a row that awaits an answer awaits that of an
\* order with its key.
RowsInv ==
    /\ \A n \in DOMAIN rows : rows[n].order \in 0..Len(placed)
    /\ \A n, l \in DOMAIN rows : rows[n].order = rows[l].order /\ rows[n].order # 0 => n = l
    /\ \A key \in DOMAIN pendingOrders :
         /\ pendingOrders[key] \in DOMAIN rows
         /\ rows[pendingOrders[key]].order # 0
         /\ placed[rows[pendingOrders[key]].order].key = key

\* The submissions on their way are of different orders that nothing has befallen.
InOrder(s) ==
    \A n, l \in DOMAIN s :
        n < l /\ s[n].action = "submit_order" /\ s[l].action = "submit_order"
            => s[n].order < s[l].order
SentInv ==
    /\ InOrder(toServer)
    /\ \A m \in Submits(toServer) :
         /\ m.order \in DOMAIN placed
         /\ placed[m.order].key = Key(m) /\ placed[m.order].fate = "sent"

\* An answer on its way tells the fate of its order, if its key says which.
AckInv ==
    \A a \in Acks(toPage) :
        /\ \E k \in DOMAIN placed : placed[k].key = Key(a)
        /\ \A k \in DOMAIN placed : placed[k].key = Key(a) /\ UniqueKey(k) =>
             placed[k].fate = IF a.status = "Rejected" THEN "rejected" ELSE "accepted"

\* The order or the answer of a row that waits is on its way, or will never come.
AwaitedInv ==
    socket # "closed" => \A key \in DOMAIN pendingOrders :
        LET k == rows[pendingOrders[key]].order
        IN  \/ \E m \in Submits(toServer) : m.order = k
            \/ \E a \in Acks(toPage) : Key(a) = key
            \/ placed[k].fate \in {"thrown", "lost"}

\* The row that the next answer for its key goes to.
Awaits(n) ==
    LET key == placed[rows[n].order].key
    IN  key \in DOMAIN pendingOrders /\ pendingOrders[key] = n

\* A row shows a rejection only of its own order, and shows it or is about to.
RejectedInv ==
    \A n \in DOMAIN rows :
        LET k == rows[n].order
        IN  k # 0 /\ UniqueKey(k) =>
              /\ rows[n].status = "Rejected" => placed[k].fate = "rejected"
              /\ socket # "closed" /\ placed[k].fate = "sent" => Awaits(n)
              /\ socket # "closed" /\ placed[k].fate = "rejected" =>
                   \/ rows[n].status = "Rejected"
                   \/ Awaits(n) /\ \E a \in Acks(toPage) : Key(a) = placed[k].key

OrdersInv == RowsInv /\ SentInv /\ AckInv /\ AwaitedInv /\ RejectedInv

\* The inductive invariant of the session: the server's, and that of its talk with
\* the page.
TalkInv == LinkInv /\ PageInv /\ ToldInv /\ OrdersInv
SessionInv == ServerInv /\ TalkInv

-----------------------------------------------------------------------------
(* Queues *)

\* The submissions of a queue when a message joins it or leaves it.
LEMMA SubmitsAppend ==
    ASSUME NEW s \in Seq(ServerMessage), NEW m \in ServerMessage
    PROVE  /\ Append(s, m) \in Seq(ServerMessage)
           /\ Submits(Append(s, m)) =
                Submits(s) \cup (IF m.action = "submit_order" THEN {m} ELSE {})
           /\ InOrder(s) /\ (m.action = "submit_order" =>
                               \A x \in Submits(s) : x.order < m.order)
                => InOrder(Append(s, m))
<1> DEFINE t == Append(s, m)
<1>1. /\ t \in Seq(ServerMessage) /\ DOMAIN s = 1..Len(s) /\ DOMAIN t = 1..(Len(s) + 1)
      /\ \A n \in 1..Len(s) : t[n] = s[n]
      /\ t[Len(s) + 1] = m /\ Len(s) \in Nat
  OBVIOUS
<1> HIDE DEF t
<1>2. Submits(t) = Submits(s) \cup (IF m.action = "submit_order" THEN {m} ELSE {})
  <2>1. \A x : x \in Submits(t) =>
               x \in Submits(s) \cup (IF m.action = "submit_order" THEN {m} ELSE {})
    BY <1>1 DEF Submits
  <2>2. Submits(s) \subseteq Submits(t)
    BY <1>1 DEF Submits
  <2>3. m.action = "submit_order" => m \in Submits(t)
    BY <1>1 DEF Submits
  <2> QED
    BY <2>1, <2>2, <2>3
<1>3. ASSUME InOrder(s), m.action = "submit_order" => \A x \in Submits(s) : x.order < m.order
      PROVE  InOrder(t)
  <2> SUFFICES ASSUME NEW n \in DOMAIN t, NEW l \in DOMAIN t, n < l,
                      t[n].action = "submit_order", t[l].action = "submit_order"
               PROVE  t[n].order < t[l].order
    BY DEF InOrder
  <2>1. CASE l = Len(s) + 1
    <3>1. n \in DOMAIN s /\ t[n] = s[n] /\ t[l] = m
      BY <1>1, <2>1
    <3>2. s[n] \in Submits(s)
      BY <3>1 DEF Submits
    <3> QED
      BY <1>3, <3>1, <3>2
  <2>2. CASE l # Len(s) + 1
    BY <1>1, <1>3, <2>2 DEF InOrder
  <2> QED
    BY <2>1, <2>2
<1> QED
  BY <1>1, <1>2, <1>3 DEF t

\* When the first of them leaves it.
LEMMA SubmitsTail ==
    ASSUME NEW s \in Seq(ServerMessage), s # <<>>
    PROVE  /\ Head(s) \in ServerMessage /\ Tail(s) \in Seq(ServerMessage)
           /\ Submits(s) =
                Submits(Tail(s)) \cup (IF Head(s).action = "submit_order" THEN {Head(s)} ELSE {})
           /\ InOrder(s) => InOrder(Tail(s))
           /\ InOrder(s) /\ Head(s).action = "submit_order" =>
                \A x \in Submits(Tail(s)) : x.order > Head(s).order
<1> DEFINE t == Tail(s)
<1>1. /\ t \in Seq(ServerMessage) /\ DOMAIN s = 1..Len(s) /\ DOMAIN t = 1..(Len(s) - 1)
      /\ \A n \in 1..(Len(s) - 1) : t[n] = s[n + 1]
      /\ Head(s) = s[1] /\ s[1] \in ServerMessage /\ Len(s) \in Nat /\ Len(s) > 0
  OBVIOUS
<1> HIDE DEF t
<1>2. ASSUME NEW n \in DOMAIN s PROVE n = 1 \/ (n - 1 \in DOMAIN t /\ t[n - 1] = s[n])
  BY <1>1
<1>3. ASSUME NEW n \in DOMAIN t PROVE n + 1 \in DOMAIN s /\ t[n] = s[n + 1]
  BY <1>1
<1>4. Submits(s) =
        Submits(t) \cup (IF Head(s).action = "submit_order" THEN {Head(s)} ELSE {})
  <2>1. \A x \in Submits(s) : \/ x \in Submits(t)
                              \/ x = Head(s) /\ x.action = "submit_order"
    BY <1>1, <1>2 DEF Submits
  <2>2. Submits(t) \subseteq Submits(s)
    BY <1>3 DEF Submits
  <2>3. Head(s).action = "submit_order" => Head(s) \in Submits(s)
    BY <1>1 DEF Submits
  <2> QED
    BY <2>1, <2>2, <2>3
<1>5. InOrder(s) => InOrder(t)
  BY <1>1, <1>3 DEF InOrder
<1>6. ASSUME InOrder(s), Head(s).action = "submit_order", NEW x \in Submits(t)
      PROVE  x.order > Head(s).order
  <2>1. PICK n \in DOMAIN t : x = t[n] /\ t[n].action = "submit_order"
    BY DEF Submits
  <2>2. n + 1 \in DOMAIN s /\ t[n] = s[n + 1] /\ 1 \in DOMAIN s /\ 1 < n + 1
    BY <1>1, <1>3
  <2>3. s[1].order < s[n + 1].order
    BY <1>1, <1>6, <2>1, <2>2 DEF InOrder
  <2>4. Head(s) \in SubmitMessage /\ x \in SubmitMessage
    <3>1. s[n + 1] \in ServerMessage /\ s[1] \in ServerMessage
      BY <1>1, <2>2
    <3> QED
      BY <1>1, <1>6, <2>1, <2>2, <3>1 DEF ServerMessage
  <2> QED
    BY <1>1, <2>1, <2>2, <2>3, <2>4 DEF SubmitMessage
<1> QED
  BY <1>1, <1>4, <1>5, <1>6 DEF t

\* The answers and the balances among the messages to the page, when one joins them.
LEMMA PageAppend ==
    ASSUME NEW s \in Seq(PageMessage), NEW m \in PageMessage
    PROVE  /\ Append(s, m) \in Seq(PageMessage)
           /\ Acks(Append(s, m)) = Acks(s) \cup (IF m.type = "order_ack" THEN {m} ELSE {})
           /\ m.type # "balances" =>
                /\ NoBalances(s) => NoBalances(Append(s, m))
                /\ \A u : IsLatest(s, u) => IsLatest(Append(s, m), u)
           /\ m.type = "balances" => IsLatest(Append(s, m), m.ui)
<1> DEFINE t == Append(s, m)
<1>1. /\ t \in Seq(PageMessage) /\ DOMAIN s = 1..Len(s) /\ DOMAIN t = 1..(Len(s) + 1)
      /\ \A n \in 1..Len(s) : t[n] = s[n]
      /\ t[Len(s) + 1] = m /\ Len(s) \in Nat
  OBVIOUS
<1> HIDE DEF t
<1>2. Acks(t) = Acks(s) \cup (IF m.type = "order_ack" THEN {m} ELSE {})
  <2>1. \A x \in Acks(t) : x \in Acks(s) \/ (x = m /\ m.type = "order_ack")
    BY <1>1 DEF Acks
  <2>2. Acks(s) \subseteq Acks(t)
    BY <1>1 DEF Acks
  <2>3. m.type = "order_ack" => m \in Acks(t)
    BY <1>1 DEF Acks
  <2> QED
    BY <2>1, <2>2, <2>3
<1>3. m.type # "balances" /\ NoBalances(s) => NoBalances(t)
  BY <1>1 DEF NoBalances
<1>4. ASSUME m.type # "balances", NEW u, IsLatest(s, u)
      PROVE  IsLatest(t, u)
  <2>1. PICK n \in DOMAIN s : /\ s[n].type = "balances" /\ s[n].ui = u
                              /\ \A k \in DOMAIN s : k > n => s[k].type # "balances"
    BY <1>4 DEF IsLatest
  <2>2. n \in DOMAIN t /\ t[n] = s[n] /\ \A k \in DOMAIN t : k > n => t[k].type # "balances"
    BY <1>1, <1>4, <2>1
  <2> QED
    BY <2>1, <2>2 DEF IsLatest
<1>5. m.type = "balances" => IsLatest(t, m.ui)
  BY <1>1 DEF IsLatest
<1> QED
  BY <1>1, <1>2, <1>3, <1>4, <1>5 DEF t

\* When the first of them is delivered.
LEMMA PageTail ==
    ASSUME NEW s \in Seq(PageMessage), s # <<>>
    PROVE  /\ Head(s) \in PageMessage /\ Tail(s) \in Seq(PageMessage)
           /\ Acks(s) =
                Acks(Tail(s)) \cup (IF Head(s).type = "order_ack" THEN {Head(s)} ELSE {})
           /\ NoBalances(s) => NoBalances(Tail(s)) /\ Head(s).type # "balances"
           /\ \A u : IsLatest(s, u) =>
                \/ IsLatest(Tail(s), u)
                \/ Head(s).type = "balances" /\ Head(s).ui = u /\ NoBalances(Tail(s))
<1> DEFINE t == Tail(s)
<1>1. /\ t \in Seq(PageMessage) /\ DOMAIN s = 1..Len(s) /\ DOMAIN t = 1..(Len(s) - 1)
      /\ \A n \in 1..(Len(s) - 1) : t[n] = s[n + 1]
      /\ Head(s) = s[1] /\ s[1] \in PageMessage /\ Len(s) \in Nat /\ Len(s) > 0
  OBVIOUS
<1> HIDE DEF t
<1>2. ASSUME NEW n \in DOMAIN s PROVE n = 1 \/ (n - 1 \in DOMAIN t /\ t[n - 1] = s[n])
  BY <1>1
<1>3. ASSUME NEW n \in DOMAIN t PROVE n + 1 \in DOMAIN s /\ t[n] = s[n + 1] /\ n \in Nat
  BY <1>1
<1>4. Acks(s) = Acks(t) \cup (IF Head(s).type = "order_ack" THEN {Head(s)} ELSE {})
  <2>1. \A x \in Acks(s) : x \in Acks(t) \/ (x = Head(s) /\ x.type = "order_ack")
    BY <1>1, <1>2 DEF Acks
  <2>2. Acks(t) \subseteq Acks(s)
    BY <1>3 DEF Acks
  <2>3. Head(s).type = "order_ack" => Head(s) \in Acks(s)
    BY <1>1 DEF Acks
  <2> QED
    BY <2>1, <2>2, <2>3
<1>5. NoBalances(s) => NoBalances(t) /\ Head(s).type # "balances"
  BY <1>1, <1>3 DEF NoBalances
<1>6. ASSUME NEW u, IsLatest(s, u)
      PROVE  \/ IsLatest(t, u)
             \/ Head(s).type = "balances" /\ Head(s).ui = u /\ NoBalances(t)
  <2>1. PICK n \in DOMAIN s : /\ s[n].type = "balances" /\ s[n].ui = u
                              /\ \A k \in DOMAIN s : k > n => s[k].type # "balances"
    BY <1>6 DEF IsLatest
  <2>2. \A k \in DOMAIN t : k > n - 1 => t[k].type # "balances"
    <3> SUFFICES ASSUME NEW k \in DOMAIN t, k > n - 1 PROVE t[k].type # "balances"
      OBVIOUS
    <3>1. k + 1 \in DOMAIN s /\ t[k] = s[k + 1] /\ k + 1 > n
      BY <1>1, <1>3
    <3> QED
      BY <2>1, <3>1
  <2>3. CASE n = 1
    BY <1>1, <1>3, <2>1, <2>2, <2>3 DEF NoBalances
  <2>4. CASE n # 1
    BY <1>2, <2>1, <2>2, <2>4 DEF IsLatest
  <2> QED
    BY <2>3, <2>4
<1> QED
  BY <1>1, <1>4, <1>5, <1>6 DEF t

-----------------------------------------------------------------------------
(* The messages *)

\* A nonempty finite set of integers has a least and a greatest element.
LEMMA Extremes ==
    ASSUME NEW K \in SUBSET Int, IsFiniteSet(K), K # {}
    PROVE  Min(K) \in K /\ Max(K) \in K
<1> DEFINE Below(x) == {y \in K : y < x}
           Above(x) == {y \in K : y > x}
<1>1. \A x \in K : /\ IsFiniteSet(Below(x)) /\ Cardinality(Below(x)) \in Nat
                   /\ IsFiniteSet(Above(x)) /\ Cardinality(Above(x)) \in Nat
  BY FS_Subset, FS_CardinalityType
<1>2. \E x \in K : \A y \in K : x <= y
  <2> DEFINE C == {Cardinality(Below(x)) : x \in K}
  <2>1. C \in SUBSET Nat /\ C # {}
    BY <1>1
  <2>2. PICK c \in C : \A d \in C : c <= d
    BY <2>1, LeastExists
  <2>3. PICK x \in K : c = Cardinality(Below(x))
    OBVIOUS
  <2>4. ASSUME NEW y \in K, y < x PROVE FALSE
    <3>1. Below(y) \subseteq Below(x)
      <4> SUFFICES ASSUME NEW z \in Below(y) PROVE z \in Below(x)
        OBVIOUS
      <4>1. z \in Int /\ y \in Int /\ x \in Int
        OBVIOUS
      <4> QED
        BY <2>4, <4>1
    <3>2. y \in Below(x) /\ y \notin Below(y)
      BY <2>4
    <3>3. IsFiniteSet(Below(x)) /\ Below(y) # Below(x)
      BY <1>1, <3>2
    <3> HIDE DEF Below
    <3>4. /\ Cardinality(Below(y)) <= Cardinality(Below(x))
          /\ Cardinality(Below(y)) # Cardinality(Below(x))
      BY <3>1, <3>3, FS_Subset
    <3>5. Cardinality(Below(x)) <= Cardinality(Below(y))
      BY <2>2, <2>3
    <3>6. Cardinality(Below(x)) \in Nat /\ Cardinality(Below(y)) \in Nat
      BY <1>1
    <3> QED
      BY <3>4, <3>5, <3>6
  <2> QED
    BY <2>4
<1>3. \E x \in K : \A y \in K : x >= y
  <2> DEFINE C == {Cardinality(Above(x)) : x \in K}
  <2>1. C \in SUBSET Nat /\ C # {}
    BY <1>1
  <2>2. PICK c \in C : \A d \in C : c <= d
    BY <2>1, LeastExists
  <2>3. PICK x \in K : c = Cardinality(Above(x))
    OBVIOUS
  <2>4. ASSUME NEW y \in K, y > x PROVE FALSE
    <3>1. Above(y) \subseteq Above(x)
      <4> SUFFICES ASSUME NEW z \in Above(y) PROVE z \in Above(x)
        OBVIOUS
      <4>1. z \in Int /\ y \in Int /\ x \in Int
        OBVIOUS
      <4> QED
        BY <2>4, <4>1
    <3>2. y \in Above(x) /\ y \notin Above(y)
      BY <2>4
    <3>3. IsFiniteSet(Above(x)) /\ Above(y) # Above(x)
      BY <1>1, <3>2
    <3> HIDE DEF Above
    <3>4. /\ Cardinality(Above(y)) <= Cardinality(Above(x))
          /\ Cardinality(Above(y)) # Cardinality(Above(x))
      BY <3>1, <3>3, FS_Subset
    <3>5. Cardinality(Above(x)) <= Cardinality(Above(y))
      BY <2>2, <2>3
    <3>6. Cardinality(Above(x)) \in Nat /\ Cardinality(Above(y)) \in Nat
      BY <1>1
    <3> QED
      BY <3>4, <3>5, <3>6
  <2> QED
    BY <2>4
<1> QED
  BY <1>2, <1>3 DEF Min, Max

\* The balances as they are sent.
LEMMA BalancesType ==
    ASSUME ServerInv
    PROVE  /\ BalancesMessage \in PageMessage /\ BalancesMessage.type = "balances"
           /\ BalancesMessage.ui = Shown
<1>1. ui \in [UiCurrency -> Int]
  BY DEF ServerInv, TypeOK
<1>2. Shown \in [{"BTC", "ETH", "USDT"} -> Int]
  BY <1>1 DEF Shown, UiCurrency
<1> QED
  BY <1>2 DEF BalancesMessage, PageMessage, OtherPageMessage

\* A hint is at most one message, of two prices.
LEMMA HintProperties ==
    ASSUME NEW os \in Seq(Entry), NEW p \in PageProduct
    PROVE  HintFor(os, p) = <<>> \/ \E h \in PageMessage :
               h.type = "price_hint" /\ HintFor(os, p) = <<h>>
<1> DEFINE Prices(side) == {os[n].price : n \in {k \in DOMAIN os :
                             /\ os[k].orderType = side /\ os[k].product = p
                             /\ os[k].timestamp <= currentTime}}
           h == [type |-> "price_hint", product |-> p,
                 bestBid |-> Max(Prices("bid")), bestAsk |-> Min(Prices("ask"))]
<1>1. HintFor(os, p) = IF Prices("bid") = {} \/ Prices("ask") = {} THEN <<>> ELSE <<h>>
  BY DEF HintFor
<1>2. ASSUME NEW side PROVE Prices(side) \in SUBSET Int /\ IsFiniteSet(Prices(side))
  <2> DEFINE K == {k \in DOMAIN os : /\ os[k].orderType = side /\ os[k].product = p
                                     /\ os[k].timestamp <= currentTime}
             f == [k \in K |-> os[k].price]
  <2>1. Len(os) \in Nat /\ DOMAIN os = 1..Len(os) /\ \A k \in DOMAIN os : os[k] \in Entry
    OBVIOUS
  <2>2. \A k \in DOMAIN os : os[k].price \in Int
    BY <2>1 DEF Entry
  <2>3. IsFiniteSet(K)
    <3>1. IsFiniteSet(DOMAIN os)
      BY <2>1, FS_Interval
    <3> QED
      BY <3>1, FS_Subset
  <2>4. Prices(side) = {os[k].price : k \in K}
    OBVIOUS
  <2> HIDE DEF K
  <2>5. f \in Surjection(K, Prices(side))
    BY <2>4 DEF Surjection
  <2>6. IsFiniteSet(Prices(side))
    BY <2>3, <2>5, FS_Surjection
  <2> QED
    BY <2>2, <2>6
<1>3. CASE Prices("bid") # {} /\ Prices("ask") # {}
  <2>1. Max(Prices("bid")) \in Int /\ Min(Prices("ask")) \in Int
    BY <1>2, <1>3, Extremes
  <2>2. h \in PageMessage /\ h.type = "price_hint"
    BY <2>1 DEF PageMessage, OtherPageMessage
  <2> QED
    BY <1>1, <1>3, <2>2
<1> QED
  BY <1>1, <1>3

\* What joins the queue to the page: a hint, if there is one.
LEMMA HintJoins ==
    ASSUME NEW os \in Seq(Entry), NEW p \in PageProduct, NEW s \in Seq(PageMessage)
    PROVE  LET t == s \o HintFor(os, p)
           IN  /\ t \in Seq(PageMessage) /\ Acks(t) = Acks(s)
               /\ NoBalances(s) => NoBalances(t)
               /\ \A u : IsLatest(s, u) => IsLatest(t, u)
<1>1. CASE HintFor(os, p) = <<>>
  <2>1. s \o HintFor(os, p) = s
    BY <1>1
  <2> QED
    BY <2>1
<1>2. ASSUME NEW h \in PageMessage, h.type = "price_hint", HintFor(os, p) = <<h>>
      PROVE  LET t == s \o HintFor(os, p)
             IN  /\ t \in Seq(PageMessage) /\ Acks(t) = Acks(s)
                 /\ NoBalances(s) => NoBalances(t)
                 /\ \A u : IsLatest(s, u) => IsLatest(t, u)
  <2>1. s \o HintFor(os, p) = Append(s, h)
    BY <1>2
  <2> QED
    BY <1>2, <2>1, PageAppend
<1> QED
  BY <1>1, <1>2, HintProperties

-----------------------------------------------------------------------------
(* The session and the server *)

\* The first message, when it is of some kind.
LEMMA HeadOfQueue ==
    ASSUME LinkInv, NEW action, Receive(action)
    PROVE  /\ socket = "open" /\ pc = "idle"
           /\ Head(toServer).action = action
           /\ Head(toServer) \in ServerMessage
           /\ action = "submit_order" => Head(toServer) \in SubmitMessage
           /\ action = "change_market" => Head(toServer).product \in PageProduct
           /\ toServer' \in Seq(ServerMessage)
           /\ Submits(toServer) = Submits(toServer') \cup
                (IF action = "submit_order" THEN {Head(toServer)} ELSE {})
           /\ InOrder(toServer) => InOrder(toServer')
           /\ InOrder(toServer) /\ action = "submit_order" =>
                \A x \in Submits(toServer') : x.order > Head(toServer).order
<1>1. /\ socket = "open" /\ pc = "idle" /\ toServer # <<>> /\ Head(toServer).action = action
      /\ toServer' = Tail(toServer) /\ toServer \in Seq(ServerMessage)
  BY DEF Receive, LinkInv
<1>2. /\ Head(toServer) \in ServerMessage /\ toServer' \in Seq(ServerMessage)
      /\ Submits(toServer) = Submits(toServer') \cup
           (IF action = "submit_order" THEN {Head(toServer)} ELSE {})
      /\ InOrder(toServer) => InOrder(toServer')
      /\ InOrder(toServer) /\ action = "submit_order" =>
           \A x \in Submits(toServer') : x.order > Head(toServer).order
  BY <1>1, SubmitsTail
<1>3. /\ action = "submit_order" => Head(toServer) \in SubmitMessage
      /\ action = "change_market" => Head(toServer).product \in PageProduct
  BY <1>1, <1>2 DEF ServerMessage, SubmitMessage
<1> QED
  BY <1>1, <1>2, <1>3

\* When it is not a submission, the submissions stay.
LEMMA HeadReceived ==
    ASSUME LinkInv, NEW action \in {"change_market", "next_timeframe"}, Receive(action)
    PROVE  /\ socket = "open" /\ pc = "idle"
           /\ action = "change_market" => Head(toServer).product \in PageProduct
           /\ toServer' \in Seq(ServerMessage)
           /\ Submits(toServer') = Submits(toServer)
           /\ InOrder(toServer) => InOrder(toServer')
<1>1. action # "submit_order"
  OBVIOUS
<1>2. /\ socket = "open" /\ pc = "idle"
      /\ action = "change_market" => Head(toServer).product \in PageProduct
      /\ toServer' \in Seq(ServerMessage)
      /\ Submits(toServer) = Submits(toServer') \cup
           (IF action = "submit_order" THEN {Head(toServer)} ELSE {})
      /\ InOrder(toServer) => InOrder(toServer')
  BY HeadOfQueue
<1> QED
  BY <1>1, <1>2

\* Every step of the session is one of the server, or leaves it alone.
LEMMA SessionStepIsServers ==
    ASSUME LinkInv, SessionNext
    PROVE  [Next]_vars
<1>1. CASE UserActs
  BY <1>1 DEF UserActs, ChooseMarket, PlaceOrder, ClickNextTimeframe, PageSends, Reload, Disconnect
<1>2. CASE Deliver \/ OnOpen
  BY <1>2 DEF Deliver, OnOpen
<1>3. CASE HandleAccepted
  <2> DEFINE m == Head(toServer)
  <2>1. m \in SubmitMessage
    BY <1>3, HeadOfQueue DEF HandleAccepted
  <2>2. /\ m.side \in {"buy", "sell"} /\ m.product \in Product
        /\ m.price \in OfferPrices /\ m.amount \in OfferAmounts
    BY <2>1, PageAssumption DEF SubmitMessage, Side
  <2>3. SubmitOrder(m.side, m.product, m.price, m.amount)
    BY <1>3 DEF HandleAccepted
  <2> HIDE DEF m
  <2> QED
    BY <2>2, <2>3 DEF Next
<1>4. CASE HandleChangeMarket \/ HandleRejected \/ HandleThrows \/ HandleNextTimeframe
  BY <1>4 DEF HandleChangeMarket, HandleRejected, HandleThrows, HandleNextTimeframe, Next
<1>5. CASE Frame
  BY <1>5 DEF Frame, MatchSends, SettleSends, FrameThrows, AdvanceSends, Next, FrameStep
<1>6. CASE Crash
  BY <1>6 DEF Crash, Next
<1> QED
  BY <1>1, <1>2, <1>3, <1>4, <1>5, <1>6 DEF SessionNext, Handle

-----------------------------------------------------------------------------
(* The orders, their messages and their rows *)

\* What leaves the rows, the submissions and the answers alone.
LEMMA OrdersKept ==
    ASSUME OrdersInv, UNCHANGED <<rows, pendingOrders>>,
           Submits(toServer') = Submits(toServer), InOrder(toServer) => InOrder(toServer'),
           Acks(toPage') = Acks(toPage), socket = "closed" => socket' = "closed",
           DOMAIN placed' = DOMAIN placed, Len(placed') = Len(placed),
           \A k \in DOMAIN placed : /\ placed'[k].key = placed[k].key
                                    /\ placed'[k].fate = placed[k].fate,
           DOMAIN placed = 1..Len(placed), Len(placed) \in Nat
    PROVE  OrdersInv'
<1>1. \A n \in DOMAIN rows : rows[n].order # 0 => rows[n].order \in DOMAIN placed
  BY DEF OrdersInv, RowsInv
<1>2. \A key \in DOMAIN pendingOrders : /\ pendingOrders[key] \in DOMAIN rows
                                        /\ rows[pendingOrders[key]].order \in DOMAIN placed
  BY <1>1 DEF OrdersInv, RowsInv
<1>3. \A k \in DOMAIN placed : UniqueKey(k)' <=> UniqueKey(k)
  BY DEF UniqueKey
<1>4. RowsInv'
  BY <1>2 DEF OrdersInv, RowsInv
<1>5. SentInv'
  BY DEF OrdersInv, SentInv, Key
<1>6. AckInv'
  BY <1>3 DEF OrdersInv, AckInv, Key
<1>7. AwaitedInv'
  BY <1>2 DEF OrdersInv, AwaitedInv, Key
<1>8. RejectedInv'
  <2>1. \A n \in DOMAIN rows : rows[n].order # 0 => (Awaits(n)' <=> Awaits(n))
    BY <1>1 DEF Awaits
  <2> QED
    BY <1>1, <1>3, <2>1 DEF OrdersInv, RejectedInv, Key
<1> QED
  BY <1>4, <1>5, <1>6, <1>7, <1>8 DEF OrdersInv

\* What the server answers to a submission it decides on, and what it decides.
Answers(m, f) == IF f = "thrown" THEN {}
                 ELSE {AckOf(m, IF f = "rejected" THEN "Rejected" ELSE "Pending")}
Decides(o, f) ==
    /\ DOMAIN placed' = DOMAIN placed /\ Len(placed') = Len(placed)
    /\ \A k \in DOMAIN placed :
         /\ placed'[k].key = placed[k].key
         /\ placed'[k].fate = IF k = o THEN f ELSE placed[k].fate

\* The server takes up a submission, and answers it unless the handler throws.
LEMMA OrderHandled ==
    ASSUME OrdersInv, UNCHANGED <<rows, pendingOrders, socket>>,
           NEW m \in SubmitMessage, NEW f \in {"accepted", "rejected", "thrown"},
           Submits(toServer) = Submits(toServer') \cup {m}, InOrder(toServer'),
           \A x \in Submits(toServer') : x.order > m.order,
           Acks(toPage') = Acks(toPage) \cup Answers(m, f), Decides(m.order, f),
           DOMAIN placed = 1..Len(placed), Len(placed) \in Nat
    PROVE  OrdersInv'
<1> DEFINE A == Answers(m, f)
<1>0. /\ A = (IF f = "thrown" THEN {}
              ELSE {AckOf(m, IF f = "rejected" THEN "Rejected" ELSE "Pending")})
      /\ Acks(toPage') = Acks(toPage) \cup A
  BY DEF Answers
<1>13. /\ DOMAIN placed' = DOMAIN placed /\ Len(placed') = Len(placed)
       /\ \A k \in DOMAIN placed :
            /\ placed'[k].key = placed[k].key
            /\ placed'[k].fate = IF k = m.order THEN f ELSE placed[k].fate
  BY DEF Decides
<1> HIDE DEF A
<1> USE <1>0, <1>13
<1>1. \A n \in DOMAIN rows : rows[n].order # 0 => rows[n].order \in DOMAIN placed
  BY DEF OrdersInv, RowsInv
<1>2. \A key \in DOMAIN pendingOrders : /\ pendingOrders[key] \in DOMAIN rows
                                        /\ rows[pendingOrders[key]].order \in DOMAIN placed
  BY <1>1 DEF OrdersInv, RowsInv
<1>3. \A k \in DOMAIN placed : UniqueKey(k)' <=> UniqueKey(k)
  BY DEF UniqueKey
<1>4. /\ m.order \in DOMAIN placed /\ placed[m.order].key = Key(m)
      /\ placed[m.order].fate = "sent"
  BY DEF OrdersInv, SentInv
<1>5. ASSUME NEW a \in A
      PROVE  /\ Key(a) = Key(m) /\ f # "thrown"
             /\ a.status = IF f = "rejected" THEN "Rejected" ELSE "Pending"
  BY <1>5 DEF AckOf, Key
<1>6. f # "thrown" => \E a \in A : Key(a) = Key(m)
  BY DEF AckOf, Key
<1>7. \A x \in Submits(toServer') : x.order # m.order
  BY DEF SubmitMessage
<1>8. RowsInv'
  BY <1>2 DEF OrdersInv, RowsInv
<1>9. SentInv'
  BY <1>7 DEF OrdersInv, SentInv, Key
<1>10. AckInv'
  <2>1. ASSUME NEW a \in Acks(toPage')
        PROVE  /\ \E k \in DOMAIN placed : placed[k].key = Key(a)
               /\ \A k \in DOMAIN placed : placed[k].key = Key(a) /\ UniqueKey(k) =>
                    placed'[k].fate = IF a.status = "Rejected" THEN "rejected" ELSE "accepted"
    <3>1. CASE a \in Acks(toPage)
      BY <1>4, <3>1 DEF OrdersInv, AckInv
    <3>2. CASE a \in A
      <4>1. Key(a) = placed[m.order].key
        BY <1>4, <1>5, <3>2
      <4>2. \A k \in DOMAIN placed : placed[k].key = Key(a) /\ UniqueKey(k) => k = m.order
        BY <1>4, <4>1 DEF UniqueKey
      <4> QED
        BY <1>4, <1>5, <3>2, <4>1, <4>2
    <3> QED
      BY <2>1, <3>1, <3>2
  <2>2. \A k \in DOMAIN placed' : placed'[k].key = placed[k].key /\ k \in DOMAIN placed
    OBVIOUS
  <2>3. ASSUME NEW a \in Acks(toPage')
        PROVE  \E k \in DOMAIN placed' : placed'[k].key = Key(a)
    BY <2>1
  <2>4. ASSUME NEW a \in Acks(toPage'), NEW k \in DOMAIN placed', placed'[k].key = Key(a),
               UniqueKey(k)'
        PROVE  placed'[k].fate = IF a.status = "Rejected" THEN "rejected" ELSE "accepted"
    BY <1>3, <2>1, <2>2, <2>4
  <2> QED
    BY <2>3, <2>4 DEF AckInv, Key
<1>11. AwaitedInv'
  <2> SUFFICES ASSUME socket # "closed", NEW key \in DOMAIN pendingOrders
               PROVE  LET k == rows[pendingOrders[key]].order
                      IN  \/ \E x \in Submits(toServer') : x.order = k
                          \/ \E a \in Acks(toPage') : Key(a) = key
                          \/ placed'[k].fate \in {"thrown", "lost"}
    BY DEF AwaitedInv, Key
  <2> DEFINE k == rows[pendingOrders[key]].order
  <2>1. k \in DOMAIN placed /\ placed[k].key = key
    BY <1>2 DEF OrdersInv, RowsInv
  <2>2. \/ \E x \in Submits(toServer) : x.order = k
        \/ \E a \in Acks(toPage) : Key(a) = key
        \/ placed[k].fate \in {"thrown", "lost"}
    BY DEF OrdersInv, AwaitedInv
  <2> HIDE DEF k
  <2>3. CASE k = m.order
    BY <1>4, <1>6, <2>1, <2>3 DEF k
  <2>4. CASE k # m.order
    BY <2>1, <2>2, <2>4 DEF k
  <2> QED
    BY <2>3, <2>4
<1>12. RejectedInv'
  <2> SUFFICES ASSUME NEW n \in DOMAIN rows, rows[n].order # 0, UniqueKey(rows[n].order)
               PROVE  LET k == rows[n].order
                      IN  /\ rows[n].status = "Rejected" => placed'[k].fate = "rejected"
                          /\ socket # "closed" /\ placed'[k].fate = "sent" => Awaits(n)
                          /\ socket # "closed" /\ placed'[k].fate = "rejected" =>
                               \/ rows[n].status = "Rejected"
                               \/ Awaits(n) /\ \E a \in Acks(toPage') : Key(a) = placed[k].key
    <3>1. \A n \in DOMAIN rows : rows[n].order # 0 => (Awaits(n)' <=> Awaits(n))
      BY <1>1 DEF Awaits
    <3> QED
      BY <1>1, <1>3, <3>1 DEF RejectedInv, Key
  <2> DEFINE k == rows[n].order
  <2>1. k \in DOMAIN placed
    BY <1>1
  <2>2. /\ rows[n].status = "Rejected" => placed[k].fate = "rejected"
        /\ socket # "closed" /\ placed[k].fate = "sent" => Awaits(n)
        /\ socket # "closed" /\ placed[k].fate = "rejected" =>
             \/ rows[n].status = "Rejected"
             \/ Awaits(n) /\ \E a \in Acks(toPage) : Key(a) = placed[k].key
    BY DEF OrdersInv, RejectedInv
  <2> HIDE DEF k
  <2>3. CASE k = m.order
    BY <1>4, <1>6, <2>1, <2>2, <2>3 DEF k
  <2>4. CASE k # m.order
    BY <2>1, <2>2, <2>4 DEF k
  <2> QED
    BY <2>3, <2>4
<1> QED
  BY <1>8, <1>9, <1>10, <1>11, <1>12 DEF OrdersInv

\* The page makes a row for an order, and sends the order if the connection is open.
LEMMA PlaceOrderDoes ==
    ASSUME LinkInv, PageInv, NEW side \in Side, NEW price \in OfferPrices,
           NEW amount \in OfferAmounts, PlaceOrder(side, price, amount)
    PROVE  \E m \in SubmitMessage :
             /\ UNCHANGED <<toPage, socket>>
             /\ m.order = Len(placed) + 1
             /\ rows' = Append(rows, Row(m, IF socket = "open" THEN "Pending"
                                            ELSE "No Connection", m.order))
             /\ pendingOrders' = [k \in {Key(m)} \cup DOMAIN pendingOrders |->
                         IF k = Key(m) THEN Len(rows') ELSE pendingOrders[k]]
             /\ placed' = Append(placed, [key |-> Key(m), id |-> 0, traded |-> FALSE,
                                          fate |-> IF socket = "open" THEN "sent" ELSE "lost"])
             /\ toServer' = IF socket = "open" THEN Append(toServer, m) ELSE toServer
<1> DEFINE m == [action |-> "submit_order", side |-> side, product |-> market,
                price |-> price, amount |-> amount, order |-> Len(placed) + 1]
<1>1. market \in PageProduct /\ Len(placed) + 1 \in Nat
  <2>1. placed \in Seq(PlacedOrder) /\ market \in PageProduct
    BY DEF PageInv, PageTypeOK
  <2> QED
    BY <2>1
<1>2. m \in SubmitMessage
  BY <1>1 DEF SubmitMessage
<1>3. m.order = Len(placed) + 1
  OBVIOUS
<1>4. /\ submitOrder(m, IF socket = "open" THEN "Pending" ELSE "No Connection", m.order)
      /\ PageSends(m)
      /\ placed' = Append(placed, [key |-> Key(m), id |-> 0, traded |-> FALSE,
                                   fate |-> IF socket = "open" THEN "sent" ELSE "lost"])
  BY DEF PlaceOrder
<1> HIDE DEF m
<1> QED
  BY <1>2, <1>3, <1>4 DEF submitOrder, PageSends

\* A row and an order that join their vectors.
LEMMA RowJoins ==
    ASSUME PageInv, NEW r \in PageRow, rows' = Append(rows, r)
    PROVE  /\ rows' \in Seq(PageRow) /\ Len(rows) \in Nat /\ DOMAIN rows = 1..Len(rows)
           /\ DOMAIN rows' = 1..(Len(rows) + 1) /\ Len(rows') = Len(rows) + 1
           /\ \A n \in DOMAIN rows : rows'[n] = rows[n]
           /\ rows'[Len(rows) + 1] = r
BY DEF PageInv

\* The same for the orders that were placed.
LEMMA PlacedJoins ==
    ASSUME PageInv, NEW o \in PlacedOrder, placed' = Append(placed, o)
    PROVE  /\ placed' \in Seq(PlacedOrder)
           /\ Len(placed) \in Nat /\ DOMAIN placed = 1..Len(placed)
           /\ DOMAIN placed' = 1..(Len(placed) + 1) /\ Len(placed') = Len(placed) + 1
           /\ \A k \in DOMAIN placed : placed'[k] = placed[k]
           /\ placed'[Len(placed) + 1] = o
BY DEF PageInv

\* An order that is placed has a row of its own, which awaits its answer.
LEMMA OrderPlaced ==
    ASSUME OrdersInv, UNCHANGED <<toPage, socket>>, NEW m \in SubmitMessage,
           Len(placed) \in Nat, Len(rows) \in Nat, m.order = Len(placed) + 1,
           DOMAIN rows = 1..Len(rows), DOMAIN rows' = 1..(Len(rows) + 1),
           \A n \in DOMAIN rows : rows'[n] = rows[n],
           rows'[Len(rows) + 1].order = Len(placed) + 1, rows'[Len(rows) + 1].status # "Rejected",
           DOMAIN placed = 1..Len(placed), DOMAIN placed' = 1..(Len(placed) + 1),
           Len(placed') = Len(placed) + 1,
           \A k \in DOMAIN placed : placed'[k] = placed[k],
           placed'[Len(placed) + 1].key = Key(m),
           placed'[Len(placed) + 1].fate = IF socket = "open" THEN "sent" ELSE "lost",
           DOMAIN pendingOrders' = {Key(m)} \cup DOMAIN pendingOrders,
           pendingOrders'[Key(m)] = Len(rows) + 1,
           \A key \in DOMAIN pendingOrders :
               key # Key(m) => pendingOrders'[key] = pendingOrders[key],
           Submits(toServer') = Submits(toServer) \cup (IF socket = "open" THEN {m} ELSE {}),
           InOrder(toServer')
    PROVE  OrdersInv'
<1> DEFINE N == Len(placed) + 1
           R == Len(rows) + 1
<1>5. \A k \in DOMAIN placed : UniqueKey(k)' => UniqueKey(k) /\ placed[k].key # Key(m)
  BY DEF UniqueKey
<1>6. \A n \in DOMAIN rows : rows[n].order # 0 => rows[n].order \in DOMAIN placed
  BY DEF OrdersInv, RowsInv
<1>7. \A key \in DOMAIN pendingOrders : /\ pendingOrders[key] \in DOMAIN rows
                                        /\ rows[pendingOrders[key]].order \in DOMAIN placed
                                        /\ placed[rows[pendingOrders[key]].order].key = key
  BY <1>6 DEF OrdersInv, RowsInv
<1>8. RowsInv'
  <2>1. \A n \in DOMAIN rows' : rows'[n].order \in 0..Len(placed')
    BY DEF OrdersInv, RowsInv
  <2>2. \A n, l \in DOMAIN rows' : rows'[n].order = rows'[l].order /\ rows'[n].order # 0 => n = l
    <3>1. \A n \in DOMAIN rows : rows'[n].order # N
      BY <1>6
    <3> QED
      BY <3>1 DEF OrdersInv, RowsInv
  <2>3. ASSUME NEW key \in DOMAIN pendingOrders'
        PROVE  /\ pendingOrders'[key] \in DOMAIN rows'
               /\ rows'[pendingOrders'[key]].order # 0
               /\ placed'[rows'[pendingOrders'[key]].order].key = key
    <3>1. CASE key = Key(m)
      BY <3>1
    <3>2. CASE key # Key(m)
      BY <1>7, <2>3, <3>2
    <3> QED
      BY <3>1, <3>2
  <2> QED
    BY <2>1, <2>2, <2>3 DEF RowsInv
<1>9. SentInv'
  <2>1. \A x \in Submits(toServer) :
          /\ x.order \in DOMAIN placed
          /\ placed[x.order].key = Key(x) /\ placed[x.order].fate = "sent"
    BY DEF OrdersInv, SentInv
  <2>2. \A x \in Submits(toServer') :
          /\ x.order \in DOMAIN placed'
          /\ placed'[x.order].key = Key(x) /\ placed'[x.order].fate = "sent"
    BY <2>1
  <2> QED
    BY <2>2 DEF SentInv, Key
<1>10. AckInv'
  <2> SUFFICES ASSUME NEW a \in Acks(toPage)
               PROVE  /\ \E k \in DOMAIN placed' : placed'[k].key = Key(a)
                      /\ \A k \in DOMAIN placed' : placed'[k].key = Key(a) /\ UniqueKey(k)' =>
                           placed'[k].fate =
                               IF a.status = "Rejected" THEN "rejected" ELSE "accepted"
    BY DEF AckInv, Key
  <2>1. PICK k0 \in DOMAIN placed : placed[k0].key = Key(a)
    BY DEF OrdersInv, AckInv
  <2>2. \A k \in DOMAIN placed : placed[k].key = Key(a) /\ UniqueKey(k) =>
          placed[k].fate = IF a.status = "Rejected" THEN "rejected" ELSE "accepted"
    BY DEF OrdersInv, AckInv
  <2>3. k0 \in DOMAIN placed' /\ placed'[k0].key = Key(a) /\ k0 # N
    BY <2>1
  <2>4. \A k \in DOMAIN placed' : placed'[k].key = Key(a) /\ UniqueKey(k)' => k = k0
    BY <2>3 DEF UniqueKey
  <2> QED
    BY <1>5, <2>1, <2>2, <2>3, <2>4
<1>11. AwaitedInv'
  <2>1. ASSUME socket # "closed", NEW key \in DOMAIN pendingOrders'
        PROVE  LET k == rows'[pendingOrders'[key]].order
               IN  \/ \E x \in Submits(toServer') : x.order = k
                   \/ \E a \in Acks(toPage) : Key(a) = key
                   \/ placed'[k].fate \in {"thrown", "lost"}
    <3>1. CASE key = Key(m)
      BY <3>1
    <3>2. CASE key # Key(m)
      <4> DEFINE k == rows[pendingOrders[key]].order
      <4>1. key \in DOMAIN pendingOrders
        BY <2>1, <3>2
      <4>2. \/ \E x \in Submits(toServer) : x.order = k
            \/ \E a \in Acks(toPage) : Key(a) = key
            \/ placed[k].fate \in {"thrown", "lost"}
        BY <2>1, <4>1 DEF OrdersInv, AwaitedInv
      <4>3. rows'[pendingOrders'[key]].order = k /\ k \in DOMAIN placed
        BY <1>7, <3>2, <4>1
      <4> HIDE DEF k
      <4> QED
        BY <4>2, <4>3
    <3> QED
      BY <3>1, <3>2
  <2> QED
    BY <2>1 DEF AwaitedInv, Key
<1>12. RejectedInv'
  <2>1. ASSUME NEW n \in DOMAIN rows', NEW k, k = rows'[n].order, k # 0, UniqueKey(k)'
        PROVE  /\ rows'[n].status = "Rejected" => placed'[k].fate = "rejected"
               /\ socket # "closed" /\ placed'[k].fate = "sent" => Awaits(n)'
               /\ socket # "closed" /\ placed'[k].fate = "rejected" =>
                    \/ rows'[n].status = "Rejected"
                    \/ Awaits(n)' /\ \E a \in Acks(toPage) : Key(a) = placed'[k].key
    <3>1. CASE n = R
      BY <2>1, <3>1 DEF Awaits
    <3>2. CASE n # R
      <4>1. n \in DOMAIN rows /\ rows'[n] = rows[n] /\ k \in DOMAIN placed
        BY <1>6, <2>1, <3>2
      <4>2. UniqueKey(k) /\ placed[k].key # Key(m) /\ placed'[k] = placed[k]
        BY <1>5, <2>1, <4>1
      <4>3. Awaits(n) => Awaits(n)'
        BY <2>1, <4>1, <4>2 DEF Awaits
      <4>4. /\ rows[n].status = "Rejected" => placed[k].fate = "rejected"
            /\ socket # "closed" /\ placed[k].fate = "sent" => Awaits(n)
            /\ socket # "closed" /\ placed[k].fate = "rejected" =>
                 \/ rows[n].status = "Rejected"
                 \/ Awaits(n) /\ \E a \in Acks(toPage) : Key(a) = placed[k].key
        BY <2>1, <4>1, <4>2 DEF OrdersInv, RejectedInv
      <4> QED
        BY <4>1, <4>2, <4>3, <4>4
    <3> QED
      BY <3>1, <3>2
  <2> QED
    BY <2>1 DEF RejectedInv, Key
<1> QED
  BY <1>8, <1>9, <1>10, <1>11, <1>12 DEF OrdersInv

\* A trade fills a row that is pending, or makes one of no order.
LEMMA RowTraded ==
    ASSUME OrdersInv, UNCHANGED <<pendingOrders, placed, socket, toServer>>,
           Acks(toPage') = Acks(toPage),
           DOMAIN rows \subseteq DOMAIN rows',
           \A n \in DOMAIN rows :
               /\ rows'[n].order = rows[n].order
               /\ rows'[n].status = "Rejected" <=> rows[n].status = "Rejected",
           \A n \in DOMAIN rows' : n \notin DOMAIN rows => rows'[n].order = 0,
           Len(placed) \in Nat, DOMAIN placed = 1..Len(placed)
    PROVE  OrdersInv'
<1>1. \A key \in DOMAIN pendingOrders :
        /\ pendingOrders[key] \in DOMAIN rows /\ rows[pendingOrders[key]].order # 0
        /\ placed[rows[pendingOrders[key]].order].key = key
  BY DEF OrdersInv, RowsInv
<1>2. \A k : UniqueKey(k)' <=> UniqueKey(k)
  BY DEF UniqueKey
<1>3. RowsInv'
  <2>1. \A n \in DOMAIN rows' : rows'[n].order \in 0..Len(placed')
    BY DEF OrdersInv, RowsInv
  <2>2. \A n, l \in DOMAIN rows' : rows'[n].order = rows'[l].order /\ rows'[n].order # 0 => n = l
    BY DEF OrdersInv, RowsInv
  <2> QED
    BY <1>1, <2>1, <2>2 DEF RowsInv
<1>4. SentInv' /\ AckInv'
  BY <1>2 DEF OrdersInv, SentInv, AckInv, Key
<1>5. AwaitedInv'
  BY <1>1 DEF OrdersInv, AwaitedInv, Key
<1>6. RejectedInv'
  <2>1. ASSUME NEW n \in DOMAIN rows', NEW k, k = rows'[n].order, k # 0, UniqueKey(k)'
        PROVE  /\ rows'[n].status = "Rejected" => placed[k].fate = "rejected"
               /\ socket # "closed" /\ placed[k].fate = "sent" => Awaits(n)'
               /\ socket # "closed" /\ placed[k].fate = "rejected" =>
                    \/ rows'[n].status = "Rejected"
                    \/ Awaits(n)' /\ \E a \in Acks(toPage) : Key(a) = placed[k].key
    <3>1. n \in DOMAIN rows /\ k = rows[n].order /\ UniqueKey(k)
      BY <1>2, <2>1
    <3>2. Awaits(n) => Awaits(n)'
      BY <3>1 DEF Awaits
    <3> QED
      BY <2>1, <3>1, <3>2 DEF OrdersInv, RejectedInv
  <2> QED
    BY <2>1 DEF RejectedInv, Key
<1> QED
  BY <1>3, <1>4, <1>5, <1>6 DEF OrdersInv

\* An answer goes to the row that waits for its key.
LEMMA OrderAcked ==
    ASSUME OrdersInv, UNCHANGED <<placed, socket, toServer>>,
           NEW m \in AckMessage, Acks(toPage) = Acks(toPage') \cup {m},
           DOMAIN pendingOrders' = DOMAIN pendingOrders \ {Key(m)},
           \A key \in DOMAIN pendingOrders' : pendingOrders'[key] = pendingOrders[key],
           DOMAIN rows' = DOMAIN rows,
           \A n \in DOMAIN rows :
               /\ rows'[n].order = rows[n].order
               /\ rows'[n].status =
                    IF Key(m) \in DOMAIN pendingOrders /\ n = pendingOrders[Key(m)]
                    THEN m.status ELSE rows[n].status,
           Len(placed) \in Nat, DOMAIN placed = 1..Len(placed)
    PROVE  OrdersInv'
<1>1. \A key \in DOMAIN pendingOrders :
        /\ pendingOrders[key] \in DOMAIN rows /\ rows[pendingOrders[key]].order # 0
        /\ placed[rows[pendingOrders[key]].order].key = key
  BY DEF OrdersInv, RowsInv
<1>2. \A k : UniqueKey(k)' <=> UniqueKey(k)
  BY DEF UniqueKey
<1>3. RowsInv'
  BY <1>1 DEF OrdersInv, RowsInv
<1>4. SentInv' /\ AckInv'
  BY <1>2 DEF OrdersInv, SentInv, AckInv, Key
<1>5. AwaitedInv'
  <2>1. ASSUME socket # "closed", NEW key \in DOMAIN pendingOrders'
        PROVE  LET k == rows'[pendingOrders'[key]].order
               IN  \/ \E x \in Submits(toServer) : x.order = k
                   \/ \E a \in Acks(toPage') : Key(a) = key
                   \/ placed[k].fate \in {"thrown", "lost"}
    <3> DEFINE k == rows[pendingOrders[key]].order
    <3>1. /\ key \in DOMAIN pendingOrders /\ key # Key(m)
          /\ rows'[pendingOrders'[key]].order = k
      BY <1>1, <2>1
    <3>2. \/ \E x \in Submits(toServer) : x.order = k
          \/ \E a \in Acks(toPage) : Key(a) = key
          \/ placed[k].fate \in {"thrown", "lost"}
      BY <2>1, <3>1 DEF OrdersInv, AwaitedInv
    <3> HIDE DEF k
    <3> QED
      BY <3>1, <3>2
  <2> QED
    BY <2>1 DEF AwaitedInv, Key
<1>6. RejectedInv'
  <2>1. ASSUME NEW n \in DOMAIN rows', NEW k, k = rows'[n].order, k # 0, UniqueKey(k)'
        PROVE  /\ rows'[n].status = "Rejected" => placed[k].fate = "rejected"
               /\ socket # "closed" /\ placed[k].fate = "sent" => Awaits(n)'
               /\ socket # "closed" /\ placed[k].fate = "rejected" =>
                    \/ rows'[n].status = "Rejected"
                    \/ Awaits(n)' /\ \E a \in Acks(toPage') : Key(a) = placed[k].key
    <3>1. n \in DOMAIN rows /\ k = rows[n].order /\ UniqueKey(k) /\ k \in DOMAIN placed
      BY <1>2, <2>1 DEF OrdersInv, RowsInv
    <3>2. CASE Key(m) \in DOMAIN pendingOrders /\ n = pendingOrders[Key(m)]
      <4>1. placed[k].key = Key(m) /\ rows'[n].status = m.status
        BY <1>1, <3>1, <3>2
      <4>2. placed[k].fate = IF m.status = "Rejected" THEN "rejected" ELSE "accepted"
        BY <3>1, <4>1 DEF OrdersInv, AckInv
      <4> QED
        BY <4>1, <4>2
    <3>3. CASE ~(Key(m) \in DOMAIN pendingOrders /\ n = pendingOrders[Key(m)])
      <4>1. rows'[n].status = rows[n].status
        BY <3>1, <3>3
      <4>2. Awaits(n) => placed[k].key # Key(m) /\ Awaits(n)'
        BY <3>1, <3>3 DEF Awaits
      <4>3. /\ rows[n].status = "Rejected" => placed[k].fate = "rejected"
            /\ socket # "closed" /\ placed[k].fate = "sent" => Awaits(n)
            /\ socket # "closed" /\ placed[k].fate = "rejected" =>
                 \/ rows[n].status = "Rejected"
                 \/ Awaits(n) /\ \E a \in Acks(toPage) : Key(a) = placed[k].key
        BY <2>1, <3>1 DEF OrdersInv, RejectedInv
      <4> QED
        BY <4>1, <4>2, <4>3
    <3> QED
      BY <3>2, <3>3
  <2> QED
    BY <2>1 DEF RejectedInv, Key
<1> QED
  BY <1>3, <1>4, <1>5, <1>6 DEF OrdersInv

\* The connection goes, with all that is on its way; the page may go too.
LEMMA OrdersLost ==
    ASSUME OrdersInv, Submits(toServer') = {}, InOrder(toServer'), Acks(toPage') = {},
           \/ socket' = "closed" /\ UNCHANGED <<rows, pendingOrders>>
           \/ DOMAIN rows' = {} /\ DOMAIN pendingOrders' = {},
           DOMAIN placed' = DOMAIN placed, Len(placed') = Len(placed),
           \A k \in DOMAIN placed :
               /\ placed'[k].key = placed[k].key
               /\ placed[k].fate = "rejected" => placed'[k].fate = "rejected",
           Len(placed) \in Nat, DOMAIN placed = 1..Len(placed)
    PROVE  OrdersInv'
<1>1. SentInv' /\ AckInv'
  BY DEF SentInv, AckInv
<1>2. CASE socket' = "closed" /\ UNCHANGED <<rows, pendingOrders>>
  <2>1. \A n \in DOMAIN rows : rows[n].order # 0 => rows[n].order \in DOMAIN placed
    BY DEF OrdersInv, RowsInv
  <2>2. \A k \in DOMAIN placed : UniqueKey(k)' <=> UniqueKey(k)
    BY DEF UniqueKey
  <2>3. RowsInv'
    BY <1>2, <2>1 DEF OrdersInv, RowsInv
  <2>4. AwaitedInv'
    BY <1>2 DEF AwaitedInv
  <2>5. RejectedInv'
    BY <1>2, <2>1, <2>2 DEF OrdersInv, RejectedInv
  <2> QED
    BY <1>1, <2>3, <2>4, <2>5 DEF OrdersInv
<1>3. CASE DOMAIN rows' = {} /\ DOMAIN pendingOrders' = {}
  BY <1>1, <1>3 DEF OrdersInv, RowsInv, AwaitedInv, RejectedInv
<1> QED
  BY <1>2, <1>3

-----------------------------------------------------------------------------
(* The parts of a step *)

\* The orders that were placed, when their fates or marks change.
LEMMA PlacedLengths ==
    ASSUME PageInv
    PROVE  /\ Len(placed) \in Nat /\ DOMAIN placed = 1..Len(placed)
           /\ \A k \in DOMAIN placed : placed[k] \in PlacedOrder
BY DEF PageInv

\* A change of some of them leaves as many.
LEMMA PlacedUpdated ==
    ASSUME PageInv, NEW q \in [DOMAIN placed -> PlacedOrder]
    PROVE  q \in Seq(PlacedOrder) /\ DOMAIN q = DOMAIN placed /\ Len(q) = Len(placed)
BY PlacedLengths

\* Those whose connection goes before they were read are lost; no decision changes.
LEMMA LostOrders ==
    ASSUME PageInv
    PROVE  /\ Lost(placed) \in Seq(PlacedOrder)
           /\ DOMAIN Lost(placed) = DOMAIN placed /\ Len(Lost(placed)) = Len(placed)
           /\ \A k \in DOMAIN placed :
                /\ Lost(placed)[k].key = placed[k].key
                /\ placed[k].fate = "rejected" => Lost(placed)[k].fate = "rejected"
<1>1. ASSUME NEW k \in DOMAIN placed
      PROVE  LET o == IF placed[k].fate = "sent" THEN [placed[k] EXCEPT !.fate = "lost"]
                      ELSE placed[k]
             IN  /\ o \in PlacedOrder /\ o.key = placed[k].key
                 /\ placed[k].fate = "rejected" => o.fate = "rejected"
  BY PlacedLengths DEF PlacedOrder, Fate
<1>2. Lost(placed) \in [DOMAIN placed -> PlacedOrder]
  BY <1>1 DEF Lost
<1> QED
  BY <1>1, <1>2, PlacedUpdated DEF Lost

\* Those that trade are marked; their keys and fates stay.
LEMMA TradedOrders ==
    ASSUME PageInv
    PROVE  /\ MarkTraded(placed) \in Seq(PlacedOrder)
           /\ DOMAIN MarkTraded(placed) = DOMAIN placed
           /\ Len(MarkTraded(placed)) = Len(placed)
           /\ \A k \in DOMAIN placed : /\ MarkTraded(placed)[k].key = placed[k].key
                                       /\ MarkTraded(placed)[k].fate = placed[k].fate
<1>1. ASSUME NEW k \in DOMAIN placed
      PROVE  LET o == IF placed[k].id \in {sale.ask, sale.bid}
                      THEN [placed[k] EXCEPT !.traded = TRUE] ELSE placed[k]
             IN  o \in PlacedOrder /\ o.key = placed[k].key /\ o.fate = placed[k].fate
  BY PlacedLengths DEF PlacedOrder
<1>2. MarkTraded(placed) \in [DOMAIN placed -> PlacedOrder]
  BY <1>1 DEF MarkTraded
<1> QED
  BY <1>1, <1>2, PlacedUpdated DEF MarkTraded

\* The server decides what becomes of one of them.
LEMMA DecidedOrders ==
    ASSUME PageInv, NEW o \in DOMAIN placed, NEW f \in Fate, NEW n \in Nat,
           placed' = [placed EXCEPT ![o].fate = f]
             \/ placed' = [placed EXCEPT ![o].fate = f, ![o].id = n]
    PROVE  placed' \in Seq(PlacedOrder) /\ Decides(o, f)
<1>1. \A k \in DOMAIN placed : placed[k] \in PlacedOrder
  BY PlacedLengths
<1>2. /\ [placed[o] EXCEPT !.fate = f] \in PlacedOrder
      /\ [placed[o] EXCEPT !.fate = f].key = placed[o].key
      /\ [placed[o] EXCEPT !.fate = f].fate = f
  BY <1>1 DEF PlacedOrder
<1>3. /\ [placed[o] EXCEPT !.fate = f, !.id = n] \in PlacedOrder
      /\ [placed[o] EXCEPT !.fate = f, !.id = n].key = placed[o].key
      /\ [placed[o] EXCEPT !.fate = f, !.id = n].fate = f
  BY <1>1 DEF PlacedOrder
<1>4. PICK e \in PlacedOrder : /\ placed' = [placed EXCEPT ![o] = e]
                              /\ e.key = placed[o].key /\ e.fate = f
  <2>1. CASE placed' = [placed EXCEPT ![o].fate = f]
    BY <1>2, <2>1
  <2>2. CASE placed' = [placed EXCEPT ![o].fate = f, ![o].id = n]
    BY <1>3, <2>2
  <2> QED
    BY <2>1, <2>2
<1>5. placed' \in [DOMAIN placed -> PlacedOrder]
  BY <1>1, <1>4, PlacedLengths
<1> QED
  BY <1>4, <1>5, PlacedUpdated, PlacedLengths DEF Decides

\* What the page has been told, when the server's balances and the page's stay.
LEMMA ToldKept ==
    ASSUME ToldInv, UNCHANGED <<ui, balances>>,
           socket' = "open" /\ ~missed' /\ ~dynamicWalletUpdated'
               => socket = "open" /\ ~missed /\ ~dynamicWalletUpdated,
           NoBalances(toPage) => NoBalances(toPage'),
           IsLatest(toPage, Shown) => IsLatest(toPage', Shown)
    PROVE  ToldInv'
<1>1. Shown' = Shown
  BY DEF Shown
<1>2. (ToldInv <=> (socket = "open" /\ ~missed /\ ~dynamicWalletUpdated =>
          \/ IsLatest(toPage, Shown)
          \/ balances = {Shown} /\ NoBalances(toPage)))'
  BY DEF ToldInv
<1>3. IsLatest(toPage, Shown)' <=> IsLatest(toPage', Shown)
  BY <1>1 DEF IsLatest
<1>4. NoBalances(toPage)' <=> NoBalances(toPage')
  BY DEF NoBalances
<1> QED
  BY <1>1, <1>2, <1>3, <1>4 DEF ToldInv

\* What leaves the page's own state alone.
LEMMA PageKept ==
    ASSUME PageInv, UNCHANGED pageVars, placed' \in Seq(PlacedOrder)
    PROVE  PageInv'
BY DEF PageInv, PageTypeOK, pageVars

\* The history with a row in front.
LEMMA HistoryGrows ==
    ASSUME NEW n \in Nat, transactions \in Seq(Nat)
    PROVE  /\ WithNewest(n) \in Seq(Nat) /\ Len(WithNewest(n)) <= HistoryLength
           /\ \A k \in DOMAIN WithNewest(n) :
                WithNewest(n)[k] = n \/ \E l \in DOMAIN transactions : WithNewest(n)[k] = transactions[l]
<1> DEFINE all == <<n>> \o transactions
           L == Min({Len(all), HistoryLength})
<1>1. /\ all \in Seq(Nat) /\ Len(all) \in Nat /\ DOMAIN all = 1..Len(all)
      /\ \A k \in DOMAIN all : all[k] = n \/ \E l \in DOMAIN transactions : all[k] = transactions[l]
  OBVIOUS
<1>2. all \in Seq(Nat) /\ Len(all) \in Nat /\ DOMAIN all = 1..Len(all)
  BY <1>1
<1>3. L <= Len(all) /\ L <= HistoryLength /\ L \in Nat
  BY <1>2, HistoryAssumption, MinProperties
<1>4. WithNewest(n) = SubSeq(all, 1, L)
  BY DEF WithNewest
<1> HIDE DEF all, L
<1>5. /\ SubSeq(all, 1, L) \in Seq(Nat) /\ DOMAIN SubSeq(all, 1, L) = 1..L
      /\ Len(SubSeq(all, 1, L)) = L
      /\ \A k \in 1..L : SubSeq(all, 1, L)[k] = all[k]
  BY <1>2, <1>3
<1>6. \A k \in 1..L : k \in DOMAIN all
  BY <1>2, <1>3
<1> QED
  BY <1>1, <1>3, <1>4, <1>5, <1>6

-----------------------------------------------------------------------------
(* The user and the network *)

\* The page sends something that is not an order.
LEMMA PageSendsKeeps ==
    ASSUME TalkInv, NEW m \in ServerMessage, m.action # "submit_order", PageSends(m),
           UNCHANGED <<rows, pendingOrders, balances, placed>>, PageInv'
    PROVE  TalkInv'
<1>1. /\ toServer' = IF socket = "open" THEN Append(toServer, m) ELSE toServer
      /\ UNCHANGED <<pc, ui, toPage, socket, mine, dynamicWalletUpdated, missed>>
      /\ LinkInv /\ PageInv /\ ToldInv /\ OrdersInv /\ toServer \in Seq(ServerMessage)
  BY DEF PageSends, TalkInv, LinkInv, vars, serverVars
<1>2. /\ toServer' \in Seq(ServerMessage) /\ Submits(toServer') = Submits(toServer)
      /\ InOrder(toServer) => InOrder(toServer')
  <2>1. CASE socket = "open"
    BY <1>1, <2>1, SubmitsAppend
  <2>2. CASE socket # "open"
    BY <1>1, <2>2
  <2> QED
    BY <2>1, <2>2
<1>3. LinkInv'
  BY <1>1, <1>2 DEF LinkInv
<1>4. ToldInv'
  BY <1>1, ToldKept
<1>5. OrdersInv'
  BY <1>1, <1>2, OrdersKept, PlacedLengths
<1> QED
  BY <1>3, <1>4, <1>5 DEF TalkInv

\* The user picks another market in the form.
LEMMA ChooseMarketKeeps ==
    ASSUME TalkInv, NEW p \in PageProduct, ChooseMarket(p)
    PROVE  TalkInv'
<1> DEFINE m == [action |-> "change_market", product |-> p]
<1>1. m \in ServerMessage /\ m.action # "submit_order"
  BY DEF ServerMessage
<1>2. PageSends(m) /\ chooseMarket(p) /\ UNCHANGED placed
  BY DEF ChooseMarket
<1> HIDE DEF m
<1>3. PageInv'
  <2>1. /\ market' = p /\ hint' = {}
        /\ UNCHANGED <<rows, transactions, pendingOrders, balances, placed>>
    BY <1>2 DEF chooseMarket
  <2>2. Cardinality(hint') <= 1
    BY <2>1, FS_EmptySet
  <2> QED
    BY <2>1, <2>2 DEF TalkInv, PageInv, PageTypeOK
<1> QED
  BY <1>1, <1>2, <1>3, PageSendsKeeps DEF chooseMarket

\* The user asks for the next frame.
LEMMA ClickKeeps ==
    ASSUME TalkInv, ClickNextTimeframe
    PROVE  TalkInv'
<1> DEFINE m == [action |-> "next_timeframe"]
<1>1. m \in ServerMessage /\ m.action # "submit_order"
  BY DEF ServerMessage
<1>2. PageSends(m) /\ UNCHANGED <<pageVars, placed>>
  BY DEF ClickNextTimeframe
<1> HIDE DEF m
<1>3. PageInv'
  BY <1>2, PageKept DEF TalkInv, PageInv
<1> QED
  BY <1>1, <1>2, <1>3, PageSendsKeeps DEF pageVars

\* The user submits the form.
LEMMA PlaceOrderKeeps ==
    ASSUME TalkInv, NEW side \in Side, NEW price \in OfferPrices, NEW amount \in OfferAmounts,
           PlaceOrder(side, price, amount)
    PROVE  TalkInv'
<1>1. LinkInv /\ PageInv /\ ToldInv /\ OrdersInv
  BY DEF TalkInv
<1>2. PICK m \in SubmitMessage :
        /\ UNCHANGED <<toPage, socket>> /\ m.order = Len(placed) + 1
        /\ rows' = Append(rows, Row(m, IF socket = "open" THEN "Pending"
                                       ELSE "No Connection", m.order))
        /\ pendingOrders' = [k \in {Key(m)} \cup DOMAIN pendingOrders |->
                         IF k = Key(m) THEN Len(rows') ELSE pendingOrders[k]]
        /\ placed' = Append(placed, [key |-> Key(m), id |-> 0, traded |-> FALSE,
                                     fate |-> IF socket = "open" THEN "sent" ELSE "lost"])
        /\ toServer' = IF socket = "open" THEN Append(toServer, m) ELSE toServer
  BY <1>1, PlaceOrderDoes
<1> DEFINE r == Row(m, IF socket = "open" THEN "Pending" ELSE "No Connection", m.order)
           o == [key |-> Key(m), id |-> 0, traded |-> FALSE,
                 fate |-> IF socket = "open" THEN "sent" ELSE "lost"]
           R == Len(rows) + 1
           N == Len(placed) + 1
<1>3. /\ UNCHANGED <<pc, ui, mine, dynamicWalletUpdated, missed, balances, hint, market>>
      /\ transactions' = WithNewest(Len(rows'))
  BY DEF PlaceOrder, PageSends, submitOrder, vars, serverVars
<1>4. r \in PageRow /\ r.order = N /\ r.status \in {"Pending", "No Connection"}
  <2>1. /\ m.side \in Side /\ m.product \in Nat /\ m.price \in Int /\ m.amount \in Int
        /\ m.order \in Nat
    BY PageAssumption, ProductAssumption, OfferAssumption DEF SubmitMessage
  <2> QED
    BY <1>2, <2>1 DEF PageRow, Row
<1>5. /\ o \in PlacedOrder /\ o.key = Key(m)
      /\ o.fate = IF socket = "open" THEN "sent" ELSE "lost"
  BY DEF PlacedOrder, Key, SubmitMessage, PageKey, Fate
<1>6. /\ DOMAIN pendingOrders' = {Key(m)} \cup DOMAIN pendingOrders
      /\ pendingOrders'[Key(m)] = Len(rows')
      /\ \A key \in DOMAIN pendingOrders : key # Key(m) => pendingOrders'[key] = pendingOrders[key]
  <2>1. pendingOrders' = [k \in {Key(m)} \cup DOMAIN pendingOrders |->
                         IF k = Key(m) THEN Len(rows') ELSE pendingOrders[k]]
    BY <1>2
  <2> QED
    BY <2>1
<1>7. rows' = Append(rows, r) /\ placed' = Append(placed, o)
  BY <1>2
<1> HIDE DEF r, o
<1>8. Len(rows) \in Nat /\ DOMAIN rows = 1..Len(rows) /\ DOMAIN rows' = 1..R
  BY <1>1, <1>4, <1>7, RowJoins
<1>9. R \in Nat /\ R \in DOMAIN rows' /\ DOMAIN rows' = DOMAIN rows \cup {R}
  BY <1>8
<1>10. /\ \A n \in DOMAIN rows : rows'[n] = rows[n]
      /\ rows'[R].order = N /\ rows'[R].status \in {"Pending", "No Connection"}
  BY <1>1, <1>4, <1>7, RowJoins
<1>11. rows' \in Seq(PageRow) /\ Len(rows') = R
  BY <1>1, <1>4, <1>7, RowJoins
<1>21. placed' \in Seq(PlacedOrder)
  BY <1>1, <1>5, <1>7, PlacedJoins
<1>12. /\ Len(placed) \in Nat /\ DOMAIN placed = 1..Len(placed)
      /\ DOMAIN placed' = 1..(Len(placed) + 1) /\ Len(placed') = Len(placed) + 1
      /\ \A k \in DOMAIN placed : placed'[k] = placed[k]
  BY <1>1, <1>5, <1>7, PlacedJoins
<1>13. /\ toServer' \in Seq(ServerMessage)
       /\ Submits(toServer') = Submits(toServer) \cup (IF socket = "open" THEN {m} ELSE {})
       /\ InOrder(toServer')
  <2>1. m \in ServerMessage /\ m.action = "submit_order"
    BY DEF ServerMessage, SubmitMessage
  <2>2. \A x \in Submits(toServer) : x.order < m.order
    <3>1. \A x \in Submits(toServer) : x.order \in 1..Len(placed)
      BY <1>1, <1>12 DEF OrdersInv, SentInv
    <3>2. m.order = Len(placed) + 1
      BY <1>2
    <3> QED
      BY <1>12, <3>1, <3>2
  <2>3. toServer \in Seq(ServerMessage) /\ InOrder(toServer)
    BY <1>1 DEF LinkInv, OrdersInv, SentInv
  <2>4. CASE socket = "open"
    <3>1. toServer' = Append(toServer, m)
      BY <1>2, <2>4
    <3> QED
      BY <2>1, <2>2, <2>3, <2>4, <3>1, SubmitsAppend
  <2>5. CASE socket # "open"
    <3>1. toServer' = toServer
      BY <1>2, <2>5
    <3> QED
      BY <2>3, <2>5, <3>1
  <2> QED
    BY <2>4, <2>5
<1>14. OrdersInv'
  <2>1. N = Len(placed) + 1 /\ R = Len(rows) + 1 /\ rows'[R].status # "Rejected"
    BY <1>10
  <2>2. OrdersInv /\ UNCHANGED <<toPage, socket>> /\ m.order = N
    BY <1>1, <1>2
  <2>3. pendingOrders'[Key(m)] = R
    BY <1>6, <1>11
  <2>4. /\ Submits(toServer') = Submits(toServer) \cup (IF socket = "open" THEN {m} ELSE {})
        /\ InOrder(toServer')
    BY <1>13
  <2>6. /\ Len(rows) \in Nat /\ DOMAIN rows = 1..Len(rows) /\ DOMAIN rows' = 1..R
        /\ rows'[R].order = N /\ \A n \in DOMAIN rows : rows'[n] = rows[n]
    BY <1>8, <1>10
  <2>7. /\ DOMAIN pendingOrders' = {Key(m)} \cup DOMAIN pendingOrders
        /\ \A key \in DOMAIN pendingOrders :
             key # Key(m) => pendingOrders'[key] = pendingOrders[key]
    BY <1>6
  <2>5. /\ placed'[Len(placed) + 1].key = Key(m)
        /\ placed'[Len(placed) + 1].fate = IF socket = "open" THEN "sent" ELSE "lost"
    BY <1>1, <1>5, <1>7, PlacedJoins
  <2> QED
    BY <1>12, <2>5, <2>1, <2>2, <2>3, <2>4, <2>6, <2>7, OrderPlaced
<1>15. LinkInv'
  BY <1>1, <1>2, <1>3, <1>13 DEF LinkInv
<1>16. ToldInv'
  BY <1>1, <1>2, <1>3, ToldKept
<1>17. PageInv'
  <2>1. /\ transactions \in Seq(Nat) /\ PageTypeOK /\ rows \in Seq(PageRow)
        /\ \A key \in DOMAIN pendingOrders : pendingOrders[key] \in Nat
    BY <1>1 DEF PageInv
  <2>2. /\ \A k \in DOMAIN transactions : transactions[k] \in DOMAIN rows
        /\ \A key \in DOMAIN pendingOrders :
             pendingOrders[key] \in DOMAIN rows /\ rows[pendingOrders[key]].order # 0
        /\ \A n \in DOMAIN rows :
             rows[n].status \in {"Pending", "Filled", "Rejected", "No Connection"}
    BY <2>1 DEF PageTypeOK
  <2>3. /\ transactions' \in Seq(Nat) /\ Len(transactions') <= HistoryLength
        /\ \A k \in DOMAIN transactions' : transactions'[k] \in DOMAIN rows'
    <3>1. transactions' = WithNewest(R) /\ R \in Nat /\ R \in DOMAIN rows'
      BY <1>3, <1>11, <1>9
    <3>2. DOMAIN rows \subseteq DOMAIN rows'
      BY <1>9
    <3> HIDE DEF R
    <3>3. /\ transactions' \in Seq(Nat) /\ Len(transactions') <= HistoryLength
          /\ \A k \in DOMAIN transactions' : transactions'[k] = R
               \/ \E l \in DOMAIN transactions : transactions'[k] = transactions[l]
      BY <2>1, <3>1, HistoryGrows
    <3> QED
      BY <2>2, <3>1, <3>2, <3>3
  <2>4. \A key \in DOMAIN pendingOrders' :
          /\ pendingOrders'[key] \in DOMAIN rows' /\ pendingOrders'[key] \in Nat
          /\ rows'[pendingOrders'[key]].order # 0
    <3>1. pendingOrders'[Key(m)] = R /\ R \in DOMAIN rows' /\ R \in Nat /\ N # 0
      BY <1>6, <1>12, <1>11, <1>9
    <3>2. DOMAIN rows \subseteq DOMAIN rows'
      BY <1>9
    <3> HIDE DEF R, N
    <3> QED
      BY <1>6, <1>10, <2>1, <2>2, <3>1, <3>2
  <2>5. \A n \in DOMAIN rows' :
          rows'[n].status \in {"Pending", "Filled", "Rejected", "No Connection"}
    <3>1. \A n \in DOMAIN rows' : n \in DOMAIN rows \/ n = R
      BY <1>9
    <3> QED
      BY <1>10, <2>2, <3>1
  <2> QED
    BY <1>3, <1>21, <1>11, <2>1, <2>2, <2>3, <2>4, <2>5 DEF PageInv, PageTypeOK
<1> QED
  BY <1>14, <1>15, <1>16, <1>17 DEF TalkInv

\* What is on its way is gone, and no frame that runs can reach the page.
LEMMA ConnectionLost ==
    ASSUME TalkInv, UNCHANGED <<pc, dynamicWalletUpdated, missed>>,
           toServer' = <<>>, toPage' = <<>>, mine' = FALSE, placed' = Lost(placed),
           \/ socket' = "closed" /\ UNCHANGED <<rows, pendingOrders>>
           \/ socket' = "opening" /\ DOMAIN rows' = {} /\ DOMAIN pendingOrders' = {},
           PageInv'
    PROVE  TalkInv'
<1>1. LinkInv /\ PageInv /\ OrdersInv
  BY DEF TalkInv
<1>2. LinkInv'
  <2>1. toServer' \in Seq(ServerMessage) /\ toPage' \in Seq(PageMessage)
    OBVIOUS
  <2> QED
    BY <1>1, <2>1 DEF LinkInv
<1>3. ToldInv'
  BY DEF ToldInv
<1>4. Submits(toServer') = {} /\ InOrder(toServer') /\ Acks(toPage') = {}
  BY DEF Submits, InOrder, Acks
<1>5. OrdersInv'
  BY <1>1, <1>4, LostOrders, OrdersLost, PlacedLengths
<1> QED
  BY <1>2, <1>3, <1>5 DEF TalkInv

\* The user loads the page again.
LEMMA ReloadKeeps ==
    ASSUME TalkInv, Reload
    PROVE  TalkInv'
<1>1. /\ UNCHANGED <<pc, dynamicWalletUpdated, missed>> /\ socket' = "opening"
      /\ toServer' = <<>> /\ toPage' = <<>> /\ mine' = FALSE /\ placed' = Lost(placed)
      /\ rows' = <<>> /\ transactions' = <<>> /\ pendingOrders' = <<>>
      /\ balances' = {} /\ hint' = {} /\ market' = DefaultMarket
  BY DEF Reload, ReloadPage, vars, serverVars
<1>2. DOMAIN rows' = {} /\ DOMAIN transactions' = {} /\ DOMAIN pendingOrders' = {}
  BY <1>1
<1>3. PageInv'
  <2>1. rows' \in Seq(PageRow) /\ transactions' \in Seq(Nat) /\ Len(transactions') = 0
    BY <1>1
  <2>2. Cardinality(balances') <= 1 /\ Cardinality(hint') <= 1
    BY <1>1, FS_EmptySet
  <2>3. placed' \in Seq(PlacedOrder)
    BY <1>1, LostOrders DEF TalkInv
  <2> QED
    BY <1>1, <1>2, <2>1, <2>2, <2>3, HistoryAssumption, PageAssumption DEF PageInv, PageTypeOK
<1> QED
  BY <1>1, <1>2, <1>3, ConnectionLost

\* The connection closes.
LEMMA DisconnectKeeps ==
    ASSUME TalkInv, Disconnect
    PROVE  TalkInv'
<1>1. /\ UNCHANGED <<pc, dynamicWalletUpdated, missed>> /\ socket' = "closed"
      /\ toServer' = <<>> /\ toPage' = <<>> /\ mine' = FALSE /\ placed' = Lost(placed)
      /\ UNCHANGED pageVars
  BY DEF Disconnect, vars, serverVars
<1>2. PageInv'
  BY <1>1, LostOrders, PageKept DEF TalkInv
<1> QED
  BY <1>1, <1>2, ConnectionLost DEF pageVars

\* A reloaded page's connection opens and is told the balances.
LEMMA OnOpenKeeps ==
    ASSUME ServerInv, TalkInv, OnOpen
    PROVE  TalkInv'
<1>1. LinkInv /\ PageInv /\ OrdersInv
  BY DEF TalkInv
<1>2. /\ socket = "opening" /\ socket' = "open" /\ toPage' = <<BalancesMessage>>
      /\ toPage = <<>> /\ UNCHANGED <<pc, ui, toServer, mine, dynamicWalletUpdated, placed>>
      /\ missed' = FALSE /\ UNCHANGED pageVars
  BY <1>1 DEF OnOpen, LinkInv, vars, serverVars
<1>3. /\ BalancesMessage \in PageMessage /\ BalancesMessage.type = "balances"
      /\ BalancesMessage.ui = Shown
  BY BalancesType
<1>4. /\ toPage' \in Seq(PageMessage) /\ Acks(toPage') = Acks(toPage)
      /\ IsLatest(toPage', Shown)
  <2>1. toPage' = Append(toPage, BalancesMessage) /\ toPage \in Seq(PageMessage)
    BY <1>2
  <2> QED
    BY <1>3, <2>1, PageAppend
<1>5. LinkInv'
  BY <1>1, <1>2, <1>4 DEF LinkInv
<1>6. PageInv'
  BY <1>1, <1>2, PageKept DEF PageInv
<1>7. ToldInv'
  BY <1>2, <1>4 DEF ToldInv, IsLatest, Shown
<1>8. OrdersInv'
  BY <1>1, <1>2, <1>4, OrdersKept, PlacedLengths DEF pageVars
<1> QED
  BY <1>5, <1>6, <1>7, <1>8 DEF TalkInv

-----------------------------------------------------------------------------
(* The page takes a message *)

\* What a delivery does to the queue, and that it is enough to look at the page.
LEMMA DeliverDoes ==
    ASSUME TalkInv, Deliver
    PROVE  /\ UNCHANGED <<pc, ui, toServer, socket, mine, dynamicWalletUpdated, placed, missed>>
           /\ socket = "open" /\ onmessage(Head(toPage)) /\ Head(toPage) \in PageMessage
           /\ Acks(toPage) = Acks(toPage') \cup
                (IF Head(toPage).type = "order_ack" THEN {Head(toPage)} ELSE {})
           /\ NoBalances(toPage) => NoBalances(toPage') /\ Head(toPage).type # "balances"
           /\ IsLatest(toPage, Shown) =>
                \/ IsLatest(toPage', Shown)
                \/ /\ Head(toPage).type = "balances" /\ Head(toPage).ui = Shown
                   /\ NoBalances(toPage')
           /\ LinkInv'
<1>1. /\ UNCHANGED <<vars, toServer, socket, mine, dynamicWalletUpdated, placed, missed>>
      /\ socket = "open" /\ onmessage(Head(toPage)) /\ toPage # <<>> /\ toPage' = Tail(toPage)
  BY DEF Deliver, logVars
<1>2. UNCHANGED <<pc, ui>>
  BY <1>1 DEF vars, serverVars
<1>3. LinkInv /\ toPage \in Seq(PageMessage)
  BY DEF TalkInv, LinkInv
<1>4. /\ toPage' \in Seq(PageMessage) /\ Head(toPage) \in PageMessage
      /\ Acks(toPage) = Acks(toPage') \cup
           (IF Head(toPage).type = "order_ack" THEN {Head(toPage)} ELSE {})
      /\ NoBalances(toPage) => NoBalances(toPage') /\ Head(toPage).type # "balances"
      /\ IsLatest(toPage, Shown) =>
           \/ IsLatest(toPage', Shown)
           \/ Head(toPage).type = "balances" /\ Head(toPage).ui = Shown /\ NoBalances(toPage')
  BY <1>1, <1>3, PageTail
<1>5. LinkInv'
  BY <1>1, <1>2, <1>3, <1>4 DEF LinkInv
<1> QED
  BY <1>1, <1>2, <1>4, <1>5

\* Balances: the last that were sent are now shown.
LEMMA BalancesShown ==
    ASSUME TalkInv, Deliver, Head(toPage).type = "balances", updateBalances(Head(toPage))
    PROVE  TalkInv'
<1> DEFINE m == Head(toPage)
<1>1. PageInv /\ ToldInv /\ OrdersInv
  BY DEF TalkInv
<1>2. balances' = {m.ui} /\ UNCHANGED <<rows, transactions, pendingOrders, hint, market>>
  BY DEF updateBalances
<1> HIDE DEF m
<1>3. PageInv'
  <2>1. Cardinality(balances') <= 1
    BY <1>2, FS_Singleton
  <2> QED
    BY <1>1, <1>2, <2>1, DeliverDoes DEF PageInv, PageTypeOK
<1>4. OrdersInv'
  <2>1. Acks(toPage') = Acks(toPage)
    BY DeliverDoes
  <2> QED
    BY <1>1, <1>2, <2>1, DeliverDoes, OrdersKept, PlacedLengths
<1>5. ToldInv'
  <2> SUFFICES ASSUME socket' = "open", ~missed', ~dynamicWalletUpdated'
               PROVE  \/ IsLatest(toPage', Shown)
                      \/ balances' = {Shown} /\ NoBalances(toPage')
    BY DeliverDoes DEF ToldInv, IsLatest, NoBalances, Shown
  <2>1. IsLatest(toPage, Shown) \/ NoBalances(toPage)
    BY <1>1, DeliverDoes DEF ToldInv
  <2> QED
    BY <1>2, <2>1, DeliverDoes DEF m
<1> QED
  BY <1>3, <1>4, <1>5, DeliverDoes DEF TalkInv

\* The other messages do not change the balances.
LEMMA ToldOnDelivery ==
    ASSUME TalkInv, Deliver, Head(toPage).type # "balances", UNCHANGED balances
    PROVE  ToldInv'
<1>1. ToldInv
  BY DEF TalkInv
<1> QED
  BY <1>1, DeliverDoes, ToldKept

\* A hint changes neither orders nor balances.
LEMMA HintShown ==
    ASSUME TalkInv, Deliver, Head(toPage).type = "price_hint", priceHint(Head(toPage))
    PROVE  TalkInv'
<1>1. PageInv /\ OrdersInv
  BY DEF TalkInv
<1>2. /\ UNCHANGED <<rows, transactions, pendingOrders, balances, market>>
      /\ Cardinality(hint') = 1
  BY FS_Singleton DEF priceHint
<1>3. PageInv'
  <2>1. Cardinality(hint') <= 1
    BY <1>2
  <2> QED
    BY <1>1, <1>2, <2>1, DeliverDoes DEF PageInv, PageTypeOK
<1>4. OrdersInv'
  <2>1. Acks(toPage') = Acks(toPage)
    BY DeliverDoes
  <2> QED
    BY <1>1, <1>2, <2>1, DeliverDoes, OrdersKept, PlacedLengths
<1> QED
  BY <1>2, <1>3, <1>4, DeliverDoes, ToldOnDelivery DEF TalkInv

\* An answer: it shows on the row that waits for its key.
LEMMA AckShown ==
    ASSUME TalkInv, Deliver, Head(toPage).type = "order_ack", handleOrderAck(Head(toPage))
    PROVE  TalkInv'
<1> DEFINE m == Head(toPage)
<1>1. PageInv /\ OrdersInv
  BY DEF TalkInv
<1>2. m \in AckMessage
  <2>1. m \in PageMessage
    BY DeliverDoes
  <2> QED
    BY <2>1 DEF PageMessage, OtherPageMessage
<1>3. m.status \in {"Pending", "Rejected"}
  BY <1>2 DEF AckMessage
<1>4. Acks(toPage) = Acks(toPage') \cup {m}
  BY DeliverDoes
<1>5. handleOrderAck(m)
  OBVIOUS
<1> HIDE DEF m
<1>6. UNCHANGED <<transactions, balances, hint, market>>
  BY <1>5 DEF handleOrderAck
<1>7. /\ DOMAIN pendingOrders' = DOMAIN pendingOrders \ {Key(m)}
      /\ \A key \in DOMAIN pendingOrders' : pendingOrders'[key] = pendingOrders[key]
  <2>1. CASE Key(m) \in DOMAIN pendingOrders
    BY <1>5, <2>1 DEF handleOrderAck
  <2>2. CASE Key(m) \notin DOMAIN pendingOrders
    BY <1>5, <2>2 DEF handleOrderAck
  <2> QED
    BY <2>1, <2>2
<1>8. /\ rows' \in Seq(PageRow) /\ DOMAIN rows' = DOMAIN rows
      /\ \A n \in DOMAIN rows :
          /\ rows'[n].order = rows[n].order
          /\ rows'[n].status =
               IF Key(m) \in DOMAIN pendingOrders /\ n = pendingOrders[Key(m)]
               THEN m.status ELSE rows[n].status
  <2>1. /\ rows \in Seq(PageRow) /\ Len(rows) \in Nat /\ DOMAIN rows = 1..Len(rows)
        /\ \A n \in DOMAIN rows : rows[n] \in PageRow
    BY <1>1 DEF PageInv
  <2>2. CASE Key(m) \in DOMAIN pendingOrders
    <3> DEFINE r == pendingOrders[Key(m)]
               e == [rows[r] EXCEPT !.status = m.status]
    <3>1. r \in DOMAIN rows /\ rows' = [rows EXCEPT ![r] = e]
      BY <1>1, <1>5, <2>2 DEF handleOrderAck, PageInv, PageTypeOK
    <3>2. e \in PageRow /\ e.order = rows[r].order /\ e.status = m.status
      BY <1>3, <2>1, <3>1 DEF PageRow
    <3> HIDE DEF e, r
    <3>3. rows' \in [1..Len(rows) -> PageRow]
      BY <2>1, <3>1, <3>2
    <3>4. rows' \in Seq(PageRow) /\ DOMAIN rows' = DOMAIN rows
      BY <2>1, <3>3
    <3>5. \A n \in DOMAIN rows : rows'[n] = IF n = r THEN e ELSE rows[n]
      BY <3>1
    <3> QED
      BY <2>2, <3>1, <3>2, <3>4, <3>5 DEF r
  <2>3. CASE Key(m) \notin DOMAIN pendingOrders
    BY <1>5, <2>1, <2>3 DEF handleOrderAck
  <2> QED
    BY <2>2, <2>3
<1>9. OrdersInv'
  BY <1>1, <1>2, <1>4, <1>7, <1>8, DeliverDoes, OrderAcked, PlacedLengths
<1>10. PageInv'
  <2>1. \A n \in DOMAIN rows' :
          rows'[n].status \in {"Pending", "Filled", "Rejected", "No Connection"}
    BY <1>1, <1>3, <1>8 DEF PageInv, PageTypeOK
  <2>2. \A key \in DOMAIN pendingOrders' :
          /\ pendingOrders'[key] \in DOMAIN rows' /\ pendingOrders'[key] \in Nat
          /\ rows'[pendingOrders'[key]].order # 0
    BY <1>1, <1>7, <1>8 DEF PageInv, PageTypeOK
  <2> QED
    BY <1>1, <1>6, <1>8, <2>1, <2>2, DeliverDoes DEF PageInv, PageTypeOK
<1> QED
  BY <1>6, <1>9, <1>10, DeliverDoes, ToldOnDelivery DEF TalkInv, m

\* A trade: it fills a pending row, or makes one of no order.
LEMMA TradeShown ==
    ASSUME TalkInv, Deliver, Head(toPage).type = "trade", addTransaction(Head(toPage))
    PROVE  TalkInv'
<1> DEFINE m == Head(toPage)
<1>1. PageInv /\ OrdersInv
  BY DEF TalkInv
<1>2. /\ m.side \in Side /\ m.product \in Nat /\ m.price \in Int /\ m.amount \in Int
  <2>1. m \in PageMessage
    BY DeliverDoes
  <2> QED
    BY <2>1 DEF PageMessage, OtherPageMessage, AckMessage
<1>3. addTransaction(m)
  OBVIOUS
<1>4. Acks(toPage') = Acks(toPage)
  BY DeliverDoes
<1> HIDE DEF m
<1>5. /\ rows \in Seq(PageRow) /\ Len(rows) \in Nat /\ DOMAIN rows = 1..Len(rows)
      /\ \A n \in DOMAIN rows : rows[n] \in PageRow
  BY <1>1 DEF PageInv
<1>6. UNCHANGED <<pendingOrders, balances, hint, market>>
  BY <1>3 DEF addTransaction
<1>7. /\ transactions \in Seq(Nat) /\ Len(transactions) <= HistoryLength
      /\ \A k \in DOMAIN transactions : transactions[k] \in DOMAIN rows
  BY <1>1 DEF PageInv, PageTypeOK
<1>8. /\ rows' \in Seq(PageRow) /\ DOMAIN rows \subseteq DOMAIN rows'
      /\ \A n \in DOMAIN rows :
          /\ rows'[n].order = rows[n].order
          /\ \/ rows'[n].status = rows[n].status
             \/ rows[n].status = "Pending" /\ rows'[n].status = "Filled"
      /\ \A n \in DOMAIN rows' :
          n \notin DOMAIN rows => rows'[n].order = 0 /\ rows'[n].status = "Filled"
      /\ transactions' \in Seq(Nat) /\ Len(transactions') <= HistoryLength
      /\ \A k \in DOMAIN transactions' : transactions'[k] \in DOMAIN rows'
  <2>1. CASE PendingRows(m) # {}
    <3> DEFINE r == transactions[Min(PendingRows(m))]
               e == Row(m, "Filled", rows[r].order)
    <3>1. PendingRows(m) \subseteq DOMAIN transactions /\ DOMAIN transactions \subseteq Nat
      BY <1>7 DEF PendingRows
    <3>2. Min(PendingRows(m)) \in PendingRows(m)
      BY <2>1, <3>1, MinProperties
    <3>3. r \in DOMAIN rows /\ rows[r].status = "Pending"
      BY <1>7, <3>1, <3>2 DEF PendingRows
    <3>4. rows' = [rows EXCEPT ![r] = e] /\ UNCHANGED transactions
      BY <1>3, <2>1, <3>3 DEF addTransaction
    <3>5. e \in PageRow /\ e.order = rows[r].order /\ e.status = "Filled"
      BY <1>2, <1>5, <3>3 DEF Row, PageRow
    <3> HIDE DEF e, r
    <3>6. rows' \in [1..Len(rows) -> PageRow]
      BY <1>5, <3>4, <3>5
    <3>7. rows' \in Seq(PageRow) /\ DOMAIN rows' = DOMAIN rows
      BY <1>5, <3>6
    <3>8. \A n \in DOMAIN rows : rows'[n] = IF n = r THEN e ELSE rows[n]
      BY <3>4
    <3>9. \A n \in DOMAIN rows :
            /\ rows'[n].order = rows[n].order
            /\ \/ rows'[n].status = rows[n].status
               \/ rows[n].status = "Pending" /\ rows'[n].status = "Filled"
      BY <3>3, <3>5, <3>8
    <3>10. \A n \in DOMAIN rows' :
             n \notin DOMAIN rows => rows'[n].order = 0 /\ rows'[n].status = "Filled"
      BY <3>7
    <3>11. \A k \in DOMAIN transactions' : transactions'[k] \in DOMAIN rows'
      BY <1>7, <3>4, <3>7
    <3>12. transactions' \in Seq(Nat) /\ Len(transactions') <= HistoryLength
      BY <1>7, <3>4
    <3>13. DOMAIN rows \subseteq DOMAIN rows'
      BY <3>7
    <3> QED
      BY <3>7, <3>9, <3>10, <3>11, <3>12, <3>13
  <2>2. CASE PendingRows(m) = {}
    <3> DEFINE e == Row(m, "Filled", 0)
    <3>1. rows' = Append(rows, e) /\ transactions' = WithNewest(Len(rows'))
      BY <1>3, <2>2 DEF addTransaction
    <3>2. e \in PageRow /\ e.order = 0 /\ e.status = "Filled"
      BY <1>2 DEF Row, PageRow
    <3> HIDE DEF e
    <3>3. /\ DOMAIN rows' = 1..(Len(rows) + 1) /\ Len(rows') = Len(rows) + 1
          /\ \A n \in DOMAIN rows : rows'[n] = rows[n]
          /\ rows'[Len(rows) + 1] = e
      BY <1>1, <3>1, <3>2, RowJoins
    <3>4. rows' \in Seq(PageRow)
      BY <1>1, <3>1, <3>2, RowJoins
    <3>5. Len(rows') \in Nat /\ Len(rows') \in DOMAIN rows' /\ DOMAIN rows \subseteq DOMAIN rows'
      BY <1>5, <3>3
    <3>6. /\ transactions' \in Seq(Nat) /\ Len(transactions') <= HistoryLength
          /\ \A k \in DOMAIN transactions' : transactions'[k] = Len(rows')
               \/ \E l \in DOMAIN transactions : transactions'[k] = transactions[l]
      BY <1>7, <3>1, <3>5, HistoryGrows
    <3>7. \A k \in DOMAIN transactions' : transactions'[k] \in DOMAIN rows'
      BY <1>7, <3>5, <3>6
    <3>8. \A n \in DOMAIN rows' : n \notin DOMAIN rows => rows'[n] = e
      BY <1>5, <3>3
    <3>9. \A n \in DOMAIN rows :
            /\ rows'[n].order = rows[n].order
            /\ \/ rows'[n].status = rows[n].status
               \/ rows[n].status = "Pending" /\ rows'[n].status = "Filled"
      BY <3>3
    <3>10. \A n \in DOMAIN rows' :
             n \notin DOMAIN rows => rows'[n].order = 0 /\ rows'[n].status = "Filled"
      BY <3>2, <3>8
    <3> QED
      BY <3>4, <3>5, <3>6, <3>7, <3>9, <3>10
  <2> QED
    BY <2>1, <2>2
<1>9. OrdersInv'
  <2>1. /\ \A n \in DOMAIN rows :
             /\ rows'[n].order = rows[n].order
             /\ rows'[n].status = "Rejected" <=> rows[n].status = "Rejected"
        /\ \A n \in DOMAIN rows' : n \notin DOMAIN rows => rows'[n].order = 0
        /\ DOMAIN rows \subseteq DOMAIN rows'
    BY <1>8
  <2> QED
    BY <1>1, <1>4, <1>6, <2>1, DeliverDoes, RowTraded, PlacedLengths
<1>10. PageInv'
  <2>1. \A n \in DOMAIN rows' :
          rows'[n].status \in {"Pending", "Filled", "Rejected", "No Connection"}
    BY <1>1, <1>8 DEF PageInv, PageTypeOK
  <2>2. \A key \in DOMAIN pendingOrders' :
          /\ pendingOrders'[key] \in DOMAIN rows' /\ pendingOrders'[key] \in Nat
          /\ rows'[pendingOrders'[key]].order # 0
    BY <1>1, <1>6, <1>8 DEF PageInv, PageTypeOK
  <2> QED
    BY <1>1, <1>6, <1>8, <2>1, <2>2, DeliverDoes DEF PageInv, PageTypeOK
<1> QED
  BY <1>6, <1>9, <1>10, DeliverDoes, ToldOnDelivery DEF TalkInv, m

\* The page takes any message.
LEMMA DeliverKeeps ==
    ASSUME TalkInv, Deliver
    PROVE  TalkInv'
BY DeliverDoes, BalancesShown, TradeShown, AckShown, HintShown DEF onmessage

-----------------------------------------------------------------------------
(* The server handles a message *)

\* A change of the market is answered with a hint at most.
LEMMA ChangeMarketKeeps ==
    ASSUME ServerInv, TalkInv, HandleChangeMarket
    PROVE  TalkInv'
<1>1. LinkInv /\ PageInv /\ ToldInv /\ OrdersInv
  BY DEF TalkInv
<1>2. /\ Receive("change_market") /\ toPage' = toPage \o HintFor(orders, Head(toServer).product)
      /\ UNCHANGED <<pc, ui, pageVars, socket, missed, mine, dynamicWalletUpdated, placed>>
  BY DEF HandleChangeMarket, Receive, vars, serverVars
<1>3. /\ socket = "open" /\ Head(toServer).product \in PageProduct
      /\ toServer' \in Seq(ServerMessage) /\ Submits(toServer') = Submits(toServer)
      /\ InOrder(toServer) => InOrder(toServer')
  <2>1. LinkInv /\ Receive("change_market")
    BY <1>1, <1>2
  <2> QED
    BY <2>1, HeadReceived
<1>4. /\ toPage' \in Seq(PageMessage) /\ Acks(toPage') = Acks(toPage)
      /\ NoBalances(toPage) => NoBalances(toPage')
      /\ IsLatest(toPage, Shown) => IsLatest(toPage', Shown)
  <2>1. orders \in Seq(Entry) /\ toPage \in Seq(PageMessage)
    BY <1>1 DEF LinkInv, ServerInv, TypeOK, BookTypeOK
  <2> QED
    BY <1>2, <1>3, <2>1, HintJoins
<1>5. LinkInv'
  BY <1>1, <1>2, <1>3, <1>4 DEF LinkInv
<1>6. PageInv'
  BY <1>1, <1>2, PageKept DEF PageInv
<1>7. ToldInv'
  BY <1>1, <1>2, <1>4, ToldKept DEF pageVars
<1>8. OrdersInv'
  BY <1>1, <1>2, <1>3, <1>4, OrdersKept, PlacedLengths DEF pageVars
<1> QED
  BY <1>5, <1>6, <1>7, <1>8 DEF TalkInv

\* A frame begins for the connection that asked for it.
LEMMA HandleNextTimeframeKeeps ==
    ASSUME TalkInv, HandleNextTimeframe
    PROVE  TalkInv'
<1>1. LinkInv /\ PageInv /\ ToldInv /\ OrdersInv
  BY DEF TalkInv
<1>2. /\ Receive("next_timeframe") /\ pc' = "frame" /\ mine' = TRUE
      /\ dynamicWalletUpdated' = FALSE
      /\ UNCHANGED <<ui, pageVars, socket, missed, toPage, placed>>
  BY DEF HandleNextTimeframe, NextTimeframe, Receive
<1>3. /\ socket = "open" /\ pc = "idle"
      /\ toServer' \in Seq(ServerMessage) /\ Submits(toServer') = Submits(toServer)
      /\ InOrder(toServer) => InOrder(toServer')
  <2>1. LinkInv /\ Receive("next_timeframe")
    BY <1>1, <1>2
  <2> QED
    BY <2>1, HeadReceived
<1>4. LinkInv'
  BY <1>1, <1>2, <1>3 DEF LinkInv
<1>5. PageInv'
  BY <1>1, <1>2, PageKept DEF PageInv
<1>6. ToldInv'
  BY <1>1, <1>2, <1>3, ToldKept DEF pageVars, LinkInv
<1>7. OrdersInv'
  BY <1>1, <1>2, <1>3, OrdersKept, PlacedLengths DEF pageVars
<1> QED
  BY <1>4, <1>5, <1>6, <1>7 DEF TalkInv

\* A submission is answered, or its handler throws.
LEMMA SubmissionHandled ==
    ASSUME TalkInv, Receive("submit_order"), UNCHANGED <<pc, ui, mine, dynamicWalletUpdated>>,
           NEW f \in {"accepted", "rejected", "thrown"},
           toPage' \in Seq(PageMessage),
           Acks(toPage') = Acks(toPage) \cup Answers(Head(toServer), f),
           NoBalances(toPage) => NoBalances(toPage'),
           IsLatest(toPage, Shown) => IsLatest(toPage', Shown),
           placed' \in Seq(PlacedOrder), Decides(Head(toServer).order, f)
    PROVE  TalkInv'
<1> DEFINE m == Head(toServer)
<1>1. LinkInv /\ PageInv /\ ToldInv /\ OrdersInv
  BY DEF TalkInv
<1>2. UNCHANGED <<pageVars, socket, missed>>
  BY DEF Receive
<1>3. /\ m \in SubmitMessage /\ toServer' \in Seq(ServerMessage) /\ socket = "open"
      /\ Submits(toServer) = Submits(toServer') \cup {m}
      /\ InOrder(toServer) => InOrder(toServer')
      /\ InOrder(toServer) => \A x \in Submits(toServer') : x.order > m.order
  BY <1>1, HeadOfQueue
<1>4. Acks(toPage') = Acks(toPage) \cup Answers(m, f) /\ Decides(m.order, f)
  OBVIOUS
<1> HIDE DEF m
<1>5. InOrder(toServer') /\ \A x \in Submits(toServer') : x.order > m.order
  BY <1>1, <1>3 DEF OrdersInv, SentInv
<1>6. LinkInv'
  BY <1>1, <1>2, <1>3 DEF LinkInv
<1>7. PageInv'
  BY <1>1, <1>2, PageKept
<1>8. ToldInv'
  BY <1>1, <1>2, ToldKept DEF pageVars
<1>9. OrdersInv'
  <2>1. UNCHANGED <<rows, pendingOrders, socket>>
    BY <1>2 DEF pageVars
  <2>2. Len(placed) \in Nat /\ DOMAIN placed = 1..Len(placed)
    BY <1>1, PlacedLengths
  <2>3. OrdersInv
    BY <1>1
  <2> QED
    BY <1>3, <1>4, <1>5, <2>1, <2>2, <2>3, OrderHandled
<1> QED
  BY <1>6, <1>7, <1>8, <1>9 DEF TalkInv

\* The order of the first submission is one the page has placed.
LEMMA HeadPlaced ==
    ASSUME TalkInv, Receive("submit_order")
    PROVE  PageInv /\ Head(toServer) \in SubmitMessage /\ Head(toServer).order \in DOMAIN placed
<1>1. LinkInv /\ PageInv /\ OrdersInv
  BY DEF TalkInv
<1>2. Head(toServer) \in SubmitMessage /\ Head(toServer) \in Submits(toServer)
  BY <1>1, HeadOfQueue
<1> QED
  BY <1>1, <1>2 DEF OrdersInv, SentInv

\* The answer to a submission.
LEMMA AckType ==
    ASSUME NEW m \in SubmitMessage, NEW status \in {"Pending", "Rejected"}
    PROVE  AckOf(m, status) \in PageMessage /\ AckOf(m, status).type = "order_ack"
BY DEF AckOf, SubmitMessage, PageMessage, AckMessage

\* An order that enters the book is answered, and its market's prices may follow.
LEMMA AcceptedKeeps ==
    ASSUME ServerInv, ServerInv', TalkInv, HandleAccepted
    PROVE  TalkInv'
<1> DEFINE m == Head(toServer)
           a == AckOf(m, "Pending")
<1>1. LinkInv /\ Receive("submit_order")
  BY DEF TalkInv, HandleAccepted
<1>2. m \in SubmitMessage
  BY <1>1, HeadOfQueue
<1>3. a \in PageMessage /\ a.type = "order_ack"
  BY <1>2, AckType
<1>4. /\ toPage' = toPage \o <<a>> \o HintFor(orders', m.product)
      /\ UNCHANGED <<pc, ui, mine, dynamicWalletUpdated>>
      /\ placed' = [placed EXCEPT ![m.order].fate = "accepted",
                                  ![m.order].id = FirstUserId + submitted]
  BY DEF HandleAccepted, SubmitOrder, serverVars
<1> HIDE DEF a
<1>5. toPage \in Seq(PageMessage) /\ toPage \o <<a>> = Append(toPage, a)
  BY <1>1, <1>3 DEF LinkInv
<1>6. /\ toPage \o <<a>> \in Seq(PageMessage) /\ Acks(toPage \o <<a>>) = Acks(toPage) \cup {a}
      /\ NoBalances(toPage) => NoBalances(toPage \o <<a>>)
      /\ IsLatest(toPage, Shown) => IsLatest(toPage \o <<a>>, Shown)
  BY <1>3, <1>5, PageAppend
<1>7. orders' \in Seq(Entry)
  BY DEF ServerInv, TypeOK, BookTypeOK
<1>8. m.product \in PageProduct
  BY <1>2 DEF SubmitMessage
<1> HIDE DEF m
<1>9. /\ toPage' \in Seq(PageMessage) /\ Acks(toPage') = Acks(toPage \o <<a>>)
      /\ NoBalances(toPage \o <<a>>) => NoBalances(toPage')
      /\ IsLatest(toPage \o <<a>>, Shown) => IsLatest(toPage', Shown)
  BY <1>4, <1>6, <1>7, <1>8, HintJoins
<1>10. FirstUserId + submitted \in Nat
  BY DEF ServerInv, TypeOK, FirstUserId
<1>11. Acks(toPage') = Acks(toPage) \cup Answers(m, "accepted")
  BY <1>6, <1>9 DEF a, Answers
<1>12. placed' \in Seq(PlacedOrder) /\ Decides(m.order, "accepted")
  <2>1. PageInv /\ m.order \in DOMAIN placed /\ "accepted" \in Fate
    BY <1>1, HeadPlaced DEF m, Fate
  <2> QED
    BY <1>4, <1>10, <2>1, DecidedOrders
<1> QED
  BY <1>1, <1>4, <1>6, <1>9, <1>11, <1>12, SubmissionHandled DEF m

\* One the wallet cannot cover is answered and changes nothing else.
LEMMA RejectedKeeps ==
    ASSUME TalkInv, HandleRejected
    PROVE  TalkInv'
<1> DEFINE m == Head(toServer)
           a == AckOf(m, "Rejected")
<1>1. LinkInv /\ Receive("submit_order")
  BY DEF TalkInv, HandleRejected
<1>2. m \in SubmitMessage
  BY <1>1, HeadOfQueue
<1>3. a \in PageMessage /\ a.type = "order_ack"
  BY <1>2, AckType
<1>4. /\ toPage' = Append(toPage, a)
      /\ UNCHANGED <<pc, ui, mine, dynamicWalletUpdated>>
      /\ placed' = [placed EXCEPT ![m.order].fate = "rejected"]
  BY DEF HandleRejected, vars, serverVars
<1> HIDE DEF a, m
<1>5. toPage \in Seq(PageMessage)
  BY <1>1 DEF LinkInv
<1>6. /\ toPage' \in Seq(PageMessage) /\ Acks(toPage') = Acks(toPage) \cup {a}
      /\ NoBalances(toPage) => NoBalances(toPage')
      /\ IsLatest(toPage, Shown) => IsLatest(toPage', Shown)
  BY <1>3, <1>4, <1>5, PageAppend
<1>7. Acks(toPage') = Acks(toPage) \cup Answers(m, "rejected")
  BY <1>6 DEF a, Answers
<1>8. placed' \in Seq(PlacedOrder) /\ Decides(m.order, "rejected")
  <2>1. PageInv /\ m.order \in DOMAIN placed /\ "rejected" \in Fate /\ 0 \in Nat
    BY <1>1, HeadPlaced DEF m, Fate
  <2> QED
    BY <1>4, <2>1, DecidedOrders
<1> QED
  BY <1>1, <1>4, <1>6, <1>7, <1>8, SubmissionHandled DEF m

\* A handler that throws answers nothing.
LEMMA ThrownKeeps ==
    ASSUME TalkInv, HandleThrows
    PROVE  TalkInv'
<1>1. LinkInv /\ Receive("submit_order")
  BY DEF TalkInv, HandleThrows
<1>2. /\ UNCHANGED <<pc, ui, toPage, mine, dynamicWalletUpdated>>
      /\ placed' = [placed EXCEPT ![Head(toServer).order].fate = "thrown"]
  BY DEF HandleThrows, vars, serverVars
<1>3. /\ toPage' \in Seq(PageMessage)
      /\ Acks(toPage') = Acks(toPage) \cup Answers(Head(toServer), "thrown")
      /\ NoBalances(toPage) => NoBalances(toPage')
      /\ IsLatest(toPage, Shown) => IsLatest(toPage', Shown)
  BY <1>1, <1>2 DEF LinkInv, Answers
<1>4. placed' \in Seq(PlacedOrder) /\ Decides(Head(toServer).order, "thrown")
  <2>1. PageInv /\ Head(toServer).order \in DOMAIN placed /\ "thrown" \in Fate /\ 0 \in Nat
    BY <1>1, HeadPlaced DEF Fate
  <2> QED
    BY <1>2, <2>1, DecidedOrders
<1> QED
  BY <1>1, <1>2, <1>3, <1>4, SubmissionHandled

\* Whatever it handles, the server keeps its talk with the page in order.
LEMMA HandleKeeps ==
    ASSUME ServerInv, ServerInv', TalkInv, Handle
    PROVE  TalkInv'
BY ChangeMarketKeeps, AcceptedKeeps, RejectedKeeps, ThrownKeeps, HandleNextTimeframeKeeps
   DEF Handle

-----------------------------------------------------------------------------
(* The frame that runs *)

\* What a step of a frame leaves to show: how it affects the connection and what the
\* page is told.
LEMMA FrameStepKeeps ==
    ASSUME TalkInv, UNCHANGED <<pageVars, toServer, socket>>, LinkInv', ToldInv',
           Acks(toPage') = Acks(toPage),
           placed' = placed \/ placed' = MarkTraded(placed)
    PROVE  TalkInv'
<1>1. PageInv /\ OrdersInv
  BY DEF TalkInv
<1>2. /\ placed' \in Seq(PlacedOrder) /\ DOMAIN placed' = DOMAIN placed
      /\ Len(placed') = Len(placed)
      /\ \A k \in DOMAIN placed : /\ placed'[k].key = placed[k].key
                                  /\ placed'[k].fate = placed[k].fate
  <2>1. CASE placed' = placed
    BY <1>1, <2>1 DEF PageInv
  <2>2. CASE placed' = MarkTraded(placed)
    BY <1>1, <2>2, TradedOrders
  <2> QED
    BY <2>1, <2>2
<1>3. PageInv'
  BY <1>1, <1>2, PageKept
<1>4. OrdersInv'
  <2>1. /\ UNCHANGED <<rows, pendingOrders, toServer, socket>>
        /\ Len(placed) \in Nat /\ DOMAIN placed = 1..Len(placed)
    BY <1>1, PlacedLengths DEF pageVars
  <2> QED
    BY <1>1, <1>2, <2>1, OrdersKept
<1> QED
  BY <1>3, <1>4 DEF TalkInv

\* What a frame sends reaches the queue if its connection is there.
LEMMA FrameSent ==
    ASSUME LinkInv, NEW m \in PageMessage, m.type # "order_ack", FrameSends(m)
    PROVE  /\ toPage' \in Seq(PageMessage) /\ Acks(toPage') = Acks(toPage)
           /\ socket # "open" => toPage' = <<>>
           /\ m.type # "balances" =>
                /\ NoBalances(toPage) => NoBalances(toPage')
                /\ \A u : IsLatest(toPage, u) => IsLatest(toPage', u)
           /\ m.type = "balances" /\ mine => IsLatest(toPage', m.ui)
<1>1. toPage \in Seq(PageMessage)
  BY DEF LinkInv
<1>2. CASE mine
  <2>1. toPage' = Append(toPage, m) /\ socket = "open"
    BY <1>2 DEF FrameSends, LinkInv
  <2> QED
    BY <1>1, <2>1, PageAppend
<1>3. CASE ~mine
  <2>1. toPage' = toPage
    BY <1>3 DEF FrameSends
  <2> QED
    BY <1>1, <1>3, <2>1 DEF LinkInv
<1> QED
  BY <1>2, <1>3

\* The steps inside a match send nothing.
LEMMA MatchSendsKeeps ==
    ASSUME TalkInv, MatchSends
    PROVE  TalkInv'
<1>1. LinkInv /\ ToldInv /\ PageInv
  BY DEF TalkInv
<1>2. /\ UNCHANGED <<pc, ui>>
      /\ UNCHANGED <<pageVars, toServer, toPage, socket, mine, dynamicWalletUpdated, placed,
                     missed>>
  BY DEF MatchSends, MatchProduct, MatchStep, MatchReturn, serverVars, linkVars, logVars
<1>3. LinkInv'
  BY <1>1, <1>2 DEF LinkInv
<1>4. ToldInv'
  BY <1>1, <1>2, ToldKept DEF pageVars
<1> QED
  BY <1>2, <1>3, <1>4, FrameStepKeeps

\* A sale that is settled is told, and marks the wallet if it is the user's.
LEMMA SettleSendsKeeps ==
    ASSUME ServerInv, TalkInv, SettleSends
    PROVE  TalkInv'
<1>1. LinkInv /\ ToldInv
  BY DEF TalkInv
<1>2. /\ SettleSale /\ pc' = "frame" /\ FrameSends(TradeMessage)
      /\ dynamicWalletUpdated' = (dynamicWalletUpdated \/ sale.username = "simuser")
      /\ placed' = MarkTraded(placed)
      /\ UNCHANGED <<pageVars, toServer, socket, mine, missed>>
  BY DEF SettleSends
<1>3. pc = "frame" /\ returned /\ sales # <<>>
  BY <1>2 DEF SettleSale
<1>4. TradeMessage \in PageMessage /\ TradeMessage.type = "trade"
  <2>1. sale \in Sale /\ call.product \in DOMAIN Quote
    BY <1>3, SaleTypes
  <2>2. sale.price \in Int /\ sale.amount \in Int /\ call.product \in Nat
    BY <2>1, ProductAssumption DEF Sale
  <2> HIDE DEF sale
  <2> QED
    BY <2>2 DEF TradeMessage, PageMessage, OtherPageMessage, Side
<1>5. /\ toPage' \in Seq(PageMessage) /\ Acks(toPage') = Acks(toPage)
      /\ socket # "open" => toPage' = <<>>
      /\ NoBalances(toPage) => NoBalances(toPage')
      /\ IsLatest(toPage, Shown) => IsLatest(toPage', Shown)
  BY <1>1, <1>2, <1>4, FrameSent
<1>6. dynamicWalletUpdated' \in BOOLEAN /\ dynamicWalletUpdated \in BOOLEAN
  BY <1>1, <1>2 DEF LinkInv
<1>7. LinkInv'
  BY <1>1, <1>2, <1>5, <1>6 DEF LinkInv
<1>8. ToldInv'
  <2>1. CASE sale.username = "simuser"
    <3>1. dynamicWalletUpdated'
      BY <1>2, <2>1
    <3> QED
      BY <3>1 DEF ToldInv
  <2>2. CASE sale.username # "simuser"
    <3>1. UNCHANGED ui
      BY <1>2, <2>2 DEF SettleSale, SkipSale, SettleBuy, SettleSell, SettleSellAborts
    <3> QED
      BY <1>1, <1>2, <1>5, <2>2, <3>1, ToldKept DEF pageVars
  <2> QED
    BY <2>1, <2>2
<1> QED
  BY <1>2, <1>5, <1>7, <1>8, FrameStepKeeps

\* A frame that throws is over, and the balances it moved will not be told.
LEMMA FrameThrowsKeeps ==
    ASSUME TalkInv, FrameThrows
    PROVE  TalkInv'
<1>1. LinkInv /\ ToldInv
  BY DEF TalkInv
<1>2. /\ pc' = "idle" /\ missed' = (missed \/ dynamicWalletUpdated \/ ui' # ui)
      /\ mine' = FALSE /\ dynamicWalletUpdated' = FALSE
      /\ UNCHANGED <<pageVars, toServer, toPage, socket, placed>>
  BY DEF FrameThrows, FrameLeft, BareProductAborts
<1>3. missed \in BOOLEAN /\ dynamicWalletUpdated \in BOOLEAN
  BY <1>1 DEF LinkInv
<1>4. LinkInv'
  BY <1>1, <1>2, <1>3 DEF LinkInv
<1>5. ToldInv'
  <2>1. CASE UNCHANGED ui
    BY <1>1, <1>2, <1>3, <2>1, ToldKept DEF pageVars
  <2>2. CASE ui' # ui
    BY <1>2, <2>2 DEF ToldInv
  <2> QED
    BY <2>1, <2>2
<1> QED
  BY <1>2, <1>4, <1>5, FrameStepKeeps

\* A frame that ends tells the balances it has moved to its own connection.
LEMMA AdvanceSendsKeeps ==
    ASSUME ServerInv, TalkInv, AdvanceSends
    PROVE  TalkInv'
<1>1. LinkInv /\ ToldInv
  BY DEF TalkInv
<1>2. /\ UNCHANGED ui /\ mine' = FALSE /\ dynamicWalletUpdated' = FALSE
      /\ UNCHANGED <<pageVars, toServer, socket, placed>>
      /\ IF dynamicWalletUpdated
         THEN FrameSends(BalancesMessage) /\ missed' = ~mine
         ELSE UNCHANGED <<toPage, missed>>
  BY DEF AdvanceSends, FrameLeft, AdvanceTime, AdvanceTimeOfEmptyBook
<1>3. CASE dynamicWalletUpdated
  <2>1. FrameSends(BalancesMessage) /\ missed' = ~mine
    BY <1>2, <1>3
  <2>2. /\ BalancesMessage \in PageMessage /\ BalancesMessage.type = "balances"
        /\ BalancesMessage.ui = Shown
    BY BalancesType
  <2>3. /\ toPage' \in Seq(PageMessage) /\ Acks(toPage') = Acks(toPage)
        /\ socket # "open" => toPage' = <<>>
        /\ mine => IsLatest(toPage', Shown)
    <3> HIDE DEF BalancesMessage
    <3>1. BalancesMessage.type # "order_ack"
      BY <2>2
    <3> QED
      BY <1>1, <2>1, <2>2, <3>1, FrameSent
  <2>4. LinkInv'
    BY <1>1, <1>2, <2>1, <2>3 DEF LinkInv
  <2>5. ToldInv'
    <3>1. Shown' = Shown
      BY <1>2 DEF Shown
    <3>2. mine => IsLatest(toPage, Shown)'
      BY <2>3, <3>1 DEF IsLatest
    <3> QED
      BY <2>1, <3>2 DEF ToldInv
  <2> QED
    BY <1>2, <2>3, <2>4, <2>5, FrameStepKeeps
<1>4. CASE ~dynamicWalletUpdated
  <2>1. UNCHANGED <<toPage, missed>>
    BY <1>2, <1>4
  <2>2. LinkInv'
    BY <1>1, <1>2, <2>1 DEF LinkInv
  <2>3. ToldInv'
    BY <1>1, <1>2, <1>4, <2>1, ToldKept DEF pageVars
  <2> QED
    BY <1>2, <2>1, <2>2, <2>3, FrameStepKeeps
<1> QED
  BY <1>3, <1>4

\* The process dies, and nothing happens any more.
LEMMA CrashKeeps ==
    ASSUME TalkInv, Crash
    PROVE  TalkInv'
<1>1. LinkInv /\ ToldInv
  BY DEF TalkInv
<1>2. /\ pc' = "crashed" /\ UNCHANGED ui
      /\ UNCHANGED <<pageVars, toServer, toPage, socket, mine, dynamicWalletUpdated, placed,
                     missed>>
  BY DEF Crash, BareProductCrash, linkVars, logVars
<1>3. LinkInv'
  BY <1>1, <1>2 DEF LinkInv
<1>4. ToldInv'
  BY <1>1, <1>2, ToldKept DEF pageVars
<1> QED
  BY <1>2, <1>3, <1>4, FrameStepKeeps

-----------------------------------------------------------------------------
(* The invariant *)

\* At first the connection is opening and nothing has been said.
LEMMA SessionInvInit == SessionInit => SessionInv
<1> SUFFICES ASSUME SessionInit PROVE SessionInv
  OBVIOUS
<1>1. ServerInv
  BY ServerInvInit DEF SessionInit
<1>2. /\ rows = <<>> /\ transactions = <<>> /\ pendingOrders = <<>> /\ placed = <<>>
      /\ balances = {} /\ hint = {} /\ market = DefaultMarket
      /\ toServer = <<>> /\ toPage = <<>> /\ socket = "opening"
      /\ mine = FALSE /\ dynamicWalletUpdated = FALSE /\ missed = FALSE
  BY DEF SessionInit, FreshPage
<1>3. /\ DOMAIN rows = {} /\ DOMAIN transactions = {} /\ DOMAIN pendingOrders = {}
      /\ DOMAIN toServer = {} /\ DOMAIN toPage = {}
  BY <1>2
<1>4. LinkInv
  <2>1. toServer \in Seq(ServerMessage) /\ toPage \in Seq(PageMessage)
    BY <1>2
  <2> QED
    BY <1>2, <2>1 DEF LinkInv
<1>5. PageInv
  <2>1. rows \in Seq(PageRow) /\ placed \in Seq(PlacedOrder) /\ transactions \in Seq(Nat)
    BY <1>2
  <2>2. Cardinality(balances) <= 1 /\ Cardinality(hint) <= 1 /\ Len(transactions) = 0
    BY <1>2, FS_EmptySet
  <2> QED
    BY <1>2, <1>3, <2>1, <2>2, HistoryAssumption, PageAssumption DEF PageInv, PageTypeOK
<1>6. ToldInv
  BY <1>2 DEF ToldInv
<1>7. OrdersInv
  BY <1>3 DEF OrdersInv, RowsInv, SentInv, InOrder, Submits, AckInv, Acks, AwaitedInv, RejectedInv
<1> QED
  BY <1>1, <1>4, <1>5, <1>6, <1>7 DEF SessionInv, TalkInv

\* What the user or the network does keeps it.
LEMMA UserActsKeeps ==
    ASSUME TalkInv, UserActs
    PROVE  TalkInv'
<1>1. ASSUME NEW side \in {"buy", "sell"}, NEW price \in OfferPrices, NEW amount \in OfferAmounts,
             PlaceOrder(side, price, amount)
      PROVE  TalkInv'
  BY <1>1, PlaceOrderKeeps DEF Side
<1> QED
  BY <1>1, ChooseMarketKeeps, ClickKeeps, ReloadKeeps, DisconnectKeeps DEF UserActs

\* What the server does in a frame keeps it.
LEMMA FrameKeeps ==
    ASSUME ServerInv, TalkInv, Frame
    PROVE  TalkInv'
BY MatchSendsKeeps, SettleSendsKeeps, FrameThrowsKeeps, AdvanceSendsKeeps DEF Frame

\* Every step keeps the session's invariant.
LEMMA SessionInvStep == SessionInv /\ [SessionNext]_sessionVars => SessionInv'
<1> SUFFICES ASSUME SessionInv, [SessionNext]_sessionVars PROVE SessionInv'
  OBVIOUS
<1>1. ServerInv /\ TalkInv /\ LinkInv
  BY DEF SessionInv, TalkInv
<1>2. CASE SessionNext
  <2>1. ServerInv'
    BY <1>1, <1>2, SessionStepIsServers, ServerInvStep
  <2>2. TalkInv'
    BY <1>1, <1>2, <2>1, UserActsKeeps, DeliverKeeps, OnOpenKeeps, HandleKeeps, FrameKeeps,
       CrashKeeps DEF SessionNext
  <2> QED
    BY <2>1, <2>2 DEF SessionInv
<1>3. CASE UNCHANGED sessionVars
  <2>1. ServerInv'
    BY <1>1, <1>3, ServerInvStep DEF sessionVars
  <2>2. /\ UNCHANGED <<pc, ui>>
        /\ UNCHANGED <<pageVars, toServer, toPage, socket, mine, dynamicWalletUpdated, placed,
                       missed>>
    BY <1>3 DEF sessionVars, vars, serverVars, linkVars, logVars
  <2>3. LinkInv'
    BY <1>1, <2>2 DEF LinkInv
  <2>4. ToldInv'
    BY <1>1, <2>2, ToldKept DEF pageVars, TalkInv
  <2>5. TalkInv'
    BY <1>1, <2>2, <2>3, <2>4, FrameStepKeeps
  <2> QED
    BY <2>1, <2>5 DEF SessionInv
<1> QED
  BY <1>2, <1>3

\* Whatever the user, the network and the server do, the books of the page's
\* submissions, answers, balances and rows are in order.
THEOREM SessionInvariant == SessionSpec => []SessionInv
BY SessionInvInit, SessionInvStep, PTL DEF SessionSpec

\* The server of a session is the server of Trading: nothing the page or the network
\* does makes it take a step of its own kind, so that all that is proved of Trading
\* (the wallet, the mirror of the balances, the solvency of single orders) holds here.
THEOREM SessionIsTrading == SessionSpec => Spec
<1>1. SessionInit => Init
  BY DEF SessionInit
<1>2. SessionInv /\ [SessionNext]_sessionVars => [Next]_vars
  BY SessionStepIsServers DEF SessionInv, TalkInv, sessionVars
<1> QED
  BY <1>1, <1>2, SessionInvariant, PTL DEF SessionSpec, Spec

\* Type correctness, with the connection's rule that only an open one holds messages.
THEOREM SessionTypeCorrect == SessionSpec => []SessionTypeOK
<1>1. SessionInv => SessionTypeOK
  <2> SUFFICES ASSUME SessionInv PROVE SessionTypeOK
    OBVIOUS
  <2>1. TypeOK /\ LinkInv /\ PageInv
    BY DEF SessionInv, TalkInv, ServerInv
  <2>2. \A k \in DOMAIN placed : placed[k].fate \in Fate
    BY <2>1, PlacedLengths DEF PlacedOrder
  <2> QED
    BY <2>1, <2>2 DEF SessionTypeOK, LinkInv, PageInv, Fate
<1> QED
  BY <1>1, SessionInvariant, PTL

\* The balances that the page shows when all is quiet are the server's, for any
\* schedule of sales, reloads and disconnections.
THEOREM ShownBalancesAreServers == SessionSpec => []ShownAreServers
<1>1. SessionInv => ShownAreServers
  <2> SUFFICES ASSUME SessionInv, Quiet, ~missed PROVE balances = {Shown}
    BY DEF ShownAreServers
  <2>1. LinkInv /\ ToldInv /\ toPage = <<>> /\ socket = "open" /\ pc = "idle"
    BY DEF SessionInv, TalkInv, Quiet
  <2>2. ~IsLatest(toPage, Shown)
    BY <2>1 DEF IsLatest
  <2> QED
    BY <2>1, <2>2 DEF ToldInv, LinkInv
<1> QED
  BY <1>1, SessionInvariant, PTL

\* An order that the page takes for unanswered has its submission or its answer on
\* the way, unless its handler threw or it was never sent.
THEOREM PendingRowsInFlight == SessionSpec => []PendingInFlight
<1>1. SessionInv => PendingInFlight
  <2> SUFFICES ASSUME SessionInv, socket = "open", NEW key \in DOMAIN pendingOrders
               PROVE  \/ \E n \in DOMAIN toServer : /\ toServer[n].action = "submit_order"
                                                    /\ Key(toServer[n]) = key
                      \/ \E n \in DOMAIN toPage : /\ toPage[n].type = "order_ack"
                                                  /\ Key(toPage[n]) = key
                      \/ placed[rows[pendingOrders[key]].order].fate \in {"thrown", "lost"}
    BY DEF PendingInFlight
  <2> DEFINE k == rows[pendingOrders[key]].order
  <2>1. RowsInv /\ SentInv /\ AwaitedInv
    BY DEF SessionInv, TalkInv, OrdersInv
  <2>2. placed[k].key = key
    BY <2>1 DEF RowsInv
  <2>3. \/ \E m \in Submits(toServer) : m.order = k
        \/ \E a \in Acks(toPage) : Key(a) = key
        \/ placed[k].fate \in {"thrown", "lost"}
    BY <2>1 DEF AwaitedInv
  <2>4. \A m \in Submits(toServer) : placed[m.order].key = Key(m)
    BY <2>1 DEF SentInv
  <2> HIDE DEF k
  <2>5. ASSUME NEW m \in Submits(toServer), m.order = k
        PROVE  \E n \in DOMAIN toServer : /\ toServer[n].action = "submit_order"
                                          /\ Key(toServer[n]) = key
    BY <2>2, <2>4, <2>5 DEF Submits
  <2>6. ASSUME NEW a \in Acks(toPage), Key(a) = key
        PROVE  \E n \in DOMAIN toPage : toPage[n].type = "order_ack" /\ Key(toPage[n]) = key
    BY <2>6 DEF Acks
  <2> QED
    BY <2>3, <2>5, <2>6 DEF k
<1> QED
  BY <1>1, SessionInvariant, PTL

\* When all is quiet a row shows a rejection exactly if its order was rejected.
THEOREM RejectionsAreShown == SessionSpec => []RejectionsShown
<1>1. SessionInv => RejectionsShown
  <2> SUFFICES ASSUME SessionInv, Quiet, NEW n \in DOMAIN rows, rows[n].order # 0,
                      UniqueKey(rows[n].order)
               PROVE  rows[n].status = "Rejected" <=> placed[rows[n].order].fate = "rejected"
    BY DEF RejectionsShown
  <2>1. RejectedInv /\ toPage = <<>> /\ socket = "open"
    BY DEF SessionInv, TalkInv, OrdersInv, Quiet
  <2>2. Acks(toPage) = {}
    BY <2>1 DEF Acks
  <2> QED
    BY <2>1, <2>2 DEF RejectedInv
<1> QED
  BY <1>1, SessionInvariant, PTL

-----------------------------------------------------------------------------
(* Several pages on several workers *)

(* The invariant of a handler *)

\* LoopInv, of the locals l of a handler.
LoopOf(l) ==
    /\ l.asks \in Seq(Entry) /\ IsSortedBy(l.asks, comapreByPriceAsc)
    /\ l.bids \in Seq(Entry) /\ IsSortedBy(l.bids, comapreByPriceDesc)
    /\ l.sales \in Seq(Sale)
    /\ l.i \in 1..Len(l.asks) + 1 /\ l.j \in 0..Len(l.bids) + 1 /\ l.returned \in BOOLEAN
    /\ l.j > 0 => l.i \in Live(l.asks)
    /\ l.returned => l.i = Len(l.asks) + 1
    /\ \A m \in Live(l.asks), n \in Live(l.bids) : m < l.i => ~Crosses(l.asks[m], l.bids[n])
    /\ \A n \in Live(l.bids) : l.i \in DOMAIN l.asks /\ n < l.j => ~Crosses(l.asks[l.i], l.bids[n])

\* The leg that l has read the balance for debits it.
Debiting(l) == (Head(l.sales).orderType = "bidsale") = (l.legsDone = 1)
DebitedBy(l) == IF Head(l.sales).orderType = "bidsale" THEN Quote[l.call.product]
              ELSE Base[l.call.product]

\* A settlement under way is of a sale of the user's that waits.
SettlementOf(l) ==
    /\ l.legsDone \in 0..2
    /\ l.held = {} \/ \E b \in Int : l.held = {b}
    /\ l.legsDone > 0 \/ l.held # {} =>
         /\ l.pc = "frame" /\ l.returned /\ l.sales # <<>>
         /\ Head(l.sales).username = "simuser"
    /\ l.held # {} => l.legsDone < 2 /\ (Debiting(l) => DebitedBy(l) \in DOMAIN currencies)

HandlerInv(l) ==
    /\ l.pc \in {"idle", "frame", "crashed"} /\ l.todo \subseteq Product
    /\ l.call \in [product : Nat, timestamp : Nat]
    /\ LoopOf(l)
    /\ l.pc # "frame" => l.returned /\ l.sales = <<>> /\ l.todo = {}
    /\ l.returned => l.asks = <<>> /\ l.bids = <<>> /\ l.i = 1 /\ l.j = 0
    /\ \A k \in DOMAIN l.sales : l.sales[k].amount > 0
    /\ l.pc = "frame" /\ (~l.returned \/ l.sales # <<>>) => l.call.product \in DOMAIN Quote
    /\ SettlementOf(l)

\* What the handlers share.
SharedInv ==
    /\ orders \in Seq(Entry) /\ BookSorted /\ Live(orders) = DOMAIN orders
    /\ \A n \in DOMAIN orders : Quoted(orders[n])
    /\ IsWallet(currencies) /\ ui \in [UiCurrency -> Int] /\ currentTime \in Nat
    /\ submitted \in 0..MaxOrders /\ owed \in [Currency -> Int] /\ flags \subseteq Flag

\* The inductive invariant, for any number of workers.
WorkersInv ==
    /\ SharedInv
    /\ workerOf \in [Conn -> Worker] /\ running \in Conn /\ DOMAIN parked = Conn \ {running}
    /\ HandlerInv(Locals)
    /\ \A c \in Conn \ {running} : HandlerInv(parked[c])

\* What holds besides when one worker runs all handlers: no other handler is in
\* progress, and a balance that was read is still what it was.
OneInv ==
    OneWorker =>
        /\ \A c \in Conn \ {running} : parked[c].pc = "idle"
        /\ \A b \in held : b = BalanceOf(currencies, NextLeg.currency)
        /\ held # {} => IF NextLeg.op = "insert" THEN ~InsertThrows(NextLeg.volume)
                        ELSE RemoveSucceeds(currencies, NextLeg.currency, NextLeg.volume)
        /\ WalletNonNegative

-----------------------------------------------------------------------------
(* The running handler's invariant, of the variables that hold its locals *)

ControlInv ==
    /\ pc \in {"idle", "frame", "crashed"} /\ todo \subseteq Product
    /\ call \in [product : Nat, timestamp : Nat]
    /\ pc # "frame" => returned /\ sales = <<>> /\ todo = {}
    /\ returned => asks = <<>> /\ bids = <<>> /\ i = 1 /\ j = 0
    /\ \A k \in DOMAIN sales : sales[k].amount > 0
    /\ pc = "frame" /\ (~returned \/ sales # <<>>) => call.product \in DOMAIN Quote

SettlementInv ==
    /\ legsDone \in 0..2
    /\ held = {} \/ \E b \in Int : held = {b}
    /\ legsDone > 0 \/ held # {} => Settling /\ sale.username = "simuser"
    /\ held # {} =>
         /\ legsDone < 2
         /\ Bought = (legsDone = 1) =>
              (IF Bought THEN Quote[call.product] ELSE Base[call.product]) \in DOMAIN currencies

RunningInv == ControlInv /\ LoopInv /\ SettlementInv

\* It is HandlerInv of the locals that are loaded.
LEMMA RunningIsHandler == HandlerInv(Locals) <=> RunningInv
<1>1. LoopOf(Locals) <=> LoopInv
  BY DEF LoopOf, Locals, LoopInv, MatchTypeOK, LoopPosition, PassedAsks, PassedBids
<1>2. SettlementOf(Locals) <=> SettlementInv
  BY DEF SettlementOf, Locals, SettlementInv, Settling, sale, Bought, Debiting, DebitedBy
<1>3. (/\ Locals.pc \in {"idle", "frame", "crashed"} /\ Locals.todo \subseteq Product
       /\ Locals.call \in [product : Nat, timestamp : Nat]
       /\ Locals.pc # "frame" => Locals.returned /\ Locals.sales = <<>> /\ Locals.todo = {}
       /\ Locals.returned => /\ Locals.asks = <<>> /\ Locals.bids = <<>>
                             /\ Locals.i = 1 /\ Locals.j = 0
       /\ \A k \in DOMAIN Locals.sales : Locals.sales[k].amount > 0
       /\ Locals.pc = "frame" /\ (~Locals.returned \/ Locals.sales # <<>>) =>
            Locals.call.product \in DOMAIN Quote) <=> ControlInv
  BY DEF Locals, ControlInv
<1> HIDE DEF Locals
<1> QED
  BY <1>1, <1>2, <1>3 DEF HandlerInv, RunningInv

\* A parked handler is not disturbed by a wallet that only gains currencies.
LEMMA ParkedKept ==
    ASSUME NEW CONSTANT l, HandlerInv(l), DOMAIN currencies \subseteq DOMAIN currencies'
    PROVE  HandlerInv(l)'
<1>1. SettlementOf(l)'
  BY DEF HandlerInv, SettlementOf, Debiting, DebitedBy
<1>2. LoopOf(l)'
  BY DEF HandlerInv, LoopOf, IsSortedBy, comapreByPriceAsc, comapreByPriceDesc, Live, Crosses
<1> QED
  BY <1>1, <1>2 DEF HandlerInv

\* The invariant after a step of the running handler, put together from its parts.
LEMMA HandlerStep ==
    ASSUME WorkersInv, UNCHANGED <<workerOf, switchVars>>, SharedInv', RunningInv',
           DOMAIN currencies \subseteq DOMAIN currencies'
    PROVE  WorkersInv'
<1>1. (HandlerInv(Locals) <=> RunningInv)'
  BY RunningIsHandler, PTL
<1>2. ASSUME NEW c \in Conn \ {running}
      PROVE  HandlerInv(parked[c])'
  <2>1. PICK l : l = parked[c]
    OBVIOUS
  <2>2. HandlerInv(l)
    BY <2>1 DEF WorkersInv
  <2>3. HandlerInv(l)'
    BY <2>2, ParkedKept
  <2>4. parked'[c] = l
    BY <2>1 DEF switchVars
  <2> QED
    BY <2>3, <2>4
<1>3. /\ workerOf' = workerOf /\ running' = running /\ parked' = parked
  BY DEF switchVars
<1>4. /\ workerOf' \in [Conn -> Worker] /\ running' \in Conn /\ DOMAIN parked' = Conn \ {running'}
  BY <1>3 DEF WorkersInv
<1>5. \A c \in Conn \ {running'} : HandlerInv(parked[c])'
  BY <1>2, <1>3
<1> QED
  BY <1>1, <1>4, <1>5 DEF WorkersInv

-----------------------------------------------------------------------------
(* The steps of the running handler *)

\* A step that leaves the book alone keeps it in order.
LEMMA BookKept ==
    ASSUME SharedInv, UNCHANGED orders
    PROVE  /\ orders' \in Seq(Entry) /\ BookSorted' /\ Live(orders') = DOMAIN orders'
           /\ \A n \in DOMAIN orders' : Quoted(orders'[n])
BY DEF SharedInv, BookSorted, IsSortedBy, comapreByTimestamp, Live

\* What a handler submits goes into the book in time order.
LEMMA SubmitKeeps ==
    ASSUME SharedInv, RunningInv, NEW side \in {"buy", "sell"}, NEW p \in Product,
           NEW price \in OfferPrices, NEW amount \in OfferAmounts,
           Submit(side, p, price, amount)
    PROVE  SharedInv' /\ RunningInv'
<1> DEFINE e == UserOrder(side, p, price, amount)
<1>1. e \in Entry /\ e.amount > 0 /\ e.product = p /\ (e.orderType = "bid" => side = "buy")
  <2>1. currentTime \in Nat /\ submitted \in Nat
    BY OfferAssumption DEF SharedInv
  <2>2. e \in Entry /\ e.amount > 0 /\ e.product = p
    BY <2>1, UserOrderType
  <2>3. e.orderType = "bid" => side = "buy"
    BY DEF UserOrder
  <2> QED
    BY <2>2, <2>3
<1> HIDE DEF e
<1>2. /\ insertOrder(e) /\ side = "buy" => p \in DOMAIN Quote
      /\ insertOrder(e)
      /\ submitted' = submitted + 1 /\ submitted < MaxOrders
      /\ flags' = flags \cup (IF HasOpenOrder THEN {"overlapped"} ELSE {})
      /\ UNCHANGED <<serverVars, owed>> /\ UNCHANGED workerVars
  BY DEF Submit, SubmitOrder, e
<1>3. UNCHANGED <<call, matchVars>>
  BY <1>2 DEF insertOrder
<1>4. /\ orders' \in Seq(Entry) /\ Live(orders') = DOMAIN orders'
      /\ IsSortedBy(orders', comapreByTimestamp)
      /\ \A k \in DOMAIN orders' :
           orders'[k] = e \/ \E m \in DOMAIN orders : orders'[k] = orders[m]
  BY <1>1, <1>2, InsertedBook DEF SharedInv
<1>5. \A k \in DOMAIN orders' : Quoted(orders'[k])
  <2>1. Quoted(e)
    BY <1>1, <1>2, ProductAssumption DEF Quoted
  <2> QED
    BY <1>4, <2>1 DEF SharedInv
<1>6. SharedInv'
  <2>1. submitted' \in 0..MaxOrders /\ flags' \subseteq Flag
    BY <1>2, OfferAssumption DEF SharedInv, Flag
  <2> QED
    BY <1>2, <1>4, <1>5, <2>1 DEF SharedInv, BookSorted, serverVars
<1>7. LoopInv'
  BY <1>3, LoopUnchanged DEF RunningInv
<1>8. ControlInv' /\ SettlementInv'
  BY <1>2, <1>3 DEF RunningInv, ControlInv, SettlementInv, Settling, sale, Bought, serverVars,
     matchVars, workerVars, ownVars
<1> QED
  BY <1>6, <1>7, <1>8 DEF RunningInv

\* A match that starts has an order on both sides, so that its product has a quote.
LEMMA MatchProductKeeps ==
    ASSUME SharedInv, RunningInv, MatchProduct, UNCHANGED workerVars
    PROVE  SharedInv' /\ RunningInv'
<1>1. /\ todo \subseteq Product /\ todo \subseteq Nat /\ todo # {} /\ currentTime \in Nat
      /\ returned /\ sales = <<>> /\ pc = "frame" /\ legsDone = 0 /\ held = {}
  BY ProductAssumption
     DEF RunningInv, ControlInv, SharedInv, MatchProduct, BetweenProducts, SettlementInv,
         Settling
<1>2. Min(todo) \in Product /\ Min(todo) \in Nat
  BY <1>1, MinProperties
<1> DEFINE p == Min(todo)
<1> HIDE DEF p
<1>3. /\ MatchEmpty(p, currentTime) \/ MatchBegin(p, currentTime)
      /\ p \in Product /\ p \in Nat
      /\ pc' = pc /\ todo' \subseteq todo
      /\ UNCHANGED <<currencies, ui, currentTime, auxVars>>
  BY <1>2 DEF MatchProduct, matchAsksToBids, p
<1>4. UNCHANGED orders /\ call' = [product |-> p, timestamp |-> currentTime] /\ sales' = <<>>
  BY <1>3 DEF MatchEmpty, MatchBegin
<1>5. LoopInv'
  <2>1. CASE MatchBegin(p, currentTime)
    BY <1>1, <1>3, <2>1, MatchBeginStarts DEF SharedInv
  <2>2. CASE MatchEmpty(p, currentTime)
    BY <2>2 DEF MatchEmpty, RunningInv, LoopInv, MatchTypeOK, IsSortedBy, LoopPosition,
       PassedAsks, PassedBids, Live, Crosses, comapreByPriceAsc, comapreByPriceDesc
  <2> QED
    BY <1>3, <2>1, <2>2
<1>6. returned' => asks' = <<>> /\ bids' = <<>> /\ i' = 1 /\ j' = 0
  BY <1>1, <1>3 DEF MatchBegin, MatchEmpty, RunningInv, ControlInv
<1>7. ~returned' => p \in DOMAIN Quote
  <2> SUFFICES ASSUME ~returned' PROVE p \in DOMAIN Quote
    OBVIOUS
  <2> DEFINE K == Visible("bid", p, currentTime)
  <2>1. At(orders, K) # <<>>
    BY <1>1, <1>3 DEF MatchEmpty, MatchBegin, getOrders
  <2>2. At(orders, {}) = <<>>
    BY FS_EmptySet DEF At
  <2>3. K # {}
    <3> HIDE DEF K
    <3> QED
      BY <2>1, <2>2
  <2> QED
    BY <2>3 DEF Visible, SharedInv, Quoted
<1>8. ControlInv'
  BY <1>1, <1>3, <1>4, <1>6, <1>7 DEF ControlInv
<1>9. SettlementInv'
  BY <1>1 DEF SettlementInv, workerVars, ownVars
<1>10. SharedInv'
  BY <1>3, <1>4, BookKept DEF SharedInv, auxVars
<1> QED
  BY <1>5, <1>8, <1>9, <1>10 DEF RunningInv

\* A step of the loop keeps the loop's invariant and sells positive amounts.
LEMMA MatchStepKeeps ==
    ASSUME SharedInv, RunningInv, MatchStep, UNCHANGED workerVars
    PROVE  SharedInv' /\ RunningInv'
<1>1. /\ pc = "frame" /\ MatchLoop /\ LoopStep /\ UNCHANGED <<orders, call>>
      /\ UNCHANGED <<serverVars, submitted>>
  BY DEF MatchStep, MatchLoop
<1>2. ~returned /\ returned' = returned
  BY <1>1 DEF LoopStep, OuterSkip, OuterEnter, InnerEnd, InnerSkip, FillEqual, FillAsk,
     FillBid, AtAsk, AtBid, AtCross
<1>3. LoopInv'
  BY <1>1, LoopInvStep DEF MatchNext, RunningInv
<1>4. \A k \in DOMAIN sales' : sales'[k].amount > 0
  BY <1>1, MatchLoopSales DEF RunningInv, ControlInv
<1>5. ControlInv'
  BY <1>1, <1>2, <1>4 DEF RunningInv, ControlInv, serverVars
<1>6. SettlementInv'
  BY <1>2 DEF RunningInv, SettlementInv, Settling, workerVars, ownVars
<1>7. owed' \in [Currency -> Int] /\ flags' \subseteq Flag
  BY <1>3, MatchStepOwed DEF RunningInv, SharedInv
<1>8. SharedInv'
  BY <1>1, <1>7, BookKept DEF SharedInv, serverVars
<1> QED
  BY <1>3, <1>5, <1>6, <1>8 DEF RunningInv

\* The write-back keeps the book in order, whatever it has become since the copies
\* were made.
LEMMA MatchReturnKeeps ==
    ASSUME SharedInv, RunningInv, MatchReturn, UNCHANGED workerVars
    PROVE  SharedInv' /\ RunningInv'
<1>1. /\ WriteBack /\ pc = "frame" /\ UNCHANGED <<serverVars, auxVars, sales, call>>
      /\ asks' = <<>> /\ bids' = <<>> /\ i' = 1 /\ j' = 0 /\ returned' = TRUE /\ ~returned
  BY DEF MatchReturn, WriteBack, LoopsDone
<1>2. /\ orders' \in Seq(Entry) /\ Live(orders') = DOMAIN orders'
      /\ IsSortedBy(orders', comapreByTimestamp)
      /\ \A k \in DOMAIN orders' : \E n \in DOMAIN orders :
           /\ orders'[k].product = orders[n].product
           /\ orders'[k].orderType = orders[n].orderType
  BY <1>1, WriteBackLeaves DEF SharedInv, RunningInv, LoopInv, MatchTypeOK
<1>3. SharedInv'
  <2>1. \A k \in DOMAIN orders' : Quoted(orders'[k])
    BY <1>2 DEF SharedInv, Quoted
  <2> QED
    BY <1>1, <1>2, <2>1 DEF SharedInv, BookSorted, serverVars, auxVars
<1>4. LoopInv'
  <2>1. sales' \in Seq(Sale)
    BY <1>1 DEF RunningInv, LoopInv, MatchTypeOK
  <2> QED
    BY <1>1, <2>1 DEF LoopInv, MatchTypeOK, IsSortedBy, LoopPosition, PassedAsks, PassedBids,
       Live
<1>5. ControlInv'
  BY <1>1 DEF RunningInv, ControlInv, serverVars
<1>6. SettlementInv'
  BY <1>1 DEF RunningInv, SettlementInv, Settling, workerVars, ownVars
<1> QED
  BY <1>3, <1>4, <1>5, <1>6 DEF RunningInv

\* The start and the end of a frame.
LEMMA FrameEndsKeep ==
    ASSUME SharedInv, RunningInv, NextTimeframe \/ AdvanceTime \/ AdvanceTimeOfEmptyBook,
           UNCHANGED workerVars
    PROVE  SharedInv' /\ RunningInv'
<1>1. /\ UNCHANGED <<bookVars, currencies, ui, auxVars>> /\ returned /\ sales = <<>>
      /\ pc' \in {"idle", "frame", "crashed"} /\ legsDone = 0 /\ held = {}
  BY DEF NextTimeframe, AdvanceTime, AdvanceTimeOfEmptyBook, BetweenProducts, RunningInv,
     ControlInv, SettlementInv, Settling
<1>2. UNCHANGED <<orders, call, matchVars>>
  BY <1>1 DEF bookVars
<1>3. currentTime' \in Nat
  <2>1. CASE AdvanceTime
    <3>1. getNextTime(currentTime) \in Nat
      <4>1. orders \in Seq(Entry) /\ BookSorted /\ orders # <<>> /\ currentTime \in Nat
        BY <2>1 DEF SharedInv, AdvanceTime
      <4> DEFINE times == {orders[n].timestamp : n \in DOMAIN orders}
                 later == {u \in times : u > currentTime}
      <4>2. /\ times \in SUBSET Nat
            /\ getNextTime(currentTime) = IF later = {} THEN Min(times) ELSE Min(later)
        BY <4>1, NextTime
      <4>3. times # {}
        <5>1. 1 \in DOMAIN orders
          BY <4>1
        <5> QED
          BY <5>1
      <4> HIDE DEF times
      <4>4. later \in SUBSET Nat
        BY <4>2
      <4> QED
        BY <4>2, <4>3, <4>4, MinProperties
    <3> QED
      BY <2>1, <3>1 DEF AdvanceTime
  <2>2. CASE NextTimeframe \/ AdvanceTimeOfEmptyBook
    BY <2>2, OfferAssumption DEF NextTimeframe, AdvanceTimeOfEmptyBook, SharedInv
  <2> QED
    BY <2>1, <2>2
<1>4. todo' \subseteq Product /\ (pc' # "frame" => todo' = {})
  <2>1. CASE NextTimeframe
    BY <2>1, ProductAssumption DEF NextTimeframe, KnownProducts, SharedInv, Quoted
  <2>2. CASE AdvanceTime \/ AdvanceTimeOfEmptyBook
    BY <2>2 DEF AdvanceTime, AdvanceTimeOfEmptyBook
  <2> QED
    BY <2>1, <2>2
<1>5. SharedInv'
  BY <1>1, <1>2, <1>3, BookKept DEF SharedInv, auxVars
<1>6. LoopInv'
  BY <1>2, LoopUnchanged DEF RunningInv
<1>7. ControlInv'
  BY <1>1, <1>2, <1>4 DEF RunningInv, ControlInv, matchVars
<1>8. SettlementInv'
  BY <1>1 DEF SettlementInv, workerVars, ownVars
<1> QED
  BY <1>5, <1>6, <1>7, <1>8 DEF RunningInv
-----------------------------------------------------------------------------
(* A settlement, leg by leg *)

\* The legs of the sale that waits first.
LEMMA LegProperties ==
    ASSUME SharedInv, RunningInv, Settling, legsDone \in {0, 1}
    PROVE  /\ sale \in Sale /\ sale.amount > 0 /\ Value \in Int /\ call.product \in DOMAIN Quote
           /\ Base[call.product] \in Currency /\ Quote[call.product] \in Currency
           /\ Bought /\ legsDone = 0 => NextLeg = Leg("insert", Base[call.product], sale.amount)
           /\ Bought /\ legsDone = 1 => NextLeg = Leg("remove", Quote[call.product], Value)
           /\ ~Bought /\ legsDone = 0 => NextLeg = Leg("remove", Base[call.product], sale.amount)
           /\ ~Bought /\ legsDone = 1 => NextLeg = Leg("insert", Quote[call.product], Value)
           /\ NextLeg.op \in {"insert", "remove"}
           /\ NextLeg.currency \in Currency /\ NextLeg.volume \in Int
           /\ NextLeg.op = "remove" <=> (Bought <=> legsDone = 1)
           /\ NextLeg.op = "remove" =>
                NextLeg.currency = IF Bought THEN Quote[call.product] ELSE Base[call.product]
<1>1. /\ sales \in Seq(Sale) /\ sales # <<>> /\ call.product \in DOMAIN Quote
      /\ \A k \in DOMAIN sales : sales[k].amount > 0
  BY DEF RunningInv, ControlInv, Settling, LoopInv, MatchTypeOK
<1>2. /\ sale \in Sale /\ sale.amount \in Int /\ sale.amount > 0 /\ Value \in Int
      /\ Base[call.product] \in Currency /\ Quote[call.product] \in Currency
  BY <1>1, PendingSale
<1>3. /\ Bought /\ legsDone = 0 => NextLeg = Leg("insert", Base[call.product], sale.amount)
      /\ Bought /\ legsDone = 1 => NextLeg = Leg("remove", Quote[call.product], Value)
      /\ ~Bought /\ legsDone = 0 => NextLeg = Leg("remove", Base[call.product], sale.amount)
      /\ ~Bought /\ legsDone = 1 => NextLeg = Leg("insert", Quote[call.product], Value)
  BY DEF Bought, NextLeg, Legs
<1>4. /\ NextLeg.op \in {"insert", "remove"}
      /\ NextLeg.currency \in Currency /\ NextLeg.volume \in Int
      /\ NextLeg.op = "remove" <=> (Bought <=> legsDone = 1)
      /\ NextLeg.op = "remove" =>
           NextLeg.currency = IF Bought THEN Quote[call.product] ELSE Base[call.product]
  <2>1. CASE Bought /\ legsDone = 0
    BY <1>2, <1>3, <2>1 DEF Leg
  <2>2. CASE Bought /\ legsDone = 1
    BY <1>2, <1>3, <2>2 DEF Leg
  <2>3. CASE ~Bought /\ legsDone = 0
    BY <1>2, <1>3, <2>3 DEF Leg
  <2>4. CASE ~Bought /\ legsDone = 1
    BY <1>2, <1>3, <2>4 DEF Leg
  <2> QED
    BY <2>1, <2>2, <2>3, <2>4
<1> QED
  BY <1>1, <1>2, <1>3, <1>4

\* Settling touches nothing of the loop but its sales.
LEMMA SettleKeepsLoop ==
    ASSUME LoopInv, sales' \in Seq(Sale), UNCHANGED <<asks, bids, i, j, returned>>
    PROVE  LoopInv'
BY DEF LoopInv, MatchTypeOK, IsSortedBy, LoopPosition, PassedAsks, PassedBids, Live,
   Crosses, comapreByPriceAsc, comapreByPriceDesc

\* What every step of a leg keeps.
LEMMA LegKeeps ==
    ASSUME SharedInv, RunningInv, Settling, LegFrame, IsWallet(currencies'),
           UNCHANGED <<sales, ui, pc, todo>>, flags' \subseteq Flag, SettlementInv'
    PROVE  SharedInv' /\ RunningInv'
<1>1. /\ UNCHANGED <<orders, call, asks, bids, i, j, returned, currentTime, submitted, owed>>
  BY DEF LegFrame
<1>2. SharedInv'
  BY <1>1, BookKept DEF SharedInv
<1>3. LoopInv'
  BY <1>1, SettleKeepsLoop DEF RunningInv, LoopInv, MatchTypeOK
<1>4. ControlInv'
  BY <1>1 DEF RunningInv, ControlInv
<1> QED
  BY <1>2, <1>3, <1>4 DEF RunningInv

\* The read of a balance.
LEMMA ReadLegKeeps ==
    ASSUME SharedInv, RunningInv, ReadLeg
    PROVE  SharedInv' /\ RunningInv' /\ UNCHANGED <<currencies, workerOf, switchVars>>
<1>1. /\ Settling /\ sale.username = "simuser" /\ legsDone < 2 /\ legsDone \in {0, 1}
      /\ held' = {BalanceOf(currencies, NextLeg.currency)}
      /\ UNCHANGED <<sales, currencies, ui, pc, todo, flags, legsDone>> /\ LegFrame
      /\ \/ NextLeg.op = "insert"
         \/ RemoveSucceeds(currencies, NextLeg.currency, NextLeg.volume)
  BY DEF ReadLeg, RunningInv, SettlementInv
<1>2. IsWallet(currencies) /\ flags \subseteq Flag
  BY DEF SharedInv
<1>3. BalanceOf(currencies, NextLeg.currency) \in Int
  BY <1>2 DEF IsWallet, BalanceOf
<1>4. Bought = (legsDone = 1) =>
        (IF Bought THEN Quote[call.product] ELSE Base[call.product]) \in DOMAIN currencies
  <2>1. Bought \in BOOLEAN
    BY DEF Bought
  <2>2. /\ NextLeg.op = "remove" <=> (Bought <=> legsDone = 1)
        /\ NextLeg.op = "remove" =>
             NextLeg.currency = IF Bought THEN Quote[call.product] ELSE Base[call.product]
    BY <1>1, LegProperties
  <2>3. RemoveSucceeds(currencies, NextLeg.currency, NextLeg.volume) =>
          NextLeg.currency \in DOMAIN currencies
    BY DEF RemoveSucceeds, containsCurrency
  <2> QED
    BY <1>1, <2>1, <2>2, <2>3
<1>5. UNCHANGED <<Settling, sale, Bought, call>>
  BY <1>1 DEF Settling, sale, Bought, LegFrame
<1>6. SettlementInv'
  BY <1>1, <1>3, <1>4, <1>5 DEF SettlementInv
<1>7. SharedInv' /\ RunningInv'
  BY <1>1, <1>2, <1>6, LegKeeps
<1> QED
  BY <1>1, <1>7 DEF LegFrame

\* A debit that is refused.
LEMMA RefuseLegKeeps ==
    ASSUME SharedInv, RunningInv, RefuseLeg
    PROVE  SharedInv' /\ RunningInv' /\ UNCHANGED <<currencies, workerOf, switchVars>>
<1>1. /\ Settling /\ sale.username = "simuser" /\ legsDone \in {0, 1}
      /\ legsDone' = legsDone + 1 /\ held' = {}
      /\ flags' = flags \cup {"refused"}
      /\ UNCHANGED <<sales, currencies, ui, pc, todo>> /\ LegFrame
  BY DEF RefuseLeg, RunningInv, SettlementInv
<1>2. IsWallet(currencies) /\ flags' \subseteq Flag
  BY <1>1 DEF SharedInv, Flag
<1>3. UNCHANGED <<Settling, sale>>
  BY <1>1 DEF Settling, sale, LegFrame
<1>4. SettlementInv'
  BY <1>1, <1>3 DEF SettlementInv
<1>5. SharedInv' /\ RunningInv'
  BY <1>1, <1>2, <1>4, LegKeeps
<1> QED
  BY <1>1, <1>5 DEF LegFrame

\* The write of a balance.
LEMMA WriteLegKeeps ==
    ASSUME SharedInv, RunningInv, WriteLeg
    PROVE  /\ SharedInv' /\ RunningInv' /\ UNCHANGED <<workerOf, switchVars>>
           /\ DOMAIN currencies \subseteq DOMAIN currencies'
<1>1. PICK b \in Int : held = {b}
  BY DEF WriteLeg, RunningInv, SettlementInv
<1>2. /\ Settling /\ sale.username = "simuser" /\ legsDone \in {0, 1}
      /\ Bought = (legsDone = 1) =>
           (IF Bought THEN Quote[call.product] ELSE Base[call.product]) \in DOMAIN currencies
  BY DEF WriteLeg, RunningInv, SettlementInv
<1>3. PICK g : g = NextLeg
  OBVIOUS
<1>4. (CHOOSE x \in held : TRUE) = b
  BY <1>1
<1>5. /\ currencies' = [c \in DOMAIN currencies \cup {g.currency} |->
               IF c # g.currency THEN currencies[c]
               ELSE IF g.op = "insert" THEN b + g.volume
               ELSE currencies[c] - g.volume]
      /\ held' = {} /\ legsDone' = legsDone + 1
      /\ UNCHANGED <<sales, ui, pc, todo, flags>> /\ LegFrame
  BY <1>3, <1>4 DEF WriteLeg
<1>6. /\ g.currency \in Currency /\ g.volume \in Int /\ g.op \in {"insert", "remove"}
      /\ g.op = "remove" => g.currency \in DOMAIN currencies
  <2>1. Bought \in BOOLEAN
    BY DEF Bought
  <2> QED
    BY <1>2, <1>3, <2>1, LegProperties
<1>7. IsWallet(currencies') /\ DOMAIN currencies \subseteq DOMAIN currencies'
  <2>1. DOMAIN currencies \subseteq Currency /\ \A c \in DOMAIN currencies : currencies[c] \in Int
    BY DEF SharedInv, IsWallet
  <2>2. DOMAIN currencies' = DOMAIN currencies \cup {g.currency}
    BY <1>5
  <2>3. \A c \in DOMAIN currencies' : currencies'[c] \in Int
    BY <1>5, <1>6, <2>1
  <2>4. currencies' = [c \in DOMAIN currencies' |-> currencies'[c]]
    BY <1>5
  <2> QED
    BY <1>6, <2>1, <2>2, <2>3, <2>4 DEF IsWallet
<1>8. UNCHANGED <<Settling, sale>>
  BY <1>5 DEF Settling, sale, LegFrame
<1>9. SettlementInv'
  BY <1>2, <1>5, <1>8 DEF SettlementInv
<1>10. SharedInv' /\ RunningInv'
  BY <1>2, <1>5, <1>7, <1>9, LegKeeps DEF SharedInv
<1> QED
  BY <1>5, <1>7, <1>10 DEF LegFrame

\* The steps that take a sale away: it is the user's and settled, it is not his, or
\* its credit throws.
LEMMA SaleTakenKeeps ==
    ASSUME SharedInv, RunningInv, Skip \/ ThrowLeg \/ FinishSale
    PROVE  SharedInv' /\ RunningInv' /\ UNCHANGED <<currencies, workerOf, switchVars>>
<1>1. /\ Settling /\ legsDone \in 0..2
      /\ UNCHANGED <<orders, call, asks, bids, i, j, returned, currentTime, submitted, owed>>
      /\ UNCHANGED <<currencies, workerOf, switchVars>>
  BY DEF Skip, SkipSale, ThrowLeg, FinishSale, LegFrame, workerVars, RunningInv, SettlementInv
<1>2. /\ sales \in Seq(Sale) /\ sales # <<>> /\ call.product \in DOMAIN Quote
      /\ \A k \in DOMAIN sales : sales[k].amount > 0
      /\ ui \in [UiCurrency -> Int] /\ flags \subseteq Flag
  BY <1>1 DEF RunningInv, ControlInv, Settling, LoopInv, MatchTypeOK, SharedInv
<1>3. /\ sale.amount \in Int /\ Value \in Int /\ Tail(sales) \in Seq(Sale)
      /\ \A k \in DOMAIN Tail(sales) : Tail(sales)[k].amount > 0
  BY <1>2, PendingSale
<1>4. legsDone' = 0 /\ held' = {}
  BY DEF Skip, ThrowLeg, FinishSale, workerVars, ownVars, RunningInv, SettlementInv, SkipSale
<1>5. ui' \in [UiCurrency -> Int] /\ flags' \subseteq Flag
  <2>1. CASE FinishSale
    <3>1. -Value \in Int /\ -sale.amount \in Int
      BY <1>3
    <3>2. UiMoved(sale.amount, -Value) \in [UiCurrency -> Int]
      BY <1>2, <1>3, <3>1, UiMovedProperties
    <3>3. UiMoved(-sale.amount, Value) \in [UiCurrency -> Int]
      BY <1>2, <1>3, <3>1, UiMovedProperties
    <3> QED
      BY <1>2, <2>1, <3>2, <3>3 DEF FinishSale, Flag, Unfollowed
  <2>2. CASE Skip \/ ThrowLeg
    BY <1>2, <2>2 DEF Skip, SkipSale, ThrowLeg, Flag
  <2> QED
    BY <2>1, <2>2
<1>6. \/ sales' = Tail(sales) /\ UNCHANGED <<pc, todo>>
      \/ sales' = <<>> /\ pc' = "idle" /\ todo' = {}
  BY DEF Skip, SkipSale, ThrowLeg, FinishSale, Told
<1>7. sales' \in Seq(Sale) /\ \A k \in DOMAIN sales' : sales'[k].amount > 0
  <2>1. CASE sales' = Tail(sales)
    BY <1>3, <2>1
  <2>2. CASE sales' = <<>>
    BY <2>2
  <2> QED
    BY <1>6, <2>1, <2>2
<1>8. LoopInv'
  BY <1>1, <1>7, SettleKeepsLoop DEF RunningInv
<1>9. ControlInv'
  BY <1>1, <1>2, <1>6, <1>7 DEF RunningInv, ControlInv, Settling
<1>10. SettlementInv'
  BY <1>4 DEF SettlementInv
<1>11. SharedInv'
  BY <1>1, <1>5, BookKept DEF SharedInv
<1> QED
  BY <1>1, <1>8, <1>9, <1>10, <1>11 DEF RunningInv
-----------------------------------------------------------------------------
(* All steps *)

\* The handler that Switch brings back holds its invariant in the variables, the one
\* it parks in its locals.
LEMMA SwitchKeeps ==
    ASSUME WorkersInv, NEW c \in Conn, Switch(c)
    PROVE  WorkersInv'
<1>1. /\ c # running /\ running \in Conn /\ running' = c /\ workerOf' = workerOf
      /\ parked' = [d \in Conn \ {c} |-> LocalsOf(d)]
      /\ UNCHANGED <<orders, currencies, ui, currentTime, auxVars>>
  BY DEF Switch, Runnable, WorkersInv
<1>2. PICK l : l = parked[c]
  OBVIOUS
<1>3. /\ pc' = l.pc /\ todo' = l.todo /\ asks' = l.asks /\ bids' = l.bids
      /\ call' = IF l.pc = "idle" THEN call ELSE l.call
      /\ sales' = l.sales /\ i' = l.i /\ j' = l.j
      /\ returned' = l.returned /\ legsDone' = l.legsDone /\ held' = l.held
  BY <1>2 DEF Switch
<1>4. HandlerInv(l) /\ HandlerInv(Locals)
  BY <1>1, <1>2 DEF WorkersInv
<1>5. SharedInv'
  BY <1>1, BookKept DEF WorkersInv, SharedInv, auxVars
<1>6. call' \in [product : Nat, timestamp : Nat] /\ (l.pc # "idle" => call' = l.call)
  BY <1>3, <1>4 DEF HandlerInv, WorkersInv, Locals
<1>7. RunningInv'
  <2>1. LoopInv'
    BY <1>3, <1>4 DEF HandlerInv, LoopOf, LoopInv, MatchTypeOK, LoopPosition, PassedAsks,
       PassedBids
  <2>2. ControlInv'
    BY <1>3, <1>4, <1>6 DEF HandlerInv, ControlInv
  <2>3. SettlementInv'
    <3>1. SettlementOf(l) /\ currencies' = currencies
      BY <1>1, <1>4 DEF HandlerInv
    <3>2. l.held # {} => call' = l.call
      BY <1>6, <3>1 DEF SettlementOf
    <3> QED
      BY <1>3, <3>1, <3>2 DEF SettlementOf, SettlementInv, Settling, sale, Bought, Debiting,
         DebitedBy
  <2> QED
    BY <2>1, <2>2, <2>3 DEF RunningInv
<1>8. ASSUME NEW d \in Conn \ {c}
      PROVE  HandlerInv(parked[d])'
  <2>1. PICK m : m = LocalsOf(d)
    OBVIOUS
  <2>2. HandlerInv(m)
    BY <1>4, <2>1 DEF LocalsOf, WorkersInv
  <2>3. DOMAIN currencies \subseteq DOMAIN currencies'
    BY <1>1
  <2>4. HandlerInv(m)'
    BY <2>2, <2>3, ParkedKept
  <2>5. parked'[d] = m
    BY <1>1, <2>1
  <2> QED
    BY <2>4, <2>5
<1>9. (HandlerInv(Locals) <=> RunningInv)'
  BY RunningIsHandler, PTL
<1>10. /\ workerOf' \in [Conn -> Worker] /\ running' \in Conn
       /\ DOMAIN parked' = Conn \ {running'}
  BY <1>1 DEF WorkersInv
<1>11. \A d \in Conn \ {running'} : HandlerInv(parked[d])'
  BY <1>1, <1>8
<1> QED
  BY <1>5, <1>7, <1>9, <1>10, <1>11 DEF WorkersInv

\* A process that died leaves nothing to break.
LEMMA RaceCrashKeeps ==
    ASSUME SharedInv, RunningInv, RaceCrash
    PROVE  SharedInv' /\ RunningInv' /\ UNCHANGED <<currencies, workerOf, switchVars>>
<1>1. /\ pc' = "crashed" /\ todo' = {}
      /\ asks' = <<>> /\ bids' = <<>> /\ sales' = <<>> /\ i' = 1 /\ j' = 0 /\ returned' = TRUE
      /\ legsDone' = 0 /\ held' = {}
      /\ UNCHANGED <<orders, call, currencies, ui, currentTime, auxVars, workerOf, switchVars>>
  BY DEF RaceCrash
<1>2. SharedInv'
  BY <1>1, BookKept DEF SharedInv, auxVars
<1>3. LoopInv'
  <2>1. <<>> \in Seq(Entry) /\ <<>> \in Seq(Sale) /\ Len(<<>>) = 0
    OBVIOUS
  <2> QED
    BY <1>1, <2>1 DEF LoopInv, MatchTypeOK, IsSortedBy, LoopPosition, PassedAsks, PassedBids,
       Live
<1>4. ControlInv'
  BY <1>1 DEF RunningInv, ControlInv
<1>5. SettlementInv'
  BY <1>1 DEF SettlementInv
<1> QED
  BY <1>1, <1>2, <1>3, <1>4, <1>5 DEF RunningInv

\* The invariant holds when the server starts, on any assignment of the workers.
LEMMA WorkersInvInit == WorkersInit => WorkersInv
<1> SUFFICES ASSUME WorkersInit PROVE WorkersInv
  OBVIOUS
<1>1. /\ Init /\ legsDone = 0 /\ held = {} /\ ServerInv
      /\ workerOf \in [Conn -> Worker] /\ running \in Conn
      /\ parked = [c \in Conn \ {running} |-> Locals]
  BY ServerInvInit DEF WorkersInit
<1>2. orders \in Files /\ Live(orders) = DOMAIN orders
  BY <1>1, FilesAssumption DEF Init
<1>3. SharedInv
  BY <1>1, <1>2 DEF SharedInv, ServerInv, TypeOK, BookInv, BookTypeOK, SalesSettleable, Quoted
<1>4. RunningInv
  BY <1>1 DEF RunningInv, ControlInv, SettlementInv, ServerInv, TypeOK, BookInv, BookTypeOK,
     SalesSettleable, Init, LocalsDead
<1>5. PICK l : l = Locals
  OBVIOUS
<1>6. HandlerInv(l)
  BY <1>4, <1>5, RunningIsHandler
<1>7. parked = [c \in Conn \ {running} |-> l]
  BY <1>1, <1>5
<1>8. \A c \in Conn \ {running} : parked[c] = l
  BY <1>7
<1>9. \A c \in Conn \ {running} : HandlerInv(parked[c])
  BY <1>6, <1>8
<1>10. DOMAIN parked = Conn \ {running}
  BY <1>7
<1> QED
  BY <1>1, <1>3, <1>5, <1>6, <1>9, <1>10 DEF WorkersInv

\* It survives whatever the running handler does.
LEMMA HandlerStepsKeep ==
    ASSUME WorkersInv,
           \/ \E side \in {"buy", "sell"}, p \in Product,
                 price \in OfferPrices, amount \in OfferAmounts : Submit(side, p, price, amount)
           \/ Walk \/ Settle \/ RaceCrash
    PROVE  WorkersInv'
<1>1. SharedInv /\ RunningInv
  BY RunningIsHandler DEF WorkersInv
<1>2. ASSUME NEW side \in {"buy", "sell"}, NEW p \in Product,
             NEW price \in OfferPrices, NEW amount \in OfferAmounts,
             Submit(side, p, price, amount)
      PROVE  WorkersInv'
  <2>1. SharedInv' /\ RunningInv'
    BY <1>1, <1>2, SubmitKeeps
  <2>2. UNCHANGED <<currencies, workerOf, switchVars>>
    BY <1>2 DEF Submit, SubmitOrder, serverVars, workerVars
  <2> QED
    BY <2>1, <2>2, HandlerStep
<1>3. CASE Walk
  <2>1. UNCHANGED <<currencies, workerOf, switchVars>>
    BY <1>3 DEF Walk, workerVars, NextTimeframe, MatchProduct, MatchStep, MatchReturn,
       AdvanceTime, AdvanceTimeOfEmptyBook, serverVars
  <2>2. SharedInv' /\ RunningInv'
    BY <1>1, <1>3, MatchProductKeeps, MatchStepKeeps, MatchReturnKeeps, FrameEndsKeep DEF Walk
  <2> QED
    BY <2>1, <2>2, HandlerStep
<1>4. CASE Settle
  <2>1. /\ SharedInv' /\ RunningInv' /\ UNCHANGED <<workerOf, switchVars>>
        /\ DOMAIN currencies \subseteq DOMAIN currencies'
    <3>1. CASE ReadLeg
      BY <1>1, <3>1, ReadLegKeeps
    <3>2. CASE RefuseLeg
      BY <1>1, <3>2, RefuseLegKeeps
    <3>3. CASE WriteLeg
      BY <1>1, <3>3, WriteLegKeeps
    <3>4. CASE Skip \/ ThrowLeg \/ FinishSale
      BY <1>1, <3>4, SaleTakenKeeps
    <3> QED
      BY <1>4, <3>1, <3>2, <3>3, <3>4 DEF Settle
  <2> QED
    BY <2>1, HandlerStep
<1>5. CASE RaceCrash
  <2>1. SharedInv' /\ RunningInv' /\ UNCHANGED <<currencies, workerOf, switchVars>>
    BY <1>1, <1>5, RaceCrashKeeps
  <2> QED
    BY <2>1, HandlerStep
<1> QED
  BY <1>2, <1>3, <1>4, <1>5

\* It survives every step.
LEMMA WorkersInvStep == WorkersInv /\ [WorkersNext]_<<vars, workerVars>> => WorkersInv'
<1> SUFFICES ASSUME WorkersInv, [WorkersNext]_<<vars, workerVars>> PROVE WorkersInv'
  OBVIOUS
<1>1. CASE UNCHANGED <<vars, workerVars>>
  <2>1. SharedInv /\ RunningInv
    BY RunningIsHandler DEF WorkersInv
  <2>2. UNCHANGED <<orders, call, matchVars, serverVars, auxVars, workerOf, switchVars, ownVars>>
    BY <1>1 DEF vars, workerVars, bookVars
  <2>3. LoopInv'
    BY <2>1, <2>2, LoopUnchanged DEF RunningInv
  <2>4. ControlInv' /\ SettlementInv'
    BY <2>1, <2>2 DEF RunningInv, ControlInv, SettlementInv, Settling, sale, Bought, matchVars,
       serverVars, ownVars
  <2>5. SharedInv'
    BY <2>1, <2>2, BookKept DEF SharedInv, serverVars, auxVars
  <2>6. DOMAIN currencies \subseteq DOMAIN currencies' /\ UNCHANGED <<workerOf, switchVars>>
    BY <2>2 DEF serverVars
  <2> QED
    BY <2>3, <2>4, <2>5, <2>6, HandlerStep DEF RunningInv
<1>2. CASE \E c \in Conn : Switch(c)
  BY <1>2, SwitchKeeps
<1> QED
  BY <1>1, <1>2, HandlerStepsKeep DEF WorkersNext

\* The inductive invariant, for any number of connections and workers.
THEOREM WorkersInvariant == WorkersSpec => []WorkersInv
  BY WorkersInvInit, WorkersInvStep, PTL DEF WorkersSpec

\* Every variable keeps its type, whatever the workers' steps mix up.
THEOREM WorkersTypeCorrect == WorkersSpec => []WorkersTypeOK
<1>1. ASSUME WorkersInv PROVE WorkersTypeOK
  <2>1. SharedInv /\ RunningInv
    BY <1>1, RunningIsHandler DEF WorkersInv
  <2>2. TypeOK
    BY <2>1 DEF SharedInv, RunningInv, ControlInv, LoopInv, TypeOK, BookTypeOK
  <2>3. Cardinality(held) <= 1
    <3>1. CASE held = {}
      <4>1. Cardinality(held) = 0
        BY <3>1, FS_EmptySet
      <4> QED
        BY <4>1
    <3>2. ASSUME NEW b, held = {b} PROVE Cardinality(held) <= 1
      <4>1. Cardinality({b}) = 1
        BY FS_Singleton
      <4>2. Cardinality(held) = 1
        BY <3>2, <4>1
      <4> QED
        BY <4>2
    <3>3. held = {} \/ \E b : held = {b}
      BY <2>1 DEF RunningInv, SettlementInv
    <3> QED
      BY <3>1, <3>2, <3>3
  <2>4. legsDone \in 0..2 /\ (pc # "frame" => legsDone = 0 /\ held = {})
    BY <2>1 DEF RunningInv, SettlementInv, Settling
  <2> QED
    BY <1>1, <2>2, <2>3, <2>4 DEF WorkersTypeOK, WorkersInv
<1> QED
  BY <1>1, WorkersInvariant, PTL

\* On however many workers, the book stays in time order and without dead orders:
\* matches, inserts and the write-backs of copies that others' matches have made
\* stale may interleave in any order, as long as no two accesses overlap.
THEOREM WorkersKeepBook == WorkersSpec => []BookSound
<1>1. WorkersInv => BookSound
  BY DEF WorkersInv, SharedInv, BookSound
<1> QED
  BY <1>1, WorkersInvariant, PTL

-----------------------------------------------------------------------------
(* One worker *)

\* The running handler is the only one in progress, so that a switch finds and
\* leaves it idle, and no two accesses can race.
LEMMA OneAtATime ==
    ASSUME WorkersInv, OneInv, OneWorker
    PROVE  /\ \A c \in Conn : Switch(c) => /\ pc = "idle" /\ legsDone = 0 /\ held = {}
                                           /\ \A d \in Conn : LocalsOf(d).pc = "idle"
           /\ ~RaceCrash
<1>1. \A c, d \in Conn : workerOf[c] = workerOf[d]
  BY DEF OneWorker
<1>2. running \in Conn /\ SettlementInv /\ Locals.pc = pc
  BY RunningIsHandler DEF WorkersInv, RunningInv, Locals
<1>3. \A c \in Conn \ {running} : parked[c].pc = "idle"
  BY DEF OneInv
<1>4. ASSUME NEW c \in Conn, Runnable(c)
      PROVE  pc = "idle"
  <2>1. c # running /\ LocalsOf(running).pc = "idle"
    BY <1>1, <1>2, <1>4 DEF Runnable
  <2> QED
    BY <1>2, <2>1 DEF LocalsOf
<1>5. ASSUME NEW c \in Conn, Switch(c)
      PROVE  /\ pc = "idle" /\ legsDone = 0 /\ held = {}
             /\ \A d \in Conn : LocalsOf(d).pc = "idle"
  <2>1. pc = "idle"
    BY <1>4, <1>5 DEF Switch
  <2>2. legsDone = 0 /\ held = {}
    BY <1>2, <2>1 DEF SettlementInv, Settling
  <2> QED
    BY <1>2, <1>3, <2>1, <2>2 DEF LocalsOf
<1>6. ~Racing
  <2> SUFFICES ASSUME NEW c \in Conn, NEW d \in Conn, c # d, LocalsOf(c).pc = "frame",
                      c = running \/ Runnable(c), d = running \/ Runnable(d)
               PROVE  FALSE
    BY DEF Racing
  <2>1. c = running /\ pc = "frame"
    BY <1>2, <1>3 DEF LocalsOf
  <2> QED
    BY <1>4, <2>1
<1> QED
  BY <1>5, <1>6 DEF RaceCrash

\* The legs keep the balances from falling below zero, as what they test is what
\* they change.
LEMMA WriteLegCovered ==
    ASSUME WorkersInv, OneInv, OneWorker, WriteLeg
    PROVE  /\ WalletNonNegative'
           /\ currencies' = IF NextLeg.op = "insert"
                            THEN insertCurrency(currencies, NextLeg.currency, NextLeg.volume)
                            ELSE removeCurrency(currencies, NextLeg.currency, NextLeg.volume)
           /\ NextLeg.op = "insert" => NextLeg.volume >= 0
           /\ NextLeg.op = "remove" =>
                RemoveSucceeds(currencies, NextLeg.currency, NextLeg.volume)
<1>1. SharedInv /\ RunningInv
  BY RunningIsHandler DEF WorkersInv
<1>2. Settling /\ legsDone \in {0, 1}
  BY <1>1 DEF WriteLeg, RunningInv, SettlementInv
<1>3. PICK g : g = NextLeg
  OBVIOUS
<1>4. /\ g.currency \in Currency /\ g.volume \in Int /\ g.op \in {"insert", "remove"}
      /\ g.op = "insert" => ~InsertThrows(g.volume)
      /\ g.op = "remove" => RemoveSucceeds(currencies, g.currency, g.volume)
      /\ IsWallet(currencies) /\ WalletNonNegative
  BY <1>1, <1>2, <1>3, LegProperties DEF OneInv, WriteLeg, SharedInv
<1>5. (CHOOSE b \in held : TRUE) = BalanceOf(currencies, g.currency)
  BY <1>3 DEF OneInv, WriteLeg
<1>6. currencies' = [c \in DOMAIN currencies \cup {g.currency} |->
               IF c # g.currency THEN currencies[c]
               ELSE IF g.op = "insert" THEN BalanceOf(currencies, g.currency) + g.volume
               ELSE currencies[c] - g.volume]
  BY <1>3, <1>5 DEF WriteLeg
<1>7. CASE g.op = "insert"
  <2>1. g.volume >= 0
    BY <1>4, <1>7 DEF InsertThrows
  <2>2. currencies' = insertCurrency(currencies, g.currency, g.volume)
    BY <1>4, <1>6, <1>7 DEF insertCurrency
  <2>3. \A d \in DOMAIN insertCurrency(currencies, g.currency, g.volume) :
          insertCurrency(currencies, g.currency, g.volume)[d] >= 0
    BY <1>4, InsertCurrencyProperties DEF WalletNonNegative
  <2> QED
    BY <1>3, <1>7, <2>1, <2>2, <2>3 DEF WalletNonNegative
<1>8. CASE g.op = "remove"
  <2>1. RemoveSucceeds(currencies, g.currency, g.volume) /\ g.currency \in DOMAIN currencies
    BY <1>4, <1>8 DEF RemoveSucceeds, containsCurrency
  <2>2. removeCurrency(currencies, g.currency, g.volume) =
          [currencies EXCEPT ![g.currency] = @ - g.volume]
    BY <2>1 DEF removeCurrency
  <2>3. currencies' = [c \in DOMAIN currencies |->
               IF c # g.currency THEN currencies[c] ELSE currencies[c] - g.volume]
    BY <1>6, <1>8, <2>1
  <2>4. currencies' = removeCurrency(currencies, g.currency, g.volume)
    BY <2>2, <2>3
  <2>5. \A d \in DOMAIN removeCurrency(currencies, g.currency, g.volume) :
          removeCurrency(currencies, g.currency, g.volume)[d] >= 0
    BY <1>4, RemoveCurrencyProperties DEF WalletNonNegative
  <2> QED
    BY <1>3, <1>8, <2>1, <2>4, <2>5 DEF WalletNonNegative
<1> QED
  BY <1>4, <1>7, <1>8

\* What one worker keeps besides, step by step.
LEMMA OneInvStep ==
    WorkersInv /\ OneInv /\ [WorkersNext]_<<vars, workerVars>> => OneInv'
<1> SUFFICES ASSUME WorkersInv, OneInv, [WorkersNext]_<<vars, workerVars>>, OneWorker'
             PROVE  /\ \A c \in Conn \ {running'} : parked'[c].pc = "idle"
                    /\ \A b \in held' : b = BalanceOf(currencies, NextLeg.currency)'
                    /\ held' # {} =>
                         IF NextLeg'.op = "insert" THEN ~InsertThrows(NextLeg.volume)'
                         ELSE RemoveSucceeds(currencies, NextLeg.currency, NextLeg.volume)'
                    /\ WalletNonNegative'
  BY DEF OneInv
<1>1. UNCHANGED workerOf
  BY DEF WorkersNext, Submit, Walk, Settle, Switch, RaceCrash, Skip, ReadLeg, RefuseLeg, ThrowLeg,
     WriteLeg, FinishSale, LegFrame, workerVars
<1>2. OneWorker
  BY <1>1 DEF OneWorker
<1>3. /\ \A c \in Conn \ {running} : parked[c].pc = "idle"
      /\ WalletNonNegative /\ running \in Conn
  BY <1>2 DEF OneInv, WorkersInv
<1>4. ASSUME held' = {}, UNCHANGED <<currencies, switchVars>>
      PROVE  /\ \A c \in Conn \ {running'} : parked'[c].pc = "idle"
             /\ held' = {} /\ WalletNonNegative'
  BY <1>3, <1>4 DEF switchVars, WalletNonNegative
<1>5. SharedInv /\ RunningInv
  BY RunningIsHandler DEF WorkersInv
<1>6. CASE \/ Walk
           \/ \E side \in {"buy", "sell"}, p \in Product,
                 price \in OfferPrices, amount \in OfferAmounts : Submit(side, p, price, amount)
  <2>1. ~Settling /\ UNCHANGED <<currencies, workerVars>>
    BY <1>6 DEF Walk, Submit, SubmitOrder, NextTimeframe, MatchProduct, MatchStep, MatchLoop,
       LoopStep, OuterSkip, OuterEnter, InnerEnd, InnerSkip, FillEqual, FillAsk, FillBid, AtAsk,
       AtBid, AtCross, MatchReturn, WriteBack, LoopsDone, AdvanceTime, AdvanceTimeOfEmptyBook,
       BetweenProducts, Settling, serverVars
  <2>2. held' = {} /\ UNCHANGED switchVars
    BY <1>5, <2>1 DEF RunningInv, SettlementInv, workerVars, ownVars
  <2> QED
    BY <1>4, <2>1, <2>2
<1>7. CASE Skip \/ RefuseLeg \/ ThrowLeg \/ FinishSale
  <2>1. held' = {} /\ UNCHANGED <<currencies, switchVars>>
    BY <1>5, <1>7 DEF Skip, SkipSale, RefuseLeg, ThrowLeg, FinishSale, LegFrame, workerVars,
       ownVars, RunningInv, SettlementInv
  <2> QED
    BY <1>4, <2>1
<1>8. CASE ReadLeg
  <2>1. /\ held' = {BalanceOf(currencies, NextLeg.currency)}
        /\ \/ NextLeg.op = "insert" /\ ~InsertThrows(NextLeg.volume)
           \/ /\ NextLeg.op = "remove"
              /\ RemoveSucceeds(currencies, NextLeg.currency, NextLeg.volume)
        /\ UNCHANGED <<sales, currencies, legsDone, call, switchVars>>
    BY <1>8 DEF ReadLeg, LegFrame
  <2>2. NextLeg' = NextLeg
    BY <2>1 DEF NextLeg, Legs, sale, Value
  <2>3. /\ BalanceOf(currencies, NextLeg.currency)' = BalanceOf(currencies, NextLeg.currency)
        /\ InsertThrows(NextLeg.volume)' = InsertThrows(NextLeg.volume)
        /\ RemoveSucceeds(currencies, NextLeg.currency, NextLeg.volume)'
             = RemoveSucceeds(currencies, NextLeg.currency, NextLeg.volume)
    BY <2>1, <2>2 DEF BalanceOf, InsertThrows, RemoveSucceeds, containsCurrency
  <2>4. WalletNonNegative' /\ \A c \in Conn \ {running'} : parked'[c].pc = "idle"
    BY <1>3, <2>1 DEF WalletNonNegative, switchVars
  <2> QED
    BY <2>1, <2>2, <2>3, <2>4
<1>9. CASE WriteLeg
  <2>1. held' = {} /\ UNCHANGED switchVars /\ WalletNonNegative'
    BY <1>2, <1>9, WriteLegCovered DEF WriteLeg, LegFrame
  <2> QED
    BY <1>3, <2>1 DEF switchVars
<1>10. ASSUME NEW c \in Conn, Switch(c)
       PROVE  /\ \A d \in Conn \ {running'} : parked'[d].pc = "idle"
              /\ held' = {} /\ WalletNonNegative'
  <2>1. /\ \A d \in Conn : LocalsOf(d).pc = "idle"
        /\ parked' = [d \in Conn \ {c} |-> LocalsOf(d)]
        /\ running' = c /\ currencies' = currencies /\ held' = parked[c].held
    BY <1>2, <1>10, OneAtATime DEF Switch
  <2>2. c \in Conn \ {running}
    BY <1>10 DEF Switch, Runnable
  <2>3. HandlerInv(parked[c]) /\ parked[c].pc = "idle"
    BY <1>3, <2>2 DEF WorkersInv
  <2>4. parked[c].held = {}
    BY <2>3 DEF HandlerInv, SettlementOf
  <2> QED
    BY <1>3, <2>1, <2>4 DEF WalletNonNegative
<1>11. CASE UNCHANGED <<vars, workerVars>>
  <2>1. UNCHANGED <<held, currencies, switchVars, sales, legsDone, call>>
    BY <1>11 DEF vars, workerVars, ownVars, serverVars, bookVars, matchVars
  <2>2. NextLeg' = NextLeg
    BY <2>1 DEF NextLeg, Legs, sale, Value
  <2> QED
    BY <1>2, <2>1, <2>2 DEF OneInv, BalanceOf, InsertThrows, RemoveSucceeds, containsCurrency,
       WalletNonNegative, switchVars
<1> QED
  BY <1>2, <1>6, <1>7, <1>8, <1>9, <1>10, <1>11, OneAtATime DEF WorkersNext, Settle

\* It holds when the server starts.
LEMMA OneInvInit == WorkersInit => OneInv
<1> SUFFICES ASSUME WorkersInit PROVE OneInv
  OBVIOUS
<1>1. held = {} /\ pc = "idle" /\ parked = [c \in Conn \ {running} |-> Locals]
  BY DEF WorkersInit, Init
<1>2. PICK l : l = Locals
  OBVIOUS
<1>3. l.pc = "idle"
  BY <1>1, <1>2 DEF Locals
<1>4. parked = [c \in Conn \ {running} |-> l]
  BY <1>1, <1>2
<1>5. \A c \in Conn \ {running} : parked[c].pc = "idle"
  BY <1>3, <1>4
<1>6. WalletNonNegative
  BY ServerInvInit DEF WorkersInit, ServerInv
<1> QED
  BY <1>1, <1>5, <1>6 DEF OneInv

\* So it is invariant.
LEMMA OneWorkerInvariant == WorkersSpec => []OneInv
  BY OneInvInit, OneInvStep, WorkersInvariant, PTL DEF WorkersSpec

-----------------------------------------------------------------------------
(* One worker, the fills and the wallet: the ledger of the server, with the        *)
(* legs that are done of the first sale.                                           *)

\* What a leg makes of balances w.
Moved(w, g) ==
    [c \in Currency |->
       w[c] + (IF c # g.currency THEN 0 ELSE IF g.op = "insert" THEN g.volume ELSE 0 - g.volume)]

MovedBy(w) ==
    IF legsDone = 0 THEN w
    ELSE IF legsDone = 1 THEN Moved(w, Legs[1])
    ELSE Moved(Moved(w, Legs[1]), Legs[2])

LegsLedger == OneWorker /\ Clean => \E w, r : IsLedger(w, r) /\ Balances = MovedBy(w)

\* A ledger depends on the sales, the fills and the call's product only.
LEMMA LedgerFrame ==
    ASSUME NEW w, NEW r, IsLedger(w, r), UNCHANGED <<sales, owed, call>>
    PROVE  IsLedger(w, r)'
<1>1. \A v, x : Worth(v, x)' = Worth(v, x)
  BY DEF Worth, Settled
<1>2. sales' = sales /\ owed' = owed
  OBVIOUS
<1> QED
  BY <1>1, <1>2 DEF IsLedger

\* Both legs of a sale are worth what the sale is.
LEMMA LegsWorth ==
    ASSUME SharedInv, RunningInv, Settling, sale.username = "simuser",
           NEW w \in [Currency -> Int]
    PROVE  Moved(Moved(w, Legs[1]), Legs[2]) = Worth(w, sale)
<1> DEFINE base == Base[call.product]
           quote == Quote[call.product]
           a == sale.amount
           q == sale.price
<1>1. /\ sales \in Seq(Sale) /\ sales # <<>> /\ call.product \in DOMAIN Quote
      /\ \A k \in DOMAIN sales : sales[k].amount > 0
  BY DEF RunningInv, ControlInv, Settling, LoopInv, MatchTypeOK
<1>2. /\ sale \in Sale /\ a \in Int /\ q \in Int /\ Value \in Int /\ Value = a * q
      /\ base \in Currency /\ quote \in Currency
  BY <1>1, PendingSale DEF Sale, Value
<1>3. sale.orderType \in {"asksale", "bidsale"}
  BY <1>2 DEF Sale
<1> HIDE DEF base, quote, a, q
<1>4. CASE sale.orderType = "bidsale"
  <2>1. Legs[1] = Leg("insert", base, a) /\ Legs[2] = Leg("remove", quote, Value)
    BY <1>4 DEF Legs, base, quote, a
  <2>2. Moved(Moved(w, Legs[1]), Legs[2]) =
          [c \in Currency |-> (w[c] + (IF c = base THEN a ELSE 0))
                                    + (IF c = quote THEN 0 - Value ELSE 0)]
    BY <2>1 DEF Moved, Leg
  <2>3. Worth(w, sale) = Settled(w, a, q, TRUE, FALSE)
    BY <1>4 DEF Worth, a, q
  <2>4. Settled(w, a, q, TRUE, FALSE) =
          [c \in Currency |-> w[c] + (IF c = base THEN a - 0 ELSE 0)
                                   - (IF c = quote THEN (a - 0) * q ELSE 0)]
    BY DEF Settled, base, quote
  <2>5. a - 0 = a
    BY <1>2
  <2>6. \A c \in Currency :
          (w[c] + (IF c = base THEN a ELSE 0)) + (IF c = quote THEN 0 - Value ELSE 0) =
          w[c] + (IF c = base THEN a - 0 ELSE 0) - (IF c = quote THEN (a - 0) * q ELSE 0)
    BY <1>2, <2>5
  <2> QED
    BY <2>2, <2>3, <2>4, <2>6
<1>5. CASE sale.orderType = "asksale"
  <2>1. Legs[1] = Leg("remove", base, a) /\ Legs[2] = Leg("insert", quote, Value)
    BY <1>5 DEF Legs, base, quote, a
  <2>2. Moved(Moved(w, Legs[1]), Legs[2]) =
          [c \in Currency |-> (w[c] + (IF c = base THEN 0 - a ELSE 0))
                                    + (IF c = quote THEN Value ELSE 0)]
    BY <2>1 DEF Moved, Leg
  <2>3. Worth(w, sale) = Settled(w, a, q, FALSE, TRUE)
    BY <1>5 DEF Worth, a, q
  <2>4. Settled(w, a, q, FALSE, TRUE) =
          [c \in Currency |-> w[c] + (IF c = base THEN 0 - a ELSE 0)
                                   - (IF c = quote THEN (0 - a) * q ELSE 0)]
    BY DEF Settled, base, quote
  <2>5. (0 - a) * q = 0 - Value
    BY <1>2
  <2>6. \A c \in Currency :
          (w[c] + (IF c = base THEN 0 - a ELSE 0)) + (IF c = quote THEN Value ELSE 0) =
          w[c] + (IF c = base THEN 0 - a ELSE 0) - (IF c = quote THEN (0 - a) * q ELSE 0)
    BY <1>2, <2>5
  <2> QED
    BY <2>2, <2>3, <2>4, <2>6
<1> QED
  BY <1>3, <1>4, <1>5

\* The write of a leg moves the balances by it.
LEMMA WriteLegMoves ==
    ASSUME WorkersInv, OneInv, OneWorker, WriteLeg
    PROVE  Balances' = Moved(Balances, NextLeg)
<1>1. SharedInv /\ RunningInv
  BY RunningIsHandler DEF WorkersInv
<1>2. Settling /\ legsDone \in {0, 1} /\ IsWallet(currencies)
  BY <1>1 DEF WriteLeg, RunningInv, SettlementInv, SharedInv
<1>3. PICK g : g = NextLeg
  OBVIOUS
<1>4. g.currency \in Currency /\ g.volume \in Int /\ g.op \in {"insert", "remove"}
  BY <1>1, <1>2, <1>3, LegProperties
<1>5. /\ currencies' = IF g.op = "insert" THEN insertCurrency(currencies, g.currency, g.volume)
                       ELSE removeCurrency(currencies, g.currency, g.volume)
      /\ g.op = "insert" => g.volume >= 0
      /\ g.op = "remove" => RemoveSucceeds(currencies, g.currency, g.volume)
  BY <1>3, WriteLegCovered
<1>6. \A c : BalanceOf(currencies, c) \in Int
  BY <1>2 DEF BalanceOf, IsWallet
<1>7. CASE g.op = "insert"
  <2>1. \A c : BalanceOf(currencies', c)
                 = BalanceOf(currencies, c) + (IF c = g.currency THEN g.volume ELSE 0)
    BY <1>2, <1>4, <1>5, <1>7, InsertCurrencyProperties
  <2> QED
    BY <1>3, <1>4, <1>6, <1>7, <2>1 DEF Balances, Moved
<1>8. CASE g.op = "remove"
  <2>1. \A c : BalanceOf(currencies', c)
                 = BalanceOf(currencies, c) - (IF c = g.currency THEN g.volume ELSE 0)
    BY <1>2, <1>4, <1>5, <1>8, RemoveCurrencyProperties
  <2> QED
    BY <1>3, <1>4, <1>6, <1>8, <2>1 DEF Balances, Moved
<1> QED
  BY <1>4, <1>7, <1>8

\* The steps of a settlement keep the ledger.
LEMMA SettleKeepsLegs ==
    ASSUME WorkersInv, OneInv, OneWorker, LegsLedger, Settle
    PROVE  LegsLedger'
<1> SUFFICES ASSUME Clean' PROVE \E w, r : (IsLedger(w, r) /\ Balances = MovedBy(w))'
  BY DEF LegsLedger
<1>1. SharedInv /\ RunningInv
  BY RunningIsHandler DEF WorkersInv
<1>2. /\ legsDone \in 0..2 /\ sales \in Seq(Sale)
      /\ legsDone > 0 \/ held # {} => Settling /\ sale.username = "simuser"
      /\ held # {} => legsDone < 2
  BY <1>1 DEF RunningInv, SettlementInv, LoopInv, MatchTypeOK
<1>3. Clean /\ UNCHANGED <<call, owed>>
  BY DEF Settle, Skip, ReadLeg, RefuseLeg, ThrowLeg, WriteLeg, FinishSale, SkipSale, LegFrame, Clean
<1>4. PICK w, r : IsLedger(w, r) /\ Balances = MovedBy(w)
  BY <1>3 DEF LegsLedger
<1>5. w \in [Currency -> Int]
  BY <1>4, <1>2 DEF IsLedger
<1>6. CASE ReadLeg
  <2>1. UNCHANGED <<sales, legsDone, currencies>>
    BY <1>6 DEF ReadLeg
  <2>2. IsLedger(w, r)'
    BY <1>3, <1>4, <2>1, LedgerFrame
  <2>3. Balances' = Balances /\ MovedBy(w)' = MovedBy(w)
    BY <1>3, <2>1 DEF Balances, MovedBy, Legs, sale, Value
  <2> QED
    BY <1>4, <2>2, <2>3
<1>7. CASE RefuseLeg \/ ThrowLeg
  BY <1>7 DEF RefuseLeg, ThrowLeg, Clean
<1>8. CASE WriteLeg
  <2>1. UNCHANGED sales /\ legsDone' = legsDone + 1 /\ legsDone \in {0, 1}
    BY <1>2, <1>8 DEF WriteLeg
  <2>2. IsLedger(w, r)'
    BY <1>3, <1>4, <2>1, LedgerFrame
  <2>3. Legs' = Legs /\ NextLeg = Legs[legsDone + 1]
    BY <1>3, <2>1 DEF Legs, sale, Value, NextLeg
  <2>4. Balances' = Moved(MovedBy(w), NextLeg)
    BY <1>4, <1>8, WriteLegMoves
  <2>5. CASE legsDone = 0
    BY <2>1, <2>2, <2>3, <2>4, <2>5 DEF MovedBy, Moved
  <2>6. CASE legsDone = 1
    BY <2>1, <2>2, <2>3, <2>4, <2>6 DEF MovedBy, Moved
  <2> QED
    BY <2>1, <2>5, <2>6
<1>9. CASE Skip \/ FinishSale
  <2>1. /\ sales' = Tail(sales) /\ sales # <<>> /\ legsDone' = 0 /\ UNCHANGED currencies
        /\ Settling
    BY <1>2, <1>9 DEF Skip, SkipSale, FinishSale, Told, Settling, workerVars, ownVars
  <2>2. Balances' = Worth(w, sale)
    <3>1. CASE Skip
      <4>1. sale.username # "simuser" /\ legsDone = 0
        BY <1>2, <3>1 DEF Skip, SkipSale
      <4> QED
        BY <1>4, <2>1, <4>1 DEF MovedBy, Worth, Balances
    <3>2. CASE FinishSale
      <4>1. sale.username = "simuser" /\ legsDone = 2
        BY <1>2, <3>2 DEF FinishSale
      <4>2. Moved(Moved(w, Legs[1]), Legs[2]) = Worth(w, sale)
        BY <1>1, <1>5, <2>1, <4>1, LegsWorth
      <4>3. MovedBy(w) = Worth(w, sale)
        BY <4>1, <4>2 DEF MovedBy
      <4>4. Balances' = Balances
        BY <2>1 DEF Balances
      <4> QED
        BY <1>4, <4>3, <4>4
    <3> QED
      BY <1>9, <3>1, <3>2
  <2>3. LedgerInv'
    BY <1>2, <1>3, <1>4, <2>1, <2>2, LedgerSettled
  <2>4. PICK q : IsLedger(Balances, q)'
    BY <2>3 DEF LedgerInv
  <2>5. (\A v : legsDone = 0 => MovedBy(v) = v)'
    BY DEF MovedBy
  <2> QED
    BY <2>1, <2>4, <2>5
<1> QED
  BY <1>6, <1>7, <1>8, <1>9 DEF Settle

\* Between two settlements the ledger is Trading's.
LEMMA LegsLedgerBetween ==
    ASSUME OneWorker, legsDone = 0
    PROVE  LegsLedger <=> LedgerInv
<1>1. LegsLedger => LedgerInv
  BY DEF LegsLedger, LedgerInv, MovedBy
<1>2. LedgerInv => LegsLedger
  <2> SUFFICES ASSUME Clean, LedgerInv
               PROVE  \E w, r : IsLedger(w, r) /\ Balances = MovedBy(w)
    BY DEF LegsLedger
  <2>1. PICK r : IsLedger(Balances, r)
    BY DEF LedgerInv
  <2>2. PICK w : w = Balances
    OBVIOUS
  <2>3. IsLedger(w, r) /\ Balances = MovedBy(w)
    BY <2>1, <2>2 DEF MovedBy
  <2> QED
    BY <2>3
<1> QED
  BY <1>1, <1>2

\* Every step keeps it.
LEMMA LegsLedgerStep ==
    WorkersInv /\ WorkersInv' /\ OneInv /\ LegsLedger /\ [WorkersNext]_<<vars, workerVars>>
      => LegsLedger'
<1> SUFFICES ASSUME WorkersInv, WorkersInv', OneInv, LegsLedger, OneWorker',
                    [WorkersNext]_<<vars, workerVars>>
             PROVE  LegsLedger'
  BY DEF LegsLedger
<1>1. UNCHANGED workerOf
  BY DEF WorkersNext, Submit, Walk, Settle, Switch, RaceCrash, Skip, ReadLeg, RefuseLeg, ThrowLeg,
     WriteLeg, FinishSale, LegFrame, workerVars
<1>2. OneWorker
  BY <1>1 DEF OneWorker
<1>3. SharedInv /\ RunningInv /\ SharedInv' /\ (HandlerInv(Locals) <=> RunningInv)'
  BY RunningIsHandler, PTL DEF WorkersInv
<1>4. ASSUME legsDone = 0, legsDone' = 0
      PROVE  LegsLedger => LedgerInv /\ (LedgerInv' => LegsLedger')
  <2>1. (OneWorker /\ legsDone = 0 => (LegsLedger <=> LedgerInv))'
    BY LegsLedgerBetween, PTL
  <2> QED
    BY <1>2, <1>4, <2>1, LegsLedgerBetween
<1>5. CASE Settle
  BY <1>2, <1>5, SettleKeepsLegs
<1>6. CASE \/ Walk
           \/ \E side \in {"buy", "sell"}, p \in Product,
                 price \in OfferPrices, amount \in OfferAmounts : Submit(side, p, price, amount)
  <2>1. ~Settling /\ UNCHANGED <<currencies, workerVars>>
    BY <1>6 DEF Walk, Submit, SubmitOrder, NextTimeframe, MatchProduct, MatchStep, MatchLoop,
       LoopStep, OuterSkip, OuterEnter, InnerEnd, InnerSkip, FillEqual, FillAsk, FillBid, AtAsk,
       AtBid, AtCross, MatchReturn, WriteBack, LoopsDone, AdvanceTime, AdvanceTimeOfEmptyBook,
       BetweenProducts, Settling, serverVars
  <2>2. legsDone = 0 /\ legsDone' = 0
    BY <1>3, <2>1 DEF RunningInv, SettlementInv, workerVars, ownVars
  <2>3. LedgerInv
    BY <1>4, <2>2
  <2>4. CASE MatchStep
    <3>1. owed \in [Currency -> Int] /\ owed' \in [Currency -> Int] /\ LoopInv
      BY <1>3 DEF SharedInv, RunningInv
    <3>2. LedgerInv'
      BY <2>3, <2>4, <3>1, MatchStepKeepsLedger
    <3> QED
      BY <1>4, <2>2, <3>2
  <2>5. CASE MatchProduct
    <3>1. sales = <<>> /\ sales' = <<>> /\ UNCHANGED <<currencies, owed>> /\ (Clean' => Clean)
      BY <2>5 DEF MatchProduct, BetweenProducts, matchAsksToBids, MatchEmpty, MatchBegin,
         auxVars, Clean
    <3>2. LedgerInv'
      BY <2>3, <3>1, LedgerUntouched
    <3> QED
      BY <1>4, <2>2, <3>2
  <2>6. CASE ~MatchStep /\ ~MatchProduct
    <3>1. UNCHANGED <<sales, call, currencies, owed>> /\ (Clean' => Clean)
      BY <1>6, <2>6 DEF Walk, Submit, SubmitOrder, insertOrder, NextTimeframe, MatchReturn,
         WriteBack, AdvanceTime, AdvanceTimeOfEmptyBook, bookVars, matchVars, serverVars,
         auxVars, Clean
    <3>2. LedgerInv'
      BY <2>3, <3>1, LedgerUntouched
    <3> QED
      BY <1>4, <2>2, <3>2
  <2> QED
    BY <2>4, <2>5, <2>6
<1>7. ASSUME NEW c \in Conn, Switch(c)
      PROVE  LegsLedger'
  <2>1. /\ pc = "idle" /\ legsDone = 0 /\ c \in Conn \ {running}
        /\ UNCHANGED <<currencies, auxVars>>
        /\ sales' = parked[c].sales /\ legsDone' = parked[c].legsDone
    BY <1>2, <1>7, OneAtATime DEF Switch, Runnable
  <2>2. HandlerInv(parked[c]) /\ parked[c].pc = "idle"
    BY <1>2, <2>1 DEF WorkersInv, OneInv
  <2>3. sales = <<>> /\ sales' = <<>> /\ legsDone' = 0
    BY <1>3, <2>1, <2>2 DEF HandlerInv, SettlementOf, RunningInv, ControlInv
  <2>4. UNCHANGED <<sales, currencies, owed>> /\ (Clean' => Clean)
    BY <2>1, <2>3 DEF auxVars, Clean
  <2>5. LedgerInv'
    BY <1>4, <2>1, <2>3, <2>4, LedgerUntouched
  <2> QED
    BY <1>4, <2>1, <2>3, <2>5
<1>8. CASE UNCHANGED <<vars, workerVars>>
  <2>1. UNCHANGED <<sales, owed, call, currencies, flags, legsDone>>
    BY <1>8 DEF vars, workerVars, ownVars, serverVars, auxVars, bookVars, matchVars
  <2> SUFFICES ASSUME Clean PROVE \E w, r : (IsLedger(w, r) /\ Balances = MovedBy(w))'
    BY <2>1 DEF LegsLedger, Clean
  <2>2. PICK w, r : IsLedger(w, r) /\ Balances = MovedBy(w)
    BY <1>2 DEF LegsLedger
  <2>3. IsLedger(w, r)'
    BY <2>1, <2>2, LedgerFrame
  <2>4. Balances' = Balances /\ MovedBy(w)' = MovedBy(w)
    BY <2>1 DEF Balances, MovedBy, Legs, sale, Value
  <2> QED
    BY <2>2, <2>3, <2>4
<1> QED
  BY <1>2, <1>5, <1>6, <1>7, <1>8, OneAtATime DEF WorkersNext

\* On one worker, however many pages: between two handlers the wallet is what the
\* fills add up to, so that no credit and no debit of one page is lost between a
\* read and a write of another's.
THEOREM WorkersWalletFollowsFills == WorkersSpec => []WalletFollowsFills
<1>1. WorkersInit => LegsLedger
  <2> SUFFICES ASSUME WorkersInit, OneWorker PROVE LegsLedger
    BY DEF LegsLedger
  <2>1. legsDone = 0 /\ LedgerInv
    BY LedgerInit DEF WorkersInit
  <2> QED
    BY <2>1, LegsLedgerBetween
<1>2. WorkersInv /\ LegsLedger => WalletFollowsFills
  <2> SUFFICES ASSUME WorkersInv, LegsLedger, OneWorker, AllIdle, Clean, NEW c \in Currency
               PROVE  BalanceOf(currencies, c) = owed[c]
    BY DEF WalletFollowsFills, Clean
  <2>1. running \in Conn /\ LocalsOf(running).pc = "idle"
    BY DEF WorkersInv, AllIdle
  <2>2. pc = "idle" /\ RunningInv
    BY <2>1, RunningIsHandler DEF LocalsOf, Locals, WorkersInv
  <2>3. sales = <<>> /\ Len(sales) = 0 /\ legsDone = 0
    BY <2>2 DEF RunningInv, ControlInv, SettlementInv, Settling
  <2>4. PICK r : IsLedger(Balances, r)
    BY <2>3, LegsLedgerBetween DEF LedgerInv
  <2> QED
    BY <2>3, <2>4 DEF IsLedger, Balances
<1>3. WorkersSpec => []LegsLedger
  BY <1>1, LegsLedgerStep, WorkersInvariant, OneWorkerInvariant, PTL DEF WorkersSpec
<1> QED
  BY <1>2, <1>3, WorkersInvariant, PTL

-----------------------------------------------------------------------------
(* One worker serves: the variables Trading sees are the server's own while no     *)
(* settlement is under way.  The operators that Served has of its own are          *)
(* Trading's.                                                                      *)

AtRest == /\ servedCurrencies = currencies /\ servedUi = ui /\ servedSales = sales
          /\ servedPc = pc /\ servedTodo = todo /\ servedFlags = flags

\* Between two settlements nothing is ahead of the server.
LEMMA BetweenIsAtRest == legsDone = 0 => AtRest
BY DEF AtRest, servedCurrencies, servedUi, servedSales, servedPc, servedTodo, servedFlags,
   WillThrow, WillRefuse

\* Cardinalities, selections and sorts are the same.
LEMMA ServedCardinality == \A S : Served!Cardinality(S) = Cardinality(S)
BY DEF Served!Cardinality, Cardinality

\* A selection of a vector.
LEMMA ServedAt == ASSUME NEW s, NEW K PROVE Served!At(s, K) = At(s, K)
<1>1. Served!Cardinality(K) = Cardinality(K)
  BY ServedCardinality
<1>2. ASSUME NEW n PROVE Served!Rank(K, n) = Rank(K, n)
  BY ServedCardinality DEF Rank, Served!Rank
<1>3. ASSUME NEW k PROVE Served!Nth(K, k) = Nth(K, k)
  BY <1>2 DEF Nth, Served!Nth
<1> QED
  BY <1>1, <1>3 DEF At, Served!At

\* The sort by time.
LEMMA ServedStableSort ==
    ASSUME NEW s
    PROVE  Served!StableSort(s, Served!comapreByTimestamp) = StableSort(s, comapreByTimestamp)
BY DEF StableSort, Served!StableSort, StablePlace, Served!StablePlace, comapreByTimestamp,
   Served!comapreByTimestamp, Cardinality, Served!Cardinality

\* The sorts by price.
LEMMA ServedSortings ==
    ASSUME NEW s
    PROVE  /\ Served!Sortings(s, Served!comapreByPriceAsc) = Sortings(s, comapreByPriceAsc)
           /\ Served!Sortings(s, Served!comapreByPriceDesc) = Sortings(s, comapreByPriceDesc)
<1>1. \A S : Served!Bijection(S, S) = Bijection(S, S)
  BY DEF Served!Bijection, Bijection, Served!Injection, Injection, Served!Surjection,
     Surjection, Served!IsInjective, IsInjective
<1>2. Served!Sortings(s, Served!comapreByPriceAsc) = Sortings(s, comapreByPriceAsc)
  BY <1>1 DEF Sortings, Served!Sortings, IsSortedBy, Served!IsSortedBy, comapreByPriceAsc,
     Served!comapreByPriceAsc
<1>3. Served!Sortings(s, Served!comapreByPriceDesc) = Sortings(s, comapreByPriceDesc)
  BY <1>1 DEF Sortings, Served!Sortings, IsSortedBy, Served!IsSortedBy, comapreByPriceDesc,
     Served!comapreByPriceDesc
<1> QED
  BY <1>2, <1>3

\* A step at rest that submits an order is Trading's.
LEMMA SubmitServes ==
    ASSUME AtRest, AtRest', NEW side, NEW p, NEW price, NEW amount,
           SubmitOrder(side, p, price, amount)
    PROVE  Served!SubmitOrder(side, p, price, amount)
<1>1. PICK e : e = UserOrder(side, p, price, amount)
  OBVIOUS
<1>2. Served!UserOrder(side, p, price, amount) = e
  BY <1>1 DEF UserOrder, Served!UserOrder, FirstUserId, Served!FirstUserId
<1>3. Served!insertOrder(e)
  <2>1. insertOrder(e) /\ UNCHANGED <<servedSales, sales>>
    BY <1>1 DEF SubmitOrder, AtRest, insertOrder, matchVars
  <2>2. PICK s : s = Append(orders, e)
    OBVIOUS
  <2>3. Served!StableSort(s, Served!comapreByTimestamp) = StableSort(s, comapreByTimestamp)
    BY ServedStableSort
  <2> QED
    BY <2>1, <2>2, <2>3 DEF insertOrder, Served!insertOrder, matchVars, Served!matchVars
<1> QED
  BY <1>1, <1>2, <1>3 DEF AtRest, SubmitOrder, CanAfford, containsCurrency, HasOpenOrder,
     serverVars, Served!SubmitOrder, Served!CanAfford, Served!containsCurrency,
     Served!HasOpenOrder, Served!serverVars

\* The start of a match.
LEMMA MatchProductServes ==
    ASSUME AtRest, AtRest', MatchProduct
    PROVE  Served!MatchProduct
<1>1. ASSUME NEW type, NEW p, NEW t
      PROVE  Served!getOrders(type, p, t) = getOrders(type, p, t)
  BY ServedAt DEF getOrders, Served!getOrders, Visible, Served!Visible
<1>2. ASSUME NEW p, NEW t
      PROVE  /\ Served!Sortings(Served!getOrders("ask", p, t), Served!comapreByPriceAsc)
                  = Sortings(getOrders("ask", p, t), comapreByPriceAsc)
             /\ Served!Sortings(Served!getOrders("bid", p, t), Served!comapreByPriceDesc)
                  = Sortings(getOrders("bid", p, t), comapreByPriceDesc)
  <2>1. PICK a, b : a = getOrders("ask", p, t) /\ b = getOrders("bid", p, t)
    OBVIOUS
  <2>2. Served!getOrders("ask", p, t) = a /\ Served!getOrders("bid", p, t) = b
    BY <1>1, <2>1
  <2>3. /\ Served!Sortings(a, Served!comapreByPriceAsc) = Sortings(a, comapreByPriceAsc)
        /\ Served!Sortings(b, Served!comapreByPriceDesc) = Sortings(b, comapreByPriceDesc)
    BY ServedSortings
  <2> QED
    BY <2>1, <2>2, <2>3
<1>3. ASSUME NEW p, NEW t, MatchEmpty(p, t) \/ MatchBegin(p, t)
      PROVE  Served!MatchEmpty(p, t) \/ Served!MatchBegin(p, t)
  BY <1>1, <1>2, <1>3 DEF AtRest, MatchEmpty, MatchBegin, Served!MatchEmpty, Served!MatchBegin
<1> QED
  BY <1>3 DEF AtRest, MatchProduct, BetweenProducts, matchAsksToBids, Min, auxVars,
     Served!MatchProduct, Served!BetweenProducts, Served!matchAsksToBids, Served!Min,
     Served!auxVars

\* A step of the loop.
LEMMA MatchStepServes ==
    ASSUME AtRest, AtRest', MatchStep
    PROVE  Served!MatchStep
BY DEF AtRest, MatchStep, MatchLoop, LoopStep, OuterSkip, OuterEnter, InnerEnd, InnerSkip,
   FillEqual, FillAsk, FillBid, AtAsk, AtBid, AtCross, BreakToNextAsk, NextBid, SaleOf, Crosses,
   Settled, serverVars, Served!MatchStep, Served!MatchLoop, Served!LoopStep, Served!OuterSkip,
   Served!OuterEnter, Served!InnerEnd, Served!InnerSkip, Served!FillEqual, Served!FillAsk,
   Served!FillBid, Served!AtAsk, Served!AtBid, Served!AtCross, Served!BreakToNextAsk,
   Served!NextBid, Served!SaleOf, Served!Crosses, Served!Settled, Served!serverVars

\* The write-back.
LEMMA MatchReturnServes ==
    ASSUME AtRest, AtRest', MatchReturn
    PROVE  Served!MatchReturn
<1>1. ASSUME NEW e PROVE Served!WrittenBack(e) = WrittenBack(e)
  BY DEF WrittenBack, Served!WrittenBack, Twins, Served!Twins, Max, Served!Max
<1>2. ASSUME NEW s PROVE Served!Erased(s) = Erased(s)
  BY ServedAt DEF Erased, Served!Erased, Live, Served!Live
<1>3. Served!WriteBack
  BY <1>1, <1>2 DEF AtRest, MatchReturn, WriteBack, Served!WriteBack, LoopsDone,
     Served!LoopsDone, serverVars
<1> QED
  BY <1>3 DEF AtRest, MatchReturn, serverVars, auxVars, Served!MatchReturn, Served!serverVars,
     Served!auxVars

\* The start and the end of a frame.
LEMMA FrameEndsServe ==
    ASSUME AtRest, AtRest', NextTimeframe \/ AdvanceTime \/ AdvanceTimeOfEmptyBook
    PROVE  Served!NextTimeframe \/ Served!AdvanceTime \/ Served!AdvanceTimeOfEmptyBook
<1>1. CASE NextTimeframe
  BY <1>1 DEF AtRest, NextTimeframe, KnownProducts, bookVars, matchVars, auxVars,
     Served!NextTimeframe, Served!KnownProducts, Served!bookVars, Served!matchVars,
     Served!auxVars
<1>2. CASE AdvanceTime
  BY <1>2 DEF AtRest, AdvanceTime, BetweenProducts, getNextTime, getEarliestTime, Min, bookVars,
     matchVars, auxVars, Served!AdvanceTime, Served!BetweenProducts, Served!getNextTime,
     Served!getEarliestTime, Served!Min, Served!bookVars, Served!matchVars, Served!auxVars
<1>3. CASE AdvanceTimeOfEmptyBook
  BY <1>3 DEF AtRest, AdvanceTimeOfEmptyBook, BetweenProducts, bookVars, matchVars, auxVars,
     Served!AdvanceTimeOfEmptyBook, Served!BetweenProducts, Served!bookVars, Served!matchVars,
     Served!auxVars
<1> QED
  BY <1>1, <1>2, <1>3

\* The sale of two dataset orders.
LEMMA SkipServes ==
    ASSUME AtRest, AtRest', Skip
    PROVE  Served!SettleSale
<1>1. /\ pc = "frame" /\ returned /\ sales # <<>> /\ Head(sales).username # "simuser"
      /\ sales' = Tail(sales) /\ UNCHANGED <<currencies, ui, pc, todo, flags>>
      /\ UNCHANGED <<orders, call, asks, bids, i, j, returned, currentTime, submitted, owed>>
  BY DEF Skip, Settling, SkipSale, Told, sale
<1>2. Served!SkipSale
  BY <1>1 DEF AtRest, Served!SkipSale, Served!Told, Served!sale
<1> QED
  BY <1>1, <1>2 DEF AtRest, Served!SettleSale

\* The operators of the wallet are the same.
LEMMA ServedWallet ==
    /\ \A w, c, a : Served!insertCurrency(w, c, a) = insertCurrency(w, c, a)
    /\ \A w, c, a : Served!removeCurrency(w, c, a) = removeCurrency(w, c, a)
    /\ \A w, c, a : Served!RemoveSucceeds(w, c, a) <=> RemoveSucceeds(w, c, a)
    /\ \A a : Served!InsertThrows(a) <=> InsertThrows(a)
BY DEF insertCurrency, Served!insertCurrency, removeCurrency, Served!removeCurrency,
   RemoveSucceeds, Served!RemoveSucceeds, containsCurrency, Served!containsCurrency,
   InsertThrows, Served!InsertThrows, BalanceOf, Served!BalanceOf

\* Between two settlements so are what follows of the balances sent, and what does not.
LEMMA ServedUi ==
    ASSUME AtRest
    PROVE  /\ \A b, q : Served!UiMoved(b, q) = UiMoved(b, q)
           /\ Served!Unfollowed = Unfollowed
BY DEF AtRest, UiMoved, Served!UiMoved, UiCurrency, Served!UiCurrency, FollowedBases,
   Served!FollowedBases, FollowedQuotes, Served!FollowedQuotes, Unfollowed, Served!Unfollowed

\* The first leg of a purchase: the server settles it with what the second will do.
LEMMA FirstLegBuys ==
    ASSUME Settling, sale.username = "simuser", Bought, legsDone = 0, legsDone' = 1, LegFrame,
           currencies' = insertCurrency(currencies, Base[call.product], sale.amount),
           UNCHANGED <<sales, ui, pc, todo, flags>>
    PROVE  Served!SettleSale
<1> DEFINE quote == Quote[call.product]
           credited == insertCurrency(currencies, Base[call.product], sale.amount)
<1>1. AtRest
  BY BetweenIsAtRest
<1>2. UNCHANGED <<orders, call, asks, bids, i, j, returned, currentTime, submitted, owed>>
  BY DEF LegFrame
<1>3. sale' = sale /\ Value' = Value /\ Bought' /\ ~WillThrow'
  BY DEF sale, Value, Bought, WillThrow
<1>4. /\ servedCurrencies' = removeCurrency(credited, quote, Value)
      /\ servedUi' = UiMoved(sale.amount, -Value)
      /\ servedSales' = Tail(sales) /\ servedPc' = pc /\ servedTodo' = todo
  BY <1>2, <1>3 DEF servedCurrencies, QuotePaid, servedUi, UiMoved, servedSales, servedPc,
     servedTodo
<1>5. WillRefuse' <=> ~RemoveSucceeds(credited, quote, Value)
  BY <1>2, <1>3 DEF WillRefuse
<1>6. servedFlags' = flags \cup Unfollowed \cup (IF RemoveSucceeds(credited, quote, Value)
                                                  THEN {} ELSE {"refused"})
  <2>1. Unfollowed' = Unfollowed
    BY <1>2 DEF Unfollowed
  <2>2. servedFlags' = flags \cup Unfollowed \cup (IF WillRefuse' THEN {"refused"} ELSE {})
    BY <1>3, <2>1 DEF servedFlags
  <2> QED
    BY <1>5, <2>2
<1>7. /\ Served!sale = sale /\ Served!Value = Value
      /\ \A b, q : Served!UiMoved(b, q) = UiMoved(b, q)
      /\ Served!Unfollowed = Unfollowed
  BY <1>1, ServedUi DEF AtRest, sale, Value, Served!sale, Served!Value
<1>8. Served!Told /\ servedPc' # "idle"
  BY <1>1, <1>4 DEF AtRest, Served!Told, Settling
<1>9. Served!SettleBuy
  BY <1>1, <1>4, <1>6, <1>7, <1>8, ServedWallet DEF Served!SettleBuy, AtRest, Bought
<1> QED
  BY <1>1, <1>2, <1>9 DEF Served!SettleSale, AtRest, Settling

\* The first leg of a sale, refused or not.
LEMMA FirstLegSells ==
    ASSUME Settling, sale.username = "simuser", sale.orderType = "asksale",
           legsDone = 0, legsDone' = 1, LegFrame,
           currencies' = SellDebited, flags' = flags \cup SellRefused,
           UNCHANGED <<sales, ui, pc, todo>>
    PROVE  Served!SettleSale
<1> DEFINE quote == Quote[call.product]
<1>1. AtRest
  BY BetweenIsAtRest
<1>2. UNCHANGED <<orders, call, asks, bids, i, j, returned, currentTime, submitted, owed>>
  BY DEF LegFrame
<1>3. /\ sale' = sale /\ Value' = Value /\ ~Bought' /\ ~WillRefuse'
      /\ WillThrow' <=> InsertThrows(Value)
  BY DEF sale, Value, Bought, WillRefuse, WillThrow, InsertThrows
<1>4. servedCurrencies' = insertCurrency(SellDebited, quote, Value)
  BY <1>2, <1>3 DEF servedCurrencies, QuotePaid
<1>5. /\ Served!sale = sale /\ Served!Value = Value
      /\ Served!SellDebited = SellDebited /\ Served!SellRefused = SellRefused
  BY <1>1, ServedWallet DEF AtRest, sale, Value, Served!sale, Served!Value, SellDebited,
     Served!SellDebited, SellRefused, Served!SellRefused
<1>6. CASE ~InsertThrows(Value)
  <2>1. /\ servedUi' = UiMoved(-sale.amount, Value)
        /\ servedSales' = Tail(sales) /\ servedPc' = pc /\ servedTodo' = todo
        /\ servedFlags' = flags \cup Unfollowed \cup SellRefused
    BY <1>2, <1>3, <1>6 DEF servedUi, UiMoved, servedSales, servedPc, servedTodo, servedFlags,
       Unfollowed
  <2>2. (\A b, q : Served!UiMoved(b, q) = UiMoved(b, q)) /\ Served!Unfollowed = Unfollowed
    BY <1>1, ServedUi
  <2>3. Served!Told
    BY <1>1, <2>1 DEF AtRest, Served!Told
  <2>4. Served!SettleSell
    BY <1>1, <1>4, <1>5, <1>6, <2>1, <2>2, <2>3, ServedWallet DEF Served!SettleSell, AtRest
  <2> QED
    BY <1>1, <1>2, <2>4 DEF Served!SettleSale, AtRest, Settling
<1>7. CASE InsertThrows(Value)
  <2>1. /\ servedUi' = ui /\ servedSales' = <<>> /\ servedPc' = "idle" /\ servedTodo' = {}
        /\ servedFlags' = flags \cup SellRefused \cup {"aborted"}
    BY <1>2, <1>3, <1>7 DEF servedUi, servedSales, servedPc, servedTodo, servedFlags
  <2>2. servedCurrencies' = SellDebited
    BY <1>4, <1>7 DEF insertCurrency
  <2>3. Served!SettleSellAborts
    BY <1>1, <1>5, <1>7, <2>1, <2>2, ServedWallet DEF Served!SettleSellAborts, AtRest
  <2> QED
    BY <1>1, <1>2, <2>3 DEF Served!SettleSale, AtRest, Settling
<1> QED
  BY <1>6, <1>7

\* What of the server a step leaves as Trading sees it.
ServedUntouched == UNCHANGED <<servedCurrencies, servedUi, servedSales, servedPc, servedTodo,
    servedFlags, orders, call, asks, bids, i, j, returned, currentTime, submitted, owed>>

\* It is a stuttering step of Trading.
LEMMA UntouchedStutters == ServedUntouched => UNCHANGED Served!vars
BY DEF ServedUntouched, Served!vars, Served!bookVars, Served!matchVars, Served!serverVars,
   Served!auxVars

\* A read, the second leg and the end of a settlement change nothing Trading sees.
LEMMA LegStutters ==
    ASSUME WorkersInv, OneInv, OneWorker,
           ReadLeg \/ FinishSale \/ (legsDone = 1 /\ (RefuseLeg \/ WriteLeg)) \/ ThrowLeg
    PROVE  UNCHANGED Served!vars
<1>1. SharedInv /\ RunningInv
  BY RunningIsHandler DEF WorkersInv
<1>2. /\ UNCHANGED <<orders, call, asks, bids, i, j, returned, currentTime, submitted, owed>>
      /\ legsDone \in 0..2
  BY <1>1 DEF ReadLeg, FinishSale, RefuseLeg, WriteLeg, ThrowLeg, LegFrame, RunningInv,
     SettlementInv
<1> DEFINE quote == Quote[call.product]
<1>3. CASE ReadLeg
  <2>1. UNCHANGED <<sales, currencies, ui, pc, todo, flags, legsDone, call>>
    BY <1>2, <1>3 DEF ReadLeg
  <2> QED
    BY <1>2, <2>1, UntouchedStutters DEF ServedUntouched, servedCurrencies, servedUi,
       servedSales, servedPc, servedTodo, servedFlags, QuotePaid, UiMoved, Unfollowed, WillThrow,
       WillRefuse, Bought, Value, sale
<1>4. CASE FinishSale
  <2>1. /\ legsDone = 2 /\ legsDone' = 0 /\ sales' = Tail(sales)
        /\ ui' = IF Bought THEN UiMoved(sale.amount, -Value) ELSE UiMoved(-sale.amount, Value)
        /\ flags' = flags \cup Unfollowed /\ UNCHANGED <<currencies, pc, todo>>
    BY <1>4 DEF FinishSale, Told, Bought
  <2>2. ~WillThrow /\ ~WillRefuse
    BY <2>1 DEF WillThrow, WillRefuse
  <2>3. AtRest'
    <3>1. (legsDone = 0 => AtRest)'
      BY BetweenIsAtRest, PTL
    <3> QED
      BY <2>1, <3>1
  <2>4. /\ servedCurrencies = currencies /\ servedUi = ui' /\ servedSales = Tail(sales)
        /\ servedPc = pc /\ servedTodo = todo /\ servedFlags = flags'
    BY <2>1, <2>2 DEF servedCurrencies, servedUi, servedSales, servedPc, servedTodo, servedFlags
  <2> QED
    BY <1>2, <2>1, <2>3, <2>4, UntouchedStutters DEF ServedUntouched, AtRest
<1>5. CASE legsDone = 1 /\ RefuseLeg
  <2>1. /\ Settling /\ NextLeg.op = "remove" /\ legsDone' = 2
        /\ ~RemoveSucceeds(currencies, NextLeg.currency, NextLeg.volume)
        /\ flags' = flags \cup {"refused"} /\ UNCHANGED <<sales, currencies, ui, pc, todo>>
    BY <1>5 DEF RefuseLeg
  <2>2. Bought /\ NextLeg = Leg("remove", quote, Value)
    BY <1>1, <1>5, <2>1, LegProperties DEF Leg
  <2>3. ~RemoveSucceeds(currencies, quote, Value)
    BY <2>1, <2>2 DEF Leg
  <2>4. /\ WillRefuse /\ ~WillThrow /\ ~WillRefuse' /\ ~WillThrow' /\ Bought' = Bought
        /\ sale' = sale /\ Value' = Value
    BY <1>2, <1>5, <2>1, <2>2, <2>3 DEF WillRefuse, WillThrow, Bought, sale, Value
  <2>5. servedCurrencies = currencies
    BY <1>5, <2>2, <2>3 DEF servedCurrencies, QuotePaid, removeCurrency
  <2>6. servedCurrencies' = currencies
    BY <2>1 DEF servedCurrencies
  <2>7. /\ servedUi' = servedUi /\ servedSales' = servedSales /\ servedPc' = servedPc
        /\ servedTodo' = servedTodo /\ servedFlags' = servedFlags
    BY <1>2, <1>5, <2>1, <2>4 DEF servedUi, UiMoved, servedSales, servedPc, servedTodo,
       servedFlags, Unfollowed
  <2> QED
    BY <1>2, <2>5, <2>6, <2>7, UntouchedStutters DEF ServedUntouched
<1>6. CASE legsDone = 1 /\ WriteLeg
  <2>1. /\ Settling /\ legsDone' = 2 /\ UNCHANGED <<sales, ui, pc, todo, flags>>
        /\ currencies' = IF NextLeg.op = "insert"
                         THEN insertCurrency(currencies, NextLeg.currency, NextLeg.volume)
                         ELSE removeCurrency(currencies, NextLeg.currency, NextLeg.volume)
        /\ NextLeg.op = "insert" => ~InsertThrows(NextLeg.volume)
        /\ NextLeg.op = "remove" =>
             RemoveSucceeds(currencies, NextLeg.currency, NextLeg.volume)
    BY <1>1, <1>6, WriteLegCovered DEF WriteLeg, RunningInv, SettlementInv, OneInv
  <2>2. /\ Bought => NextLeg = Leg("remove", quote, Value)
        /\ ~Bought => NextLeg = Leg("insert", quote, Value)
    BY <1>1, <1>6, <2>1, LegProperties
  <2>3. /\ Bought => RemoveSucceeds(currencies, quote, Value)
        /\ ~Bought => ~InsertThrows(Value)
        /\ currencies' = QuotePaid
    BY <2>1, <2>2 DEF Leg, QuotePaid
  <2>4. /\ ~WillRefuse /\ ~WillThrow /\ ~WillRefuse' /\ ~WillThrow' /\ Bought' = Bought
        /\ sale' = sale /\ Value' = Value
    BY <1>2, <1>6, <2>1, <2>3 DEF WillRefuse, WillThrow, Bought, sale, Value
  <2>5. servedCurrencies = QuotePaid /\ servedCurrencies' = currencies'
    BY <1>6, <2>1 DEF servedCurrencies
  <2>6. /\ servedUi' = servedUi /\ servedSales' = servedSales /\ servedPc' = servedPc
        /\ servedTodo' = servedTodo /\ servedFlags' = servedFlags
    BY <1>2, <1>6, <2>1, <2>4 DEF servedUi, UiMoved, servedSales, servedPc, servedTodo,
       servedFlags, Unfollowed
  <2> QED
    BY <1>2, <2>3, <2>5, <2>6, UntouchedStutters DEF ServedUntouched
<1>7. CASE ThrowLeg
  <2>1. /\ Settling /\ NextLeg.op = "insert" /\ InsertThrows(NextLeg.volume) /\ legsDone \in {0, 1}
        /\ sales' = <<>> /\ pc' = "idle" /\ todo' = {} /\ legsDone' = 0
        /\ flags' = flags \cup {"aborted"} /\ UNCHANGED <<currencies, ui>>
    BY <1>2, <1>7 DEF ThrowLeg
  <2>2. legsDone = 1 /\ ~Bought /\ InsertThrows(Value)
    <3>1. CASE Bought
      <4>1. NextLeg = Leg("insert", Base[call.product], sale.amount) /\ sale.amount > 0
            /\ sale.amount \in Int
        BY <1>1, <2>1, <3>1, LegProperties DEF Leg, Sale
      <4> QED
        BY <2>1, <4>1 DEF Leg, InsertThrows
    <3>2. CASE ~Bought
      BY <1>1, <2>1, <3>2, LegProperties DEF Leg
    <3> QED
      BY <3>1, <3>2
  <2>3. WillThrow /\ ~WillRefuse
    BY <2>2 DEF WillThrow, WillRefuse
  <2>4. /\ servedCurrencies = currencies /\ servedUi = ui /\ servedSales = <<>>
        /\ servedPc = "idle" /\ servedTodo = {} /\ servedFlags = flags \cup {"aborted"}
    BY <2>2, <2>3 DEF servedCurrencies, QuotePaid, insertCurrency, servedUi, servedSales,
       servedPc, servedTodo, servedFlags
  <2>5. AtRest'
    <3>1. (legsDone = 0 => AtRest)'
      BY BetweenIsAtRest, PTL
    <3> QED
      BY <2>1, <3>1
  <2> QED
    BY <1>2, <2>1, <2>4, <2>5, UntouchedStutters DEF ServedUntouched, AtRest
<1> QED
  BY <1>3, <1>4, <1>5, <1>6, <1>7

\* Every step of a settlement is one of Trading's or none.
LEMMA SettleServes ==
    ASSUME WorkersInv, OneInv, OneWorker, Settle
    PROVE  Served!SettleSale \/ UNCHANGED Served!vars
<1>1. SharedInv /\ RunningInv
  BY RunningIsHandler DEF WorkersInv
<1>2. /\ legsDone \in 0..2
      /\ legsDone > 0 \/ held # {} => Settling /\ sale.username = "simuser"
      /\ held # {} => legsDone < 2
  BY <1>1 DEF RunningInv, SettlementInv
<1>3. CASE Skip
  <2>1. legsDone = 0 /\ legsDone' = 0
    BY <1>2, <1>3 DEF Skip, SkipSale, workerVars, ownVars
  <2>2. (legsDone = 0 => AtRest)'
    BY BetweenIsAtRest, PTL
  <2> QED
    BY <1>3, <2>1, <2>2, BetweenIsAtRest, SkipServes
<1>4. CASE legsDone = 0 /\ RefuseLeg
  <2>1. /\ Settling /\ sale.username = "simuser" /\ NextLeg.op = "remove" /\ legsDone' = 1
        /\ ~RemoveSucceeds(currencies, NextLeg.currency, NextLeg.volume)
        /\ flags' = flags \cup {"refused"}
        /\ UNCHANGED <<sales, currencies, ui, pc, todo>> /\ LegFrame
    BY <1>4 DEF RefuseLeg
  <2>2. ~Bought /\ NextLeg = Leg("remove", Base[call.product], sale.amount) /\ sale \in Sale
    BY <1>1, <1>4, <2>1, LegProperties DEF Leg
  <2>3. ~RemoveSucceeds(currencies, Base[call.product], sale.amount)
    BY <2>1, <2>2 DEF Leg
  <2>4. SellDebited = currencies /\ SellRefused = {"refused"}
    BY <2>3 DEF SellDebited, removeCurrency, SellRefused
  <2>5. sale.orderType = "asksale"
    BY <2>2 DEF Sale, Bought
  <2> QED
    BY <1>4, <2>1, <2>4, <2>5, FirstLegSells
<1>5. CASE legsDone = 0 /\ WriteLeg
  <2>1. /\ Settling /\ sale.username = "simuser" /\ legsDone' = 1
        /\ UNCHANGED <<sales, ui, pc, todo, flags>> /\ LegFrame
        /\ currencies' = IF NextLeg.op = "insert"
                         THEN insertCurrency(currencies, NextLeg.currency, NextLeg.volume)
                         ELSE removeCurrency(currencies, NextLeg.currency, NextLeg.volume)
        /\ NextLeg.op = "remove" =>
             RemoveSucceeds(currencies, NextLeg.currency, NextLeg.volume)
    BY <1>2, <1>5, WriteLegCovered DEF WriteLeg
  <2>2. /\ Bought => NextLeg = Leg("insert", Base[call.product], sale.amount)
        /\ ~Bought => NextLeg = Leg("remove", Base[call.product], sale.amount)
        /\ sale \in Sale
    BY <1>1, <1>5, <2>1, LegProperties
  <2>3. CASE Bought
    <3>1. currencies' = insertCurrency(currencies, Base[call.product], sale.amount)
      BY <2>1, <2>2, <2>3 DEF Leg
    <3> QED
      BY <1>5, <2>1, <2>3, <3>1, FirstLegBuys
  <2>4. CASE ~Bought
    <3>1. /\ currencies' = removeCurrency(currencies, Base[call.product], sale.amount)
          /\ RemoveSucceeds(currencies, Base[call.product], sale.amount)
      BY <2>1, <2>2, <2>4 DEF Leg
    <3>2. currencies' = SellDebited /\ flags' = flags \cup SellRefused
      BY <2>1, <3>1 DEF SellDebited, SellRefused
    <3>3. sale.orderType = "asksale"
      BY <2>2, <2>4 DEF Sale, Bought
    <3> QED
      BY <1>5, <2>1, <3>2, <3>3, FirstLegSells
  <2> QED
    BY <2>3, <2>4
<1>6. legsDone \in {0, 1} \/ ~(RefuseLeg \/ WriteLeg)
  BY <1>2 DEF RefuseLeg, WriteLeg
<1> QED
  BY <1>3, <1>4, <1>5, <1>6, LegStutters DEF Settle

\* Every step on one worker is one of Trading's or none.
LEMMA StepServes ==
    ASSUME WorkersInv, OneInv, OneWorker, [WorkersNext]_<<vars, workerVars>>
    PROVE  [Served!Next]_(Served!vars)
<1>1. SharedInv /\ RunningInv
  BY RunningIsHandler DEF WorkersInv
<1>2. (legsDone = 0 => AtRest)'
  BY BetweenIsAtRest, PTL
<1>3. CASE \/ Walk
           \/ \E side \in {"buy", "sell"}, p \in Product,
                 price \in OfferPrices, amount \in OfferAmounts : Submit(side, p, price, amount)
  <2>1. ~Settling /\ UNCHANGED workerVars
    BY <1>3 DEF Walk, Submit, SubmitOrder, NextTimeframe, MatchProduct, MatchStep, MatchLoop,
       LoopStep, OuterSkip, OuterEnter, InnerEnd, InnerSkip, FillEqual, FillAsk, FillBid, AtAsk,
       AtBid, AtCross, MatchReturn, WriteBack, LoopsDone, AdvanceTime, AdvanceTimeOfEmptyBook,
       BetweenProducts, Settling
  <2>2. legsDone = 0 /\ legsDone' = 0
    BY <1>1, <2>1 DEF RunningInv, SettlementInv, workerVars, ownVars
  <2>3. AtRest /\ AtRest'
    BY <1>2, <2>2, BetweenIsAtRest
  <2>4. ASSUME NEW side \in {"buy", "sell"}, NEW p \in Product,
               NEW price \in OfferPrices, NEW amount \in OfferAmounts,
               Submit(side, p, price, amount)
        PROVE  Served!Next
    <3>1. Served!SubmitOrder(side, p, price, amount)
      BY <2>3, <2>4, SubmitServes DEF Submit
    <3> QED
      BY <3>1 DEF Served!Next
  <2>5. CASE Walk
    BY <2>3, <2>5, MatchProductServes, MatchStepServes, MatchReturnServes, FrameEndsServe
       DEF Walk, Served!Next, Served!FrameStep
  <2> QED
    BY <1>3, <2>4, <2>5
<1>4. CASE Settle
  BY <1>4, SettleServes DEF Served!Next, Served!FrameStep
<1>5. ASSUME NEW c \in Conn, Switch(c)
      PROVE  UNCHANGED Served!vars
  <2>1. /\ pc = "idle" /\ legsDone = 0 /\ c \in Conn \ {running}
        /\ UNCHANGED <<orders, currencies, ui, currentTime, auxVars>>
    BY <1>5, OneAtATime DEF Switch, Runnable
  <2>2. PICK l : l = parked[c]
    OBVIOUS
  <2>3. HandlerInv(l) /\ l.pc = "idle"
    BY <2>1, <2>2 DEF WorkersInv, OneInv
  <2>4. /\ pc' = l.pc /\ todo' = l.todo /\ asks' = l.asks /\ bids' = l.bids
        /\ call' = IF l.pc = "idle" THEN call ELSE l.call
        /\ sales' = l.sales /\ i' = l.i /\ j' = l.j
        /\ returned' = l.returned /\ legsDone' = l.legsDone
    BY <1>5, <2>2 DEF Switch
  <2>5. /\ l.todo = {} /\ l.asks = <<>> /\ l.bids = <<>> /\ l.sales = <<>> /\ l.i = 1
        /\ l.j = 0 /\ l.returned = TRUE /\ l.legsDone = 0
    BY <2>3 DEF HandlerInv, LoopOf, SettlementOf
  <2>6. /\ todo = {} /\ asks = <<>> /\ bids = <<>> /\ sales = <<>> /\ i = 1 /\ j = 0
        /\ returned = TRUE
    BY <1>1, <2>1 DEF RunningInv, ControlInv, LoopInv, MatchTypeOK
  <2>7. UNCHANGED <<pc, todo, asks, bids, call, sales, i, j, returned, submitted, owed, flags>>
    BY <2>1, <2>3, <2>4, <2>5, <2>6 DEF auxVars
  <2>8. AtRest /\ AtRest'
    BY <1>2, <2>1, <2>4, <2>5, BetweenIsAtRest
  <2> QED
    BY <2>1, <2>7, <2>8, UntouchedStutters DEF ServedUntouched, AtRest
<1>6. CASE UNCHANGED <<vars, workerVars>>
  <2>1. /\ UNCHANGED <<orders, call, asks, bids, sales, i, j, returned>>
        /\ UNCHANGED <<currencies, ui, currentTime, pc, todo, submitted, owed, flags, legsDone>>
    BY <1>6 DEF vars, bookVars, matchVars, serverVars, auxVars, workerVars, ownVars
  <2> QED
    BY <2>1, UntouchedStutters DEF ServedUntouched, servedCurrencies, servedUi, servedSales,
       servedPc, servedTodo, servedFlags, QuotePaid, UiMoved, Unfollowed, WillThrow, WillRefuse,
       Bought, Value, sale
<1> QED
  BY <1>3, <1>4, <1>5, <1>6, OneAtATime DEF WorkersNext

\* As long as one worker runs all handlers, the pages share the server as one page has
\* it: a settlement done leg by leg is one step, and whoever is served next, nothing a
\* handler holds is from before another's match or settlement.
THEOREM WorkersServeOneByOne == WorkersSpec => OneWorkerServes
<1>1. WorkersInv /\ OneInv /\ [WorkersNext]_<<vars, workerVars>>
        => [OneWorker => [Served!Next]_(Served!vars)]_<<vars, workerVars>>
  BY StepServes
<1> QED
  BY <1>1, WorkersInvariant, OneWorkerInvariant, PTL DEF WorkersSpec, OneWorkerServes

\* With all connections on one worker, several pages are an implementation of the
\* server with one: whatever holds of every behaviour of Trading holds of them.
THEOREM OneWorkerIsTrading == WorkersSpec /\ OneWorker => Served!Spec
<1>1. WorkersInit => Served!Init
  <2> SUFFICES ASSUME WorkersInit PROVE Served!Init
    OBVIOUS
  <2>1. Init /\ AtRest
    BY BetweenIsAtRest DEF WorkersInit
  <2> QED
    BY <2>1 DEF AtRest, Init, LocalsDead, StartFunds, BalanceOf, UiCurrency, getEarliestTime,
       Served!Init, Served!LocalsDead, Served!StartFunds, Served!BalanceOf, Served!UiCurrency,
       Served!getEarliestTime
<1>2. OneWorker /\ [WorkersNext]_<<vars, workerVars>> => OneWorker'
  <2> SUFFICES ASSUME OneWorker, [WorkersNext]_<<vars, workerVars>> PROVE OneWorker'
    OBVIOUS
  <2>1. UNCHANGED workerOf
    BY DEF WorkersNext, Submit, Walk, Settle, Switch, RaceCrash, Skip, ReadLeg, RefuseLeg,
       ThrowLeg, WriteLeg, FinishSale, LegFrame, workerVars
  <2> QED
    BY <2>1 DEF OneWorker
<1>3. WorkersInv /\ OneInv /\ OneWorker /\ [WorkersNext]_<<vars, workerVars>>
        => [Served!Next]_(Served!vars)
  BY StepServes
<1> QED
  BY <1>1, <1>2, <1>3, WorkersInvariant, OneWorkerInvariant, PTL DEF WorkersSpec, Served!Spec
=============================================================================
