---------------------------- MODULE ConsoleProofs ----------------------------
(***************************************************************************)
(* Proofs about the console program: its type invariant, that its wallet   *)
(* never holds a third currency, and that only overlapping orders or       *)
(* orders with negative numbers can overdraw it, for every file and every  *)
(* number the user may type.  Console's processSale tests no balance, so   *)
(* the argument is again a budget: what the user's one order can still     *)
(* cost is covered by what the unsettled sales leave of the balance.       *)
(***************************************************************************)
EXTENDS Console, OrderBookProofs

-----------------------------------------------------------------------------
(* The wallet *)

\* v is w with a more in the balance of c.
Moved(v, w, c, a) ==
    /\ IsWallet(v) /\ DOMAIN v = DOMAIN w \cup {c}
    /\ \A e : BalanceOf(v, e) = BalanceOf(w, e) + (IF e = c THEN a ELSE 0)

\* Adding to a currency adds to its balance and to no other, and creates it.
LEMMA AddedToProperties ==
    ASSUME NEW w, IsWallet(w), NEW c \in Currency, NEW a \in Int
    PROVE  Moved(AddedTo(w, c, a), w, c, a)
<1> DEFINE v == AddedTo(w, c, a)
<1>1. \A e : BalanceOf(w, e) \in Int
  BY DEF IsWallet, BalanceOf
<1>2. /\ DOMAIN v = DOMAIN w \cup {c}
      /\ \A e \in DOMAIN v : v[e] = BalanceOf(w, e) + (IF e = c THEN a ELSE 0)
      /\ v = [e \in DOMAIN v |-> v[e]]
  BY DEF AddedTo
<1> HIDE DEF v
<1>3. \A e \in DOMAIN v : v[e] \in Int
  BY <1>1, <1>2
<1>4. IsWallet(v)
  BY <1>2, <1>3 DEF IsWallet
<1>5. ASSUME NEW e
      PROVE  BalanceOf(v, e) = BalanceOf(w, e) + (IF e = c THEN a ELSE 0)
  <2>1. CASE e \in DOMAIN v
    BY <1>2, <2>1 DEF BalanceOf
  <2>2. CASE e \notin DOMAIN v
    <3>1. BalanceOf(v, e) = 0 /\ BalanceOf(w, e) = 0 /\ e # c
      BY <1>2, <2>2 DEF BalanceOf
    <3> QED
      BY <3>1
  <2> QED
    BY <2>1, <2>2
<1> QED
  BY <1>2, <1>4, <1>5 DEF v, Moved

\* v is w after the sale s of base for quote.
SaleMoves(v, w, s, base, quote) ==
    LET value == s.amount * s.price
    IN  /\ IsWallet(v) /\ DOMAIN v = DOMAIN w \cup {base, quote}
        /\ s.orderType = "asksale" =>
             /\ BalanceOf(v, base) = BalanceOf(w, base) - s.amount
             /\ BalanceOf(v, quote) = BalanceOf(w, quote) + value
        /\ s.orderType # "asksale" =>
             /\ BalanceOf(v, base) = BalanceOf(w, base) + s.amount
             /\ BalanceOf(v, quote) = BalanceOf(w, quote) - value
        /\ \A e : e \notin {base, quote} => BalanceOf(v, e) = BalanceOf(w, e)

\* A sale moves its amount and its value between the two balances of the product,
\* whatever they are.
LEMMA ProcessSaleProperties ==
    ASSUME NEW w, IsWallet(w), NEW s \in Sale, NEW base \in Currency, NEW quote \in Currency,
           base # quote
    PROVE  SaleMoves(processSale(w, s, base, quote), w, s, base, quote)
<1> DEFINE v == processSale(w, s, base, quote)
<1>1. s.amount \in Int /\ s.price \in Int
  BY DEF Sale
<1> PICK a \in Int : a = s.amount
  BY <1>1
<1> PICK x \in Int : x = s.amount * s.price
  BY <1>1
<1>2. \A e : BalanceOf(w, e) \in Int
  BY DEF IsWallet, BalanceOf
<1>3. CASE s.orderType = "asksale"
  <2> PICK u : u = AddedTo(w, quote, x)
    OBVIOUS
  <2>1. Moved(u, w, quote, x)
    BY AddedToProperties
  <2>2. IsWallet(u)
    BY <2>1 DEF Moved
  <2>3. -a \in Int /\ v = AddedTo(u, base, -a)
    BY <1>3 DEF processSale
  <2> HIDE DEF v
  <2>4. Moved(v, u, base, -a)
    BY <2>3, <2>2, AddedToProperties
  <2>5. /\ BalanceOf(v, base) = BalanceOf(w, base) - a
        /\ BalanceOf(v, quote) = BalanceOf(w, quote) + x
        /\ \A e : e \notin {base, quote} => BalanceOf(v, e) = BalanceOf(w, e)
    BY <1>2, <2>1, <2>4 DEF Moved
  <2> QED
    BY <1>3, <2>1, <2>4, <2>5 DEF v, Moved, SaleMoves
<1>4. CASE s.orderType # "asksale"
  <2> PICK u : u = AddedTo(w, base, a)
    OBVIOUS
  <2>1. Moved(u, w, base, a)
    BY AddedToProperties
  <2>2. IsWallet(u)
    BY <2>1 DEF Moved
  <2>3. -x \in Int /\ v = AddedTo(u, quote, -x)
    BY <1>4 DEF processSale
  <2> HIDE DEF v
  <2>4. Moved(v, u, quote, -x)
    BY <2>3, <2>2, AddedToProperties
  <2>5. /\ BalanceOf(v, quote) = BalanceOf(w, quote) - x
        /\ BalanceOf(v, base) = BalanceOf(w, base) + a
        /\ \A e : e \notin {base, quote} => BalanceOf(v, e) = BalanceOf(w, e)
    BY <1>2, <2>1, <2>4 DEF Moved
  <2> QED
    BY <1>4, <2>1, <2>4, <2>5 DEF v, Moved, SaleMoves
<1> QED
  BY <1>3, <1>4

-----------------------------------------------------------------------------
(* The invariant of the program: types, the order of the book, the loop        *)
(* invariant (dead orders among the copies included), and what a frame trades. *)

ConsoleInv ==
    /\ TypeOK /\ BookSorted /\ LoopInv /\ CopiesFromBook
    /\ pc = "frame" => call.product = EthBtc
    /\ SalesPositive /\ HoldsEthAndBtcOnly

\* A frame is over no order yet when the program starts.
LEMMA ConsoleInit == Init => ConsoleInv
<1> SUFFICES ASSUME Init PROVE ConsoleInv
  OBVIOUS
<1>1. /\ orders \in Seq(Entry) /\ orders # <<>> /\ IsSortedBy(orders, comapreByTimestamp)
      /\ asks = <<>> /\ bids = <<>> /\ sales = <<>> /\ i = 1 /\ j = 0 /\ returned = TRUE
  BY ConsoleFiles DEF Init, LocalsDead
<1>2. MatchTypeOK
  BY <1>1 DEF MatchTypeOK
<1>3. LoopInv
  BY <1>1, <1>2 DEF LoopInv, IsSortedBy, LoopPosition, PassedAsks, PassedBids, Live
<1>4. currentTime \in Nat
  <2>1. orders[1] \in Entry
    BY <1>1
  <2> QED
    BY <2>1 DEF Init, getEarliestTime, Entry
<1>5. IsWallet(currencies) /\ HoldsEthAndBtcOnly
  BY ConsoleProducts, ConsoleInputs DEF Init, IsWallet, HoldsEthAndBtcOnly
<1>6. call \in [product : Nat, timestamp : Nat]
  BY DEF Init
<1> QED
  BY <1>1, <1>2, <1>3, <1>4, <1>5, <1>6, ConsoleInputs
     DEF Init, ConsoleInv, TypeOK, BookSorted, CopiesFromBook, SalesPositive

\* The order that enterAsk and enterBid build.
LEMMA TypedType ==
    ASSUME TypeOK, NEW side \in {"ask", "bid"}, NEW p \in Product,
           NEW price \in OfferPrices, NEW amount \in OfferAmounts
    PROVE  Typed(side, p, price, amount) \in Entry
<1>1. FirstUserId + submitted \in Nat
  BY ConsoleInputs DEF TypeOK, FirstUserId
<1> QED
  BY <1>1, ConsoleProducts, ConsoleInputs DEF TypeOK, Typed, Entry, OrderBookType, User

\* What insertOrder makes of a book in which there may be dead orders.
LEMMA Inserted ==
    ASSUME orders \in Seq(Entry), NEW e \in Entry, insertOrder(e)
    PROVE  LET s == Append(orders, e)
           IN  /\ s \in Seq(Entry) /\ DOMAIN s = DOMAIN orders \cup {Len(s)}
               /\ s[Len(s)] = e /\ Len(s) \notin DOMAIN orders
               /\ \A n \in DOMAIN orders : s[n] = orders[n]
               /\ orders' \in Seq(Entry) /\ BookSorted' /\ DrawnFrom(orders', s)
<1> DEFINE s == Append(orders, e)
<1>1. /\ s \in Seq(Entry) /\ DOMAIN s = DOMAIN orders \cup {Len(s)}
      /\ s[Len(s)] = e /\ Len(s) \notin DOMAIN orders
      /\ \A n \in DOMAIN orders : s[n] = orders[n]
  OBVIOUS
<1> HIDE DEF s
<1>2. /\ StableSort(s, comapreByTimestamp) \in Seq(Entry)
      /\ IsSortedBy(StableSort(s, comapreByTimestamp), comapreByTimestamp)
      /\ DrawnFrom(StableSort(s, comapreByTimestamp), s)
  BY <1>1, StableSortProperties
<1>3. orders' = StableSort(s, comapreByTimestamp)
  BY DEF insertOrder, s
<1> QED
  BY <1>1, <1>2, <1>3 DEF BookSorted, s

\* Whatever the user types keeps the invariant.
LEMMA EnterKeepsInv ==
    ASSUME ConsoleInv, NEW e \in Entry, Enter(e)
    PROVE  ConsoleInv'
<1>1. /\ pc = "menu" /\ returned /\ sales = <<>> /\ UNCHANGED <<call, matchVars, consoleVars>>
      /\ insertOrder(e)
  BY DEF Enter, insertOrder, ConsoleInv, TypeOK
<1>2. orders' \in Seq(Entry) /\ BookSorted'
  BY <1>1, Inserted DEF ConsoleInv, TypeOK
<1>3. LoopInv' /\ MatchTypeOK'
  BY <1>1, LoopUnchanged DEF ConsoleInv
<1>4. submitted' \in 0..MaxOrders /\ flags' \subseteq Flag
  BY ConsoleInputs DEF Enter, ConsoleInv, TypeOK, Flag
<1>5. TypeOK'
  BY <1>1, <1>2, <1>3, <1>4 DEF ConsoleInv, TypeOK, consoleVars, matchVars
<1> QED
  BY <1>1, <1>2, <1>3, <1>5
     DEF ConsoleInv, consoleVars, matchVars, CopiesFromBook, SalesPositive, HoldsEthAndBtcOnly

\* "continue" starts the match of ETH/BTC, also with dead orders in the book.
LEMMA FrameBegins ==
    ASSUME ConsoleInv, gotoNextTimeframe
    PROVE  ConsoleInv'
<1>1. /\ pc = "menu" /\ pc' = "frame" /\ UNCHANGED <<currencies, currentTime, auxVars>>
      /\ returned /\ sales = <<>> /\ orders \in Seq(Entry) /\ currentTime \in Nat
      /\ EthBtc \in Nat
  BY ConsoleProducts DEF gotoNextTimeframe, ConsoleInv, TypeOK
<1>2. CASE MatchEmpty(EthBtc, currentTime)
  <2>1. /\ call' = [product |-> EthBtc, timestamp |-> currentTime]
        /\ sales' = <<>> /\ UNCHANGED <<orders, asks, bids, sales, i, j, returned>>
    BY <1>1, <1>2 DEF MatchEmpty
  <2>2. LoopInv' /\ MatchTypeOK'
    BY <2>1, LoopUnchanged DEF ConsoleInv, matchVars
  <2>3. TypeOK'
    BY <1>1, <2>1, <2>2 DEF ConsoleInv, TypeOK, auxVars
  <2> QED
    BY <1>1, <2>1, <2>2, <2>3 DEF ConsoleInv, BookSorted, CopiesFromBook, SalesPositive,
       HoldsEthAndBtcOnly
<1>3. CASE MatchBegin(EthBtc, currentTime)
  <2>1. /\ call' = [product |-> EthBtc, timestamp |-> currentTime]
        /\ sales' = <<>> /\ UNCHANGED orders
    BY <1>3 DEF MatchBegin
  <2>2. LoopInv' /\ MatchTypeOK'
    BY <1>1, <1>3, MatchBeginStarts DEF LoopInv
  <2>3. CopiesFromBook'
    BY <1>1, <1>3, MatchBeginCopies
  <2>4. TypeOK'
    BY <1>1, <2>1, <2>2 DEF ConsoleInv, TypeOK, auxVars
  <2> QED
    BY <1>1, <2>1, <2>2, <2>3, <2>4 DEF ConsoleInv, BookSorted, SalesPositive,
       HoldsEthAndBtcOnly
<1> QED
  BY <1>2, <1>3 DEF gotoNextTimeframe, matchAsksToBids

\* No step of the match sells nothing or less, whatever amounts the copies have.
LEMMA LoopKeepsConsoleInv ==
    ASSUME ConsoleInv, pc = "frame", MatchLoop, UNCHANGED <<consoleVars, auxVars>>
    PROVE  ConsoleInv'
<1>1. LoopInv /\ LoopStep /\ UNCHANGED <<orders, call, currencies, currentTime, pc, submitted, flags>>
  BY DEF ConsoleInv, MatchLoop, consoleVars, auxVars
<1>2. LoopInv' /\ MatchTypeOK'
  BY <1>1, LoopInvStep DEF MatchNext, LoopInv
<1>3. CopiesFromBook'
  BY <1>1, LoopKeepsOwners DEF ConsoleInv
<1>4. SalesPositive'
  <2>1. CASE OuterSkip \/ OuterEnter \/ InnerEnd \/ InnerSkip
    BY <2>1 DEF ConsoleInv, SalesPositive, OuterSkip, OuterEnter, InnerEnd, InnerSkip
  <2>2. CASE FillEqual \/ FillAsk \/ FillBid
    <3>1. PICK x \in Int : x > 0 /\ sales' = Append(sales, SaleOf(asks[i], bids[j], x))
      BY <1>1, <2>2, FillCases
    <3>2. SaleOf(asks[i], bids[j], x).amount = x
      BY DEF SaleOf
    <3>3. sales \in Seq(Sale)
      BY DEF ConsoleInv, TypeOK, MatchTypeOK
    <3> QED
      BY <3>1, <3>2, <3>3 DEF ConsoleInv, SalesPositive
  <2> QED
    BY <1>1, <2>1, <2>2 DEF LoopStep
<1>5. TypeOK'
  BY <1>1, <1>2 DEF ConsoleInv, TypeOK
<1> QED
  BY <1>1, <1>2, <1>3, <1>4, <1>5 DEF ConsoleInv, BookSorted, HoldsEthAndBtcOnly

\* The write-back erases the dead orders and keeps the rest.
LEMMA WriteBackKeepsConsoleInv ==
    ASSUME ConsoleInv, pc = "frame", WriteBack, UNCHANGED <<consoleVars, auxVars>>
    PROVE  ConsoleInv'
<1>1. /\ orders \in Seq(Entry) /\ asks \in Seq(Entry) /\ bids \in Seq(Entry) /\ BookSorted
      /\ sales \in Seq(Sale)
  BY DEF ConsoleInv, TypeOK, MatchTypeOK
<1>2. orders' \in Seq(Entry) /\ BookSorted'
  BY <1>1, WriteBackLeaves DEF BookSorted
<1>3. /\ asks' = <<>> /\ bids' = <<>> /\ i' = 1 /\ j' = 0 /\ returned' = TRUE
      /\ UNCHANGED <<sales, call, currencies, currentTime, pc, submitted, flags>>
  BY DEF WriteBack, consoleVars, auxVars
<1>4. MatchTypeOK'
  BY <1>1, <1>3 DEF MatchTypeOK
<1>5. LoopInv'
  BY <1>3, <1>4 DEF LoopInv, IsSortedBy, LoopPosition, PassedAsks, PassedBids, Live
<1>6. TypeOK'
  BY <1>2, <1>3, <1>4 DEF ConsoleInv, TypeOK
<1> QED
  BY <1>2, <1>3, <1>5, <1>6 DEF ConsoleInv, CopiesFromBook, SalesPositive, HoldsEthAndBtcOnly

\* The sale that is settled next, and the vector without it.
LEMMA FirstSale ==
    ASSUME ConsoleInv, AtSale
    PROVE  /\ Head(sales) = sales[1] /\ sales[1] \in Sale /\ sales[1].amount > 0
           /\ Len(sales) \in Nat /\ Len(sales) >= 1
           /\ Tail(sales) \in Seq(Sale) /\ Len(Tail(sales)) = Len(sales) - 1
           /\ \A k \in 1..Len(sales) - 1 : Tail(sales)[k] = sales[k + 1]
<1>1. sales \in Seq(Sale) /\ sales # <<>>
  BY DEF ConsoleInv, TypeOK, MatchTypeOK, AtSale
<1>2. 1 \in DOMAIN sales
  BY <1>1
<1> QED
  BY <1>1, <1>2 DEF ConsoleInv, SalesPositive

\* What a settlement does to the wallet.
LEMMA SettledWallet ==
    ASSUME ConsoleInv, Settle
    PROVE  SaleMoves(currencies', currencies, sales[1], "ETH", "BTC")
<1>1. AtSale /\ sales[1] \in Sale /\ Head(sales) = sales[1]
  BY FirstSale DEF Settle
<1>2. currencies' = processSale(currencies, sales[1], "ETH", "BTC")
  BY <1>1, ConsoleProducts DEF Settle, AtSale, ConsoleInv
<1>3. IsWallet(currencies) /\ "ETH" \in Currency /\ "BTC" \in Currency /\ "ETH" # "BTC"
  BY ConsoleProducts DEF ConsoleInv, TypeOK
<1> QED
  BY <1>1, <1>2, <1>3, ProcessSaleProperties

\* Settling a sale, the user's or another's, keeps the invariant.
LEMMA SettlementKeepsConsoleInv ==
    ASSUME ConsoleInv, SkipSale \/ Settle
    PROVE  ConsoleInv'
<1>1. /\ AtSale /\ sales' = Tail(sales) /\ pc = "frame" /\ returned
      /\ UNCHANGED <<orders, call, asks, bids, i, j, returned, currentTime, pc, submitted, flags>>
  BY DEF SkipSale, Settle, AtSale, consoleVars, auxVars
<1>2. IsWallet(currencies') /\ HoldsEthAndBtcOnly'
  <2>1. CASE SkipSale
    BY <2>1 DEF SkipSale, consoleVars, ConsoleInv, TypeOK, HoldsEthAndBtcOnly
  <2>2. CASE Settle
    BY <2>2, SettledWallet DEF SaleMoves, ConsoleInv, HoldsEthAndBtcOnly
  <2> QED
    BY <2>1, <2>2
<1>3. sales' \in Seq(Sale) /\ SalesPositive'
  <2>1. ASSUME NEW k \in DOMAIN sales' PROVE sales'[k].amount > 0
    <3>1. k \in 1..Len(sales) - 1 /\ k + 1 \in DOMAIN sales /\ sales'[k] = sales[k + 1]
      <4>1. sales \in Seq(Sale)
        BY DEF ConsoleInv, TypeOK, MatchTypeOK
      <4> QED
        BY <1>1, <4>1, FirstSale
    <3> QED
      BY <3>1 DEF ConsoleInv, SalesPositive
  <2> QED
    BY <1>1, <2>1, FirstSale DEF SalesPositive
<1>4. MatchTypeOK'
  BY <1>1, <1>3 DEF ConsoleInv, TypeOK, MatchTypeOK
<1>5. LoopInv'
  BY <1>1, <1>4 DEF ConsoleInv, LoopInv, IsSortedBy, LoopPosition, PassedAsks, PassedBids,
     Live, Crosses, comapreByPriceAsc, comapreByPriceDesc
<1>6. TypeOK'
  BY <1>1, <1>2, <1>4 DEF ConsoleInv, TypeOK
<1> QED
  BY <1>1, <1>2, <1>3, <1>5, <1>6 DEF ConsoleInv, BookSorted, CopiesFromBook

\* The end of a frame, in a book with orders or an empty one, and the bid that reads
\* past the end of a vector.
LEMMA OtherStepsKeepConsoleInv ==
    ASSUME ConsoleInv,
           \/ AdvanceTime \/ AdvanceTimeOfEmptyBook \/ UNCHANGED vars
           \/ \E p \in Product : enterBareBid(p)
    PROVE  ConsoleInv'
<1>1. UNCHANGED <<bookVars, currencies, submitted, flags>>
  BY DEF AdvanceTime, AdvanceTimeOfEmptyBook, enterBareBid, vars, consoleVars, auxVars
<1>2. LoopInv' /\ MatchTypeOK'
  BY <1>1, LoopUnchanged DEF bookVars, ConsoleInv
<1>3. currentTime' \in Nat
  <2>1. CASE AdvanceTime
    <3>1. orders \in Seq(Entry) /\ BookSorted /\ orders # <<>> /\ currentTime \in Nat
      BY <2>1 DEF AdvanceTime, ConsoleInv, TypeOK
    <3> DEFINE times == {orders[n].timestamp : n \in DOMAIN orders}
               later == {u \in times : u > currentTime}
    <3>2. /\ times \in SUBSET Nat
          /\ getNextTime(currentTime) = IF later = {} THEN Min(times) ELSE Min(later)
      BY <3>1, NextTime
    <3>3. times # {} /\ later \in SUBSET Nat
      BY <3>1, <3>2
    <3> HIDE DEF times, later
    <3>4. Min(times) \in Nat /\ (later # {} => Min(later) \in Nat)
      BY <3>2, <3>3, MinProperties
    <3> QED
      BY <2>1, <3>2, <3>4 DEF AdvanceTime
  <2>2. CASE ~AdvanceTime
    BY <2>2, ConsoleInputs DEF AdvanceTimeOfEmptyBook, enterBareBid, vars, consoleVars,
       ConsoleInv, TypeOK
  <2> QED
    BY <2>1, <2>2
<1>4. pc' \in {"menu", "frame", "crashed"} /\ (pc' # "frame" => returned' /\ sales' = <<>>)
      /\ (pc' = "frame" => pc = "frame")
  BY <1>1 DEF AdvanceTime, AdvanceTimeOfEmptyBook, enterBareBid, vars, consoleVars, bookVars,
     matchVars, FrameDone, ConsoleInv, TypeOK
<1>5. TypeOK'
  BY <1>1, <1>2, <1>3, <1>4 DEF ConsoleInv, TypeOK, bookVars
<1> QED
  BY <1>1, <1>2, <1>4, <1>5 DEF ConsoleInv, bookVars, matchVars, BookSorted, IsSortedBy,
     CopiesFromBook, CopyOf, Visible, SalesPositive, HoldsEthAndBtcOnly

\* Every step of the program keeps the invariant.
LEMMA ConsoleStep == ConsoleInv /\ [Next]_vars => ConsoleInv'
<1> SUFFICES ASSUME ConsoleInv, [Next]_vars PROVE ConsoleInv'
  OBVIOUS
<1>1. ASSUME NEW p \in Product, NEW price \in OfferPrices, NEW amount \in OfferAmounts,
             enterAsk(p, price, amount) \/ enterBid(p, price, amount)
      PROVE  ConsoleInv'
  <2>1. PICK side \in {"ask", "bid"} : Enter(Typed(side, p, price, amount))
    BY <1>1 DEF enterAsk, enterBid
  <2>2. Typed(side, p, price, amount) \in Entry
    BY TypedType DEF ConsoleInv
  <2> QED
    BY <2>1, <2>2, EnterKeepsInv
<1>2. CASE Match
  BY <1>2, LoopKeepsConsoleInv, WriteBackKeepsConsoleInv DEF Match
<1> QED
  BY <1>1, <1>2, FrameBegins, SettlementKeepsConsoleInv, OtherStepsKeepConsoleInv
     DEF Next, FrameStep

\* The inductive invariant of the console program: the types and the order of the
\* book, the loop invariant with dead orders among the copies too, and that ETH/BTC is
\* the only product a frame matches.
THEOREM ConsoleInvariant == Spec => []ConsoleInv
<1> QED
  BY ConsoleInit, ConsoleStep, PTL DEF Spec

\* Whatever the user types, at any time, the program's state has its type.
THEOREM ConsoleTypeCorrect == Spec => []TypeOK
<1>1. ConsoleInv => TypeOK
  BY DEF ConsoleInv
<1> QED
  BY <1>1, ConsoleInvariant, PTL

\* gotoNextTimeframe matches ETH/BTC only: whatever is in the book and whatever the
\* user orders, his wallet never gets a third currency.
THEOREM NoThirdCurrency == Spec => []HoldsEthAndBtcOnly
<1>1. ConsoleInv => HoldsEthAndBtcOnly
  BY DEF ConsoleInv
<1> QED
  BY <1>1, ConsoleInvariant, PTL

\* Also with orders of amount zero or less in the book, which the user can type, every
\* sale is of a positive amount.
THEOREM SalesArePositive == Spec => []SalesPositive
<1>1. ConsoleInv => SalesPositive
  BY DEF ConsoleInv
<1> QED
  BY <1>1, ConsoleInvariant, PTL

-----------------------------------------------------------------------------
(* The budget of a user with one order at a time, all of whose numbers were    *)
(* positive.  d[0] of currency c is his; d[k] is left once the first k of the  *)
(* unsettled sales are settled; what is left of his order can be paid from     *)
(* what they all leave.  A sale can also add to the budget: a file's ask with a *)
(* negative price pays the buyer.                                              *)

Pays(e) == IF e.orderType = "bid" THEN Quote[e.product] ELSE Base[e.product]
PaidIn(s) == IF s.orderType = "bidsale" THEN "BTC" ELSE "ETH"

\* A sale of the user is paid in c, and brings him nothing negative.
PaidWith(s, c) ==
    s.username = "simuser" => PaidIn(s) = c /\ (s.orderType = "asksale" => s.price >= 0)

\* An order of the user is paid in c and costs him at most b.
WithinBudget(e, left, c, b) == Pays(e) = c /\ e.price >= 0 /\ Cost(e, left) <= b

IsFunded(c, d) ==
    /\ d \in [0..Len(sales) -> Nat]
    /\ d[0] <= BalanceOf(currencies, c)
    /\ \A k \in 1..Len(sales) : d[k] = d[k - 1] - Debit(sales[k]) /\ PaidWith(sales[k], c)
    /\ \A n \in DOMAIN orders :
         Mine(orders[n]) => WithinBudget(orders[n], Left(orders[n]), c, d[Len(sales)])

Funded == \E c, d : IsFunded(c, d)
NoOverdraft == \A c \in DOMAIN currencies : currencies[c] >= 0

FundedInv == flags = {} => OneOwner /\ NoOverdraft /\ Funded

\* There is a budget at the start: the user has no order.
LEMMA FundedInit == Init => FundedInv
<1> SUFFICES ASSUME Init PROVE FundedInv
  OBVIOUS
<1>1. /\ sales = <<>> /\ Len(sales) = 0 /\ returned
      /\ \A n \in DOMAIN orders : ~Mine(orders[n])
      /\ currencies = [c \in {"BTC"} |-> StartBTC]
  BY ConsoleFiles DEF Init, LocalsDead, Mine
<1>2. OneOwner /\ NoOverdraft
  BY <1>1, ConsoleInputs DEF OneOwner, SoleOwner, NoOverdraft
<1> PICK d : d = [k \in 0..0 |-> 0]
  OBVIOUS
<1>3. BalanceOf(currencies, "BTC") >= 0
  BY <1>1, ConsoleInputs DEF BalanceOf
<1>4. IsFunded("BTC", d)
  BY <1>1, <1>3 DEF IsFunded
<1> QED
  BY <1>2, <1>4 DEF FundedInv, Funded

\* A step that leaves the book, the copies, the sales and the wallet alone keeps it.
LEMMA FundedUntouched ==
    ASSUME FundedInv, UNCHANGED <<orders, sales, currencies, asks, bids, returned, flags>>,
           UNCHANGED call \/ returned
    PROVE  FundedInv'
<1> SUFFICES ASSUME flags = {} PROVE OneOwner' /\ NoOverdraft' /\ Funded'
  BY DEF FundedInv
<1>1. OneOwner' /\ NoOverdraft'
  BY DEF FundedInv, OneOwner, SoleOwner, Mine, NoOverdraft
<1>2. PICK c, d : IsFunded(c, d)
  BY DEF FundedInv, Funded
<1>3. \A e : Left(e)' = Left(e)
  BY DEF Left, WrittenBack, Twins
<1>4. IsFunded(c, d)'
  BY <1>2, <1>3 DEF IsFunded, PaidWith, PaidIn, Debit, Mine, WithinBudget, Pays, Cost
<1> QED
  BY <1>1, <1>4 DEF Funded

\* The user's order is accepted when he can pay for it: with no other order of his in
\* the book that is the budget.
LEMMA EnterKeepsFunded ==
    ASSUME ConsoleInv, FundedInv, NEW e \in Entry, Mine(e), e.orderType \in {"ask", "bid"},
           containsCurrency(currencies, Pays(e), Cost(e, e.amount)), Enter(e)
    PROVE  FundedInv'
<1> SUFFICES ASSUME flags' = {} PROVE OneOwner' /\ NoOverdraft' /\ Funded'
  BY DEF FundedInv
<1> DEFINE s == Append(orders, e)
<1>1. /\ flags = {} /\ ~HasOpenOrder /\ e.price >= 0 /\ e.amount > 0
      /\ returned /\ returned' /\ sales' = <<>> /\ UNCHANGED currencies
  <2>1. e.price \in Int /\ e.amount \in Int
    BY DEF Entry
  <2>2. flags = {} /\ ~HasOpenOrder /\ ~(e.price < 0 \/ e.amount <= 0)
    BY DEF Enter
  <2>3. /\ returned /\ returned' /\ sales' = <<>> /\ UNCHANGED currencies
    BY DEF Enter, insertOrder, matchVars, consoleVars, ConsoleInv, TypeOK
  <2> QED
    BY <2>1, <2>2, <2>3
<1>2. /\ s \in Seq(Entry) /\ DOMAIN s = DOMAIN orders \cup {Len(s)}
      /\ s[Len(s)] = e /\ \A n \in DOMAIN orders : s[n] = orders[n]
      /\ DrawnFrom(orders', s)
  BY Inserted DEF Enter, ConsoleInv, TypeOK
<1> HIDE DEF s
<1>3. \A n \in DOMAIN s : Mine(s[n]) => n = Len(s)
  BY <1>1, <1>2 DEF HasOpenOrder, Mine
<1>4. OneOwner'
  <2>1. SoleOwner(orders')
    BY <1>2, <1>3, SoleOwnerDrawn DEF SoleOwner
  <2> QED
    BY <1>1, <2>1 DEF OneOwner, SoleOwner, Mine
<1>5. NoOverdraft'
  BY <1>1 DEF FundedInv, NoOverdraft
<1>6. ASSUME NEW k \in DOMAIN orders', Mine(orders'[k])
      PROVE  orders'[k] = e
  <2>1. PICK n \in DOMAIN s : orders'[k] = s[n]
    BY <1>2 DEF DrawnFrom
  <2> QED
    BY <1>2, <1>3, <1>6, <2>1
<1> PICK c : c = Pays(e)
  OBVIOUS
<1>7. BalanceOf(currencies, c) \in Nat /\ Cost(e, e.amount) <= BalanceOf(currencies, c)
  <2>1. c \in DOMAIN currencies /\ currencies[c] >= Cost(e, e.amount)
    BY DEF containsCurrency
  <2>2. currencies[c] \in Int /\ currencies[c] >= 0
    BY <1>1, <2>1 DEF ConsoleInv, TypeOK, IsWallet, FundedInv, NoOverdraft
  <2>3. Cost(e, e.amount) \in Int
    BY DEF Cost, Entry
  <2> QED
    BY <2>1, <2>2, <2>3 DEF BalanceOf
<1> PICK d : d = [k \in 0..0 |-> BalanceOf(currencies, c)]
  OBVIOUS
<1>8. d \in [0..0 -> Nat] /\ d[0] = BalanceOf(currencies, c)
  BY <1>7
<1>9. ASSUME NEW k \in DOMAIN orders', Mine(orders'[k])
      PROVE  WithinBudget(orders'[k], Left(orders[k])', c, d[0])
  <2>1. orders'[k] = e /\ Left(orders[k])' = e.amount
    BY <1>1, <1>6, <1>9 DEF Left
  <2> QED
    BY <1>1, <1>7, <1>8, <2>1 DEF WithinBudget
<1>10. IsFunded(c, d)'
  <2>1. Len(sales') = 0 /\ 1..0 = {}
    BY <1>1
  <2>2. \A x, left : WithinBudget(x, left, c, d[0])' = WithinBudget(x, left, c, d[0])
    BY DEF WithinBudget, Pays, Cost
  <2>3. d[0] <= BalanceOf(currencies, c)' /\ d \in [0..Len(sales') -> Nat]
    BY <1>1, <1>7, <1>8, <2>1
  <2> QED
    BY <1>9, <2>1, <2>2, <2>3 DEF IsFunded, Mine, WithinBudget
<1> QED
  BY <1>4, <1>5, <1>10 DEF Funded

\* When the match begins each copy is as its order is.
LEMMA BeginKeepsFunded ==
    ASSUME ConsoleInv, FundedInv, MatchBegin(EthBtc, currentTime), sales = <<>>,
           UNCHANGED <<currencies, flags>>
    PROVE  FundedInv'
<1> SUFFICES ASSUME flags = {} PROVE OneOwner' /\ NoOverdraft' /\ Funded'
  BY DEF FundedInv
<1>1. /\ orders \in Seq(Entry) /\ sales' = <<>> /\ UNCHANGED <<orders, currencies>>
      /\ SoleOwner(orders)
  BY DEF MatchBegin, ConsoleInv, TypeOK, FundedInv, OneOwner
<1>2. /\ OneOwner'
      /\ \A n \in DOMAIN orders : Mine(orders[n]) => Left(orders[n])' = Left(orders[n])
  BY <1>1, MatchBeginLeft
<1>3. PICK c, d : IsFunded(c, d)
  BY DEF FundedInv, Funded
<1>4. IsFunded(c, d)'
  BY <1>1, <1>2, <1>3 DEF IsFunded, Mine, WithinBudget, Pays, Cost
<1>5. NoOverdraft'
  BY DEF FundedInv, NoOverdraft
<1> QED
  BY <1>2, <1>4, <1>5 DEF Funded

\* What a fill costs the user, who pays at most the price of his own order, is taken
\* off the budget, and what is left of the order stays within it.
LEMMA FillWithinBudget ==
    ASSUME ConsoleInv, OneOwner, NEW c, NEW b \in Nat, pc = "frame",
           \A n \in DOMAIN orders :
              Mine(orders[n]) => WithinBudget(orders[n], Left(orders[n]), c, b),
           FillEqual \/ FillAsk \/ FillBid, UNCHANGED <<orders, call, returned>>
    PROVE  \E s \in Sale :
             /\ sales' = Append(sales, s) /\ b - Debit(s) \in Nat /\ PaidWith(s, c)
             /\ \A n \in DOMAIN orders :
                  Mine(orders[n]) => WithinBudget(orders[n], Left(orders[n])', c, b - Debit(s))
<1>1. /\ LoopInv /\ orders \in Seq(Entry) /\ CopiesFromBook
      /\ asks \in Seq(Entry) /\ bids \in Seq(Entry) /\ call.product = EthBtc
  BY DEF ConsoleInv, TypeOK, MatchTypeOK
<1>2. i \in DOMAIN asks /\ j \in DOMAIN bids /\ bids[j].price >= asks[i].price
  BY DEF FillEqual, FillAsk, FillBid, AtCross, AtBid, Crosses
<1>3. PICK v \in Int, w \in Int, x \in Int :
         /\ v >= 0 /\ w >= 0 /\ x > 0
         /\ asks[i].amount = x + v /\ bids[j].amount = x + w
         /\ sales' = Append(sales, SaleOf(asks[i], bids[j], x))
         /\ \/ /\ Mine(bids[j]) /\ ~Mine(asks[i])
               /\ \E l \in DOMAIN orders : FilledOrder(l, "bid", bids[j], w)
            \/ /\ Mine(asks[i]) /\ ~Mine(bids[j])
               /\ \E l \in DOMAIN orders : FilledOrder(l, "ask", asks[i], v)
            \/ /\ ~Mine(asks[i]) /\ ~Mine(bids[j])
               /\ \A l \in DOMAIN orders :
                     Mine(orders[l]) => Left(orders[l])' = Left(orders[l])
  BY <1>1, FillLeaves
<1> PICK s : s = SaleOf(asks[i], bids[j], x)
  OBVIOUS
<1>4. /\ s \in Sale /\ s.amount = x /\ s.price = asks[i].price
      /\ s.orderType = (IF Mine(bids[j]) THEN "bidsale" ELSE "asksale")
      /\ (s.username = "simuser") <=> (Mine(asks[i]) \/ Mine(bids[j]))
  BY <1>1, <1>2, SaleOfType DEF SaleOf, Mine
<1>5. asks[i].price \in Int /\ bids[j].price \in Int
  BY <1>1, <1>2, OrderFields
<1>6. CASE ~Mine(asks[i]) /\ ~Mine(bids[j])
  <2>1. s.username # "simuser" /\ Debit(s) = 0 /\ b - Debit(s) = b
    BY <1>4, <1>6 DEF Debit
  <2>2. \A n \in DOMAIN orders : Mine(orders[n]) => Left(orders[n])' = Left(orders[n])
    BY <1>3, <1>6
  <2> QED
    BY <1>3, <1>4, <2>1, <2>2 DEF PaidWith
<1>7. CASE Mine(bids[j])
  <2>1. PICK l \in DOMAIN orders :
           /\ Mine(orders[l]) /\ orders[l].orderType = "bid"
           /\ orders[l].product = EthBtc /\ orders[l].price = bids[j].price
           /\ Left(orders[l]) = bids[j].amount /\ Left(orders[l])' = w
           /\ \A k \in DOMAIN orders : Mine(orders[k]) => k = l
    BY <1>1, <1>3, <1>7 DEF FilledOrder
  <2>2. /\ Pays(orders[l]) = c /\ orders[l].price >= 0
        /\ (x + w) * bids[j].price <= b
    BY <1>3, <2>1 DEF WithinBudget, Cost
  <2>3. PICK P \in Int, p \in Int : P = bids[j].price /\ p = asks[i].price
    BY <1>5
  <2>4. P >= p /\ P >= 0 /\ (x + w) * P <= b
    BY <1>2, <2>1, <2>2, <2>3
  <2>5. x * p \in Int /\ w * P \in Nat /\ w * P <= b - x * p
    <3> HIDE <2>3
    <3>1. b \in Int
      OBVIOUS
    <3> QED
      BY <1>3, <2>4, <3>1, BidFillCost, Zenon
  <2>6. b - x * p \in Nat
    BY <2>5
  <2>7. Debit(s) = x * p /\ PaidWith(s, c)
    BY <1>4, <1>7, <2>1, <2>2, <2>3, ConsoleProducts DEF Debit, PaidWith, PaidIn, Pays
  <2>8. WithinBudget(orders[l], w, c, b - x * p)
    BY <2>1, <2>2, <2>3, <2>5 DEF WithinBudget, Cost
  <2> QED
    BY <1>3, <1>4, <2>1, <2>6, <2>7, <2>8
<1>8. CASE Mine(asks[i])
  <2>1. PICK l \in DOMAIN orders :
           /\ Mine(orders[l]) /\ orders[l].orderType = "ask"
           /\ orders[l].product = EthBtc /\ orders[l].price = asks[i].price
           /\ Left(orders[l]) = asks[i].amount /\ Left(orders[l])' = v
           /\ \A k \in DOMAIN orders : Mine(orders[k]) => k = l
    BY <1>1, <1>3, <1>8 DEF FilledOrder
  <2>2. Pays(orders[l]) = c /\ orders[l].price >= 0 /\ x + v <= b
    BY <1>3, <2>1 DEF WithinBudget, Cost
  <2>3. ~Mine(bids[j])
    BY <1>3, <1>8
  <2>4. Debit(s) = x /\ PaidWith(s, c)
    BY <1>4, <1>8, <2>1, <2>2, <2>3, ConsoleProducts DEF Debit, PaidWith, PaidIn, Pays
  <2>5. b - x \in Nat /\ v <= b - x
    BY <1>3, <2>2
  <2>6. WithinBudget(orders[l], v, c, b - x)
    BY <2>1, <2>2, <2>5 DEF WithinBudget, Cost
  <2> QED
    BY <1>3, <1>4, <2>1, <2>4, <2>5, <2>6
<1> QED
  BY <1>6, <1>7, <1>8

\* A budget with one more sale.
LEMMA FundedAppend ==
    ASSUME ConsoleInv, NEW c, NEW d, IsFunded(c, d), NEW s \in Sale,
           sales' = Append(sales, s), d[Len(sales)] - Debit(s) \in Nat, PaidWith(s, c),
           UNCHANGED <<orders, currencies>>,
           \A n \in DOMAIN orders :
              Mine(orders[n]) =>
                WithinBudget(orders[n], Left(orders[n])', c, d[Len(sales)] - Debit(s))
    PROVE  Funded'
<1> PICK n : n = Len(sales)
  OBVIOUS
<1> PICK r : r = d[n] - Debit(s)
  OBVIOUS
<1>1. /\ n \in Nat /\ Len(sales') = n + 1 /\ sales'[n + 1] = s
      /\ \A k \in 1..n : sales'[k] = sales[k]
  <2>1. sales \in Seq(Sale)
    BY DEF ConsoleInv, TypeOK, MatchTypeOK
  <2> QED
    BY <2>1
<1>2. /\ d \in [0..n -> Nat] /\ d[0] <= BalanceOf(currencies, c)
      /\ \A k \in 1..n : d[k] = d[k - 1] - Debit(sales[k]) /\ PaidWith(sales[k], c)
  BY DEF IsFunded
<1> PICK q : q = [k \in 0..n + 1 |-> IF k = n + 1 THEN r ELSE d[k]]
  OBVIOUS
<1>3. q \in [0..n + 1 -> Nat] /\ q[0] = d[0] /\ q[n + 1] = r
  BY <1>1, <1>2
<1>4. ASSUME NEW k \in 1..n + 1
      PROVE  q[k] = q[k - 1] - Debit(sales'[k]) /\ PaidWith(sales'[k], c)
  <2>1. CASE k = n + 1
    <3>1. q[k - 1] = d[n] /\ sales'[k] = s
      BY <1>1, <2>1
    <3> QED
      BY <1>3, <2>1, <3>1
  <2>2. CASE k \in 1..n
    <3>1. q[k] = d[k] /\ q[k - 1] = d[k - 1] /\ sales'[k] = sales[k]
      BY <1>1, <2>2
    <3> QED
      BY <1>2, <2>2, <3>1
  <2> QED
    BY <1>1, <2>1, <2>2
<1>5. \A e : Debit(e)' = Debit(e) /\ PaidWith(e, c)' = PaidWith(e, c)
  BY DEF Debit, PaidWith, PaidIn
<1>6. IsFunded(c, q)'
  BY <1>1, <1>2, <1>3, <1>4, <1>5 DEF IsFunded, Mine, WithinBudget, Pays, Cost, Debit,
     PaidWith, PaidIn
<1> QED
  BY <1>6 DEF Funded

\* No step of the loop takes the budget away.
LEMMA LoopKeepsFunded ==
    ASSUME ConsoleInv, FundedInv, pc = "frame", MatchLoop, UNCHANGED <<currencies, flags>>
    PROVE  FundedInv'
<1>1. LoopStep /\ LoopInv /\ UNCHANGED <<orders, call>>
  BY DEF MatchLoop, ConsoleInv
<1>2. UNCHANGED returned
  BY <1>1 DEF LoopStep, OuterSkip, OuterEnter, InnerEnd, InnerSkip, FillEqual, FillAsk,
     FillBid
<1>3. CASE OuterSkip \/ OuterEnter \/ InnerEnd \/ InnerSkip
  <2>1. UNCHANGED <<orders, sales, currencies, asks, bids, returned, call, flags>>
    BY <1>1, <1>3 DEF OuterSkip, OuterEnter, InnerEnd, InnerSkip
  <2> QED
    BY <2>1, FundedUntouched
<1>4. CASE FillEqual \/ FillAsk \/ FillBid
  <2> SUFFICES ASSUME flags = {} PROVE OneOwner' /\ NoOverdraft' /\ Funded'
    BY DEF FundedInv
  <2>1. OneOwner /\ OneOwner' /\ NoOverdraft'
    BY <1>1, LoopKeepsOwners DEF ConsoleInv, FundedInv, NoOverdraft
  <2>2. PICK c, d : IsFunded(c, d)
    BY DEF FundedInv, Funded
  <2> PICK b : b = d[Len(sales)]
    OBVIOUS
  <2>3. b \in Nat
    <3>1. sales \in Seq(Sale)
      BY DEF ConsoleInv, TypeOK, MatchTypeOK
    <3> QED
      BY <2>2, <3>1 DEF IsFunded
  <2>4. \A n \in DOMAIN orders :
           Mine(orders[n]) => WithinBudget(orders[n], Left(orders[n]), c, b)
    BY <2>2 DEF IsFunded
  <2>5. PICK s \in Sale :
          /\ sales' = Append(sales, s) /\ b - Debit(s) \in Nat /\ PaidWith(s, c)
          /\ \A n \in DOMAIN orders :
               Mine(orders[n]) => WithinBudget(orders[n], Left(orders[n])', c, b - Debit(s))
    BY <1>1, <1>2, <1>4, <2>1, <2>3, <2>4, FillWithinBudget
  <2>6. Funded'
    BY <1>1, <2>2, <2>5, FundedAppend
  <2> QED
    BY <2>1, <2>6
<1> QED
  BY <1>1, <1>3, <1>4 DEF LoopStep

\* The write-back gives the user's order what is left of it.
LEMMA WriteBackKeepsFunded ==
    ASSUME ConsoleInv, FundedInv, WriteBack, UNCHANGED <<currencies, flags>>
    PROVE  FundedInv'
<1> SUFFICES ASSUME flags = {} PROVE OneOwner' /\ NoOverdraft' /\ Funded'
  BY DEF FundedInv
<1>1. /\ orders \in Seq(Entry) /\ asks \in Seq(Entry) /\ bids \in Seq(Entry) /\ BookSorted
  BY DEF ConsoleInv, TypeOK, MatchTypeOK
<1>2. /\ \A k \in DOMAIN orders' : \E n \in DOMAIN orders :
            /\ orders'[k].orderType = orders[n].orderType
            /\ orders'[k].product = orders[n].product
            /\ orders'[k].price = orders[n].price
            /\ orders'[k].username = orders[n].username
            /\ orders'[k].amount = Left(orders[n])
            /\ Left(orders[k])' = orders'[k].amount
      /\ OneOwner'
  BY <1>1, WriteBackLeft DEF FundedInv
<1>3. PICK c, d : IsFunded(c, d)
  BY DEF FundedInv, Funded
<1>4. ASSUME NEW k \in DOMAIN orders', Mine(orders'[k])
      PROVE  WithinBudget(orders'[k], Left(orders[k])', c, d[Len(sales)])
  <2>1. PICK n \in DOMAIN orders :
          /\ orders'[k].orderType = orders[n].orderType
          /\ orders'[k].product = orders[n].product
          /\ orders'[k].price = orders[n].price
          /\ orders'[k].username = orders[n].username
          /\ Left(orders[k])' = Left(orders[n])
    BY <1>2, <1>4
  <2>2. Mine(orders[n])
    BY <1>4, <2>1 DEF Mine
  <2>3. WithinBudget(orders[n], Left(orders[n]), c, d[Len(sales)])
    BY <1>3, <2>2 DEF IsFunded
  <2> QED
    BY <2>1, <2>3 DEF WithinBudget, Pays, Cost
<1>5. UNCHANGED sales
  BY DEF WriteBack
<1>6. IsFunded(c, d)'
  BY <1>3, <1>4, <1>5 DEF IsFunded, Debit, PaidWith, PaidIn, Mine, WithinBudget, Pays, Cost
<1>7. NoOverdraft'
  BY DEF FundedInv, NoOverdraft
<1> QED
  BY <1>2, <1>6, <1>7 DEF Funded

\* A settlement the budget covers overdraws no balance: the debited one keeps what the
\* budget says, the other one only grows.
LEMMA SettlementWithinBudget ==
    ASSUME ConsoleInv, Settle, NoOverdraft, NEW c, NEW b \in Nat,
           b <= BalanceOf(currencies, c), b - Debit(sales[1]) \in Nat, PaidWith(sales[1], c)
    PROVE  NoOverdraft' /\ b - Debit(sales[1]) <= BalanceOf(currencies', c)
<1> PICK s : s = sales[1]
  OBVIOUS
<1>1. /\ s \in Sale /\ s.amount > 0 /\ s.username = "simuser"
      /\ s.orderType \in {"asksale", "bidsale"} /\ s.amount \in Int /\ s.price \in Int
  BY FirstSale DEF Settle, Sale
<1> PICK a \in Int : a = s.amount
  BY <1>1
<1> PICK x \in Int : x = s.amount * s.price
  BY <1>1
<1>2. /\ IsWallet(currencies') /\ DOMAIN currencies' = DOMAIN currencies \cup {"ETH", "BTC"}
      /\ s.orderType = "asksale" =>
           /\ BalanceOf(currencies', "ETH") = BalanceOf(currencies, "ETH") - a
           /\ BalanceOf(currencies', "BTC") = BalanceOf(currencies, "BTC") + x
      /\ s.orderType # "asksale" =>
           /\ BalanceOf(currencies', "ETH") = BalanceOf(currencies, "ETH") + a
           /\ BalanceOf(currencies', "BTC") = BalanceOf(currencies, "BTC") - x
      /\ \A e : e \notin {"ETH", "BTC"} => BalanceOf(currencies', e) = BalanceOf(currencies, e)
  BY SettledWallet DEF SaleMoves
<1>3. \A e : BalanceOf(currencies, e) \in Int /\ BalanceOf(currencies, e) >= 0
  BY DEF ConsoleInv, TypeOK, IsWallet, BalanceOf, NoOverdraft
<1>4. \A e \in DOMAIN currencies' : currencies'[e] = BalanceOf(currencies', e)
  BY DEF BalanceOf
<1>5. CASE s.orderType = "asksale"
  <2>1. c = "ETH" /\ Debit(s) = a /\ s.price >= 0
    BY <1>1, <1>5 DEF PaidWith, PaidIn, Debit
  <2>2. x >= 0
    <3>1. \A y, z \in Int : y > 0 /\ z >= 0 => y * z >= 0
      OBVIOUS
    <3> QED
      BY <1>1, <2>1, <3>1
  <2>3. b - a <= BalanceOf(currencies', c)
    BY <1>2, <1>3, <1>5, <2>1
  <2>4. \A e : BalanceOf(currencies', e) >= 0
    BY <1>2, <1>3, <1>5, <2>1, <2>2, <2>3
  <2> QED
    BY <1>4, <2>1, <2>3, <2>4 DEF NoOverdraft
<1>6. CASE s.orderType = "bidsale"
  <2>1. c = "BTC" /\ Debit(s) = x
    BY <1>1, <1>6 DEF PaidWith, PaidIn, Debit
  <2>2. b - x <= BalanceOf(currencies', c)
    BY <1>2, <1>3, <1>6, <2>1
  <2>3. \A e : BalanceOf(currencies', e) >= 0
    BY <1>1, <1>2, <1>3, <1>6, <2>1, <2>2
  <2> QED
    BY <1>4, <2>1, <2>2, <2>3 DEF NoOverdraft
<1> QED
  BY <1>1, <1>5, <1>6

\* After the first sale is settled, or passed over, the rest of the budget is one.
LEMMA SettlementKeepsFunded ==
    ASSUME ConsoleInv, FundedInv, SkipSale \/ Settle
    PROVE  FundedInv'
<1> SUFFICES ASSUME flags = {} PROVE OneOwner' /\ NoOverdraft' /\ Funded'
  BY DEF FundedInv, SkipSale, Settle, auxVars
<1>1. /\ AtSale /\ sales' = Tail(sales) /\ returned
      /\ UNCHANGED <<orders, call, asks, bids, returned>>
  BY DEF SkipSale, Settle, AtSale
<1>2. OneOwner'
  BY <1>1 DEF FundedInv, OneOwner, SoleOwner, Mine
<1>3. PICK c, d : IsFunded(c, d)
  BY DEF FundedInv, Funded
<1> PICK n : n = Len(sales)
  OBVIOUS
<1> PICK s : s = sales[1]
  OBVIOUS
<1>4. /\ n \in Nat /\ n >= 1 /\ Len(sales') = n - 1
      /\ \A k \in 1..n - 1 : sales'[k] = sales[k + 1]
  BY <1>1, FirstSale
<1>5. /\ d \in [0..n -> Nat] /\ d[0] <= BalanceOf(currencies, c)
      /\ \A k \in 1..n : d[k] = d[k - 1] - Debit(sales[k]) /\ PaidWith(sales[k], c)
      /\ \A l \in DOMAIN orders :
           Mine(orders[l]) => WithinBudget(orders[l], Left(orders[l]), c, d[n])
  BY <1>3 DEF IsFunded
<1>6. d[0] \in Nat /\ d[1] \in Nat /\ d[1] = d[0] - Debit(s) /\ PaidWith(s, c)
  <2>1. 1 \in 1..n /\ 1 - 1 = 0 /\ 0 \in 0..n /\ 1 \in 0..n
    BY <1>4
  <2> QED
    BY <1>5, <2>1
<1>7. NoOverdraft' /\ d[1] <= BalanceOf(currencies', c)
  <2>1. NoOverdraft
    BY DEF FundedInv
  <2>2. CASE SkipSale
    <3>1. s.username # "simuser" /\ UNCHANGED currencies
      BY <1>1, <2>2, FirstSale DEF SkipSale, consoleVars
    <3>2. d[1] = d[0]
      BY <1>6, <3>1 DEF Debit
    <3> QED
      BY <1>5, <2>1, <3>1, <3>2 DEF NoOverdraft
  <2>3. CASE Settle
    BY <1>5, <1>6, <2>1, <2>3, SettlementWithinBudget
  <2> QED
    BY <2>2, <2>3
<1> PICK q : q = [k \in 0..n - 1 |-> d[k + 1]]
  OBVIOUS
<1>8. /\ q \in [0..Len(sales') -> Nat] /\ q[0] = d[1] /\ q[Len(sales')] = d[n]
      /\ \A k \in 0..n - 1 : q[k] = d[k + 1] /\ k + 1 \in 0..n
  BY <1>4, <1>5
<1>9. ASSUME NEW k \in 1..Len(sales')
      PROVE  q[k] = q[k - 1] - Debit(sales'[k]) /\ PaidWith(sales'[k], c)
  <2>1. /\ sales'[k] = sales[k + 1] /\ k + 1 \in 1..n /\ (k + 1) - 1 = k
        /\ q[k] = d[k + 1] /\ q[k - 1] = d[k]
    BY <1>4, <1>8, <1>9
  <2> QED
    BY <1>5, <2>1
<1>10. \A e : Left(e)' = Left(e)
  BY <1>1 DEF Left
<1>11. IsFunded(c, q)'
  BY <1>1, <1>5, <1>7, <1>8, <1>9, <1>10 DEF IsFunded, Mine, WithinBudget, Pays, Cost, Debit,
     PaidWith, PaidIn
<1> QED
  BY <1>2, <1>7, <1>11 DEF Funded

\* After every step of the program there is a budget, until the user overlaps his
\* orders or types a negative number.
LEMMA FundedStep == ConsoleInv /\ FundedInv /\ [Next]_vars => FundedInv'
<1> SUFFICES ASSUME ConsoleInv, FundedInv, [Next]_vars PROVE FundedInv'
  OBVIOUS
<1>1. ASSUME NEW p \in Product, NEW price \in OfferPrices, NEW amount \in OfferAmounts,
             enterAsk(p, price, amount) \/ enterBid(p, price, amount)
      PROVE  FundedInv'
  <2>1. CASE enterAsk(p, price, amount)
    <3> DEFINE e == Typed("ask", p, price, amount)
    <3>1. e \in Entry /\ Mine(e) /\ e.orderType = "ask" /\ e.product = p
      BY TypedType DEF ConsoleInv, Typed, Mine
    <3>2. canFulfillOrder(currencies, e, Base[p], "") /\ Enter(e)
      BY <2>1 DEF enterAsk
    <3> HIDE DEF e
    <3>3. containsCurrency(currencies, Pays(e), Cost(e, e.amount))
      BY <3>1, <3>2 DEF canFulfillOrder, Pays, Cost
    <3> QED
      BY <3>1, <3>2, <3>3, EnterKeepsFunded
  <2>2. CASE enterBid(p, price, amount)
    <3> DEFINE e == Typed("bid", p, price, amount)
    <3>1. e \in Entry /\ Mine(e) /\ e.orderType = "bid" /\ e.product = p
      BY TypedType DEF ConsoleInv, Typed, Mine
    <3>2. canFulfillOrder(currencies, e, Base[p], Quote[p]) /\ Enter(e)
      BY <2>2 DEF enterBid
    <3> HIDE DEF e
    <3>3. containsCurrency(currencies, Pays(e), Cost(e, e.amount))
      BY <3>1, <3>2 DEF canFulfillOrder, Pays, Cost
    <3> QED
      BY <3>1, <3>2, <3>3, EnterKeepsFunded
  <2> QED
    BY <1>1, <2>1, <2>2
<1>2. CASE gotoNextTimeframe
  <2>1. returned /\ sales = <<>> /\ UNCHANGED <<currencies, flags>>
    BY <1>2 DEF gotoNextTimeframe, auxVars, ConsoleInv, TypeOK
  <2>2. CASE MatchEmpty(EthBtc, currentTime)
    <3>1. UNCHANGED <<orders, sales, currencies, asks, bids, returned, flags>>
      BY <2>1, <2>2 DEF MatchEmpty
    <3> QED
      BY <2>1, <3>1, FundedUntouched
  <2>3. CASE MatchBegin(EthBtc, currentTime)
    BY <2>1, <2>3, BeginKeepsFunded
  <2> QED
    BY <1>2, <2>2, <2>3 DEF gotoNextTimeframe, matchAsksToBids
<1>3. CASE Match
  BY <1>3, LoopKeepsFunded, WriteBackKeepsFunded DEF Match, consoleVars, auxVars
<1>4. CASE \/ AdvanceTime \/ AdvanceTimeOfEmptyBook \/ UNCHANGED vars
           \/ \E p \in Product : enterBareBid(p)
  <2>1. UNCHANGED <<bookVars, currencies, flags>>
    BY <1>4 DEF AdvanceTime, AdvanceTimeOfEmptyBook, enterBareBid, vars, consoleVars, auxVars
  <2>2. UNCHANGED <<orders, sales, currencies, asks, bids, returned, call, flags>>
    BY <2>1 DEF bookVars, matchVars
  <2> QED
    BY <2>2, FundedUntouched
<1> QED
  BY <1>1, <1>2, <1>3, <1>4, SettlementKeepsFunded DEF Next, FrameStep

\* canFulfillOrder at the time of entry is enough although processSale tests nothing:
\* for any file, any numbers and any frames and partial fills, a balance becomes
\* negative only after the user had two orders in the book at a time or typed a
\* negative price or an amount that is not positive.
THEOREM OverdraftNeedsOverlap == Spec => []OverdrawnByOverlapOnly
<1>1. Spec => []FundedInv
  BY FundedInit, FundedStep, ConsoleInvariant, PTL DEF Spec
<1>2. ConsoleInv /\ FundedInv => OverdrawnByOverlapOnly
  <2> SUFFICES ASSUME ConsoleInv, FundedInv, NEW c \in DOMAIN currencies, currencies[c] < 0
               PROVE  flags \cap {"overlapped", "signed"} # {}
    BY DEF OverdrawnByOverlapOnly
  <2>1. flags \subseteq {"overlapped", "signed"}
    BY DEF ConsoleInv, TypeOK, Flag
  <2>2. currencies[c] \in Int
    BY DEF ConsoleInv, TypeOK, IsWallet
  <2>3. flags # {}
    BY <2>2 DEF FundedInv, NoOverdraft
  <2> QED
    BY <2>1, <2>3
<1> QED
  BY <1>1, <1>2, ConsoleInvariant, PTL
=============================================================================
