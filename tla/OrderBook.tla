------------------------------ MODULE OrderBook ------------------------------
(***************************************************************************)
(* The order book of OrderBook.cpp: one vector of orders, all products and *)
(* all times together, and the operations on it.  A call of                *)
(* matchAsksToBids is several steps (copy and sort, the double loop of     *)
(* Matching, the write-back); its locals are Matching's variables.         *)
(***************************************************************************)
EXTENDS Matching, FiniteSetsExt

VARIABLES orders,   \* the vector, a sequence of Entry
          call      \* the arguments of the current or last matchAsksToBids
bookVars == <<orders, call, matchVars>>

KnownProducts == {orders[n].product : n \in DOMAIN orders}

\* A slip: without the orders of the time itself.
VisibleBefore(type, p, t) ==
    {n \in DOMAIN orders : /\ orders[n].orderType = type
                           /\ orders[n].product = p
                           /\ orders[n].timestamp < t}

\* The indices of the orders getOrders selects, and the vector it returns.
Visible(type, p, t) ==
    {n \in DOMAIN orders : /\ orders[n].orderType = type
                           /\ orders[n].product = p
                           /\ orders[n].timestamp <= t}
getOrders(type, p, t) == At(orders, Visible(type, p, t))

\* orders[0], whatever its timestamp: undefined on an empty book.
getEarliestTime == orders[1].timestamp

\* A slip: the time itself counts as a later one.
getNextTimeNotStrict(t) ==
    LET later == {n \in DOMAIN orders : orders[n].timestamp >= t}
    IN  IF later = {} THEN getEarliestTime ELSE orders[Min(later)].timestamp

\* The first order after t in the vector; none: back to the start.
getNextTime(t) ==
    LET later == {n \in DOMAIN orders : orders[n].timestamp > t}
    IN  IF later = {} THEN getEarliestTime ELSE orders[Min(later)].timestamp

-----------------------------------------------------------------------------
(* insertOrder: push_back, then sort the whole vector by time.  std::sort
   leaves orders of the same time in any order.  Nothing can observe which:
   the vector is only read by getNextTime, which looks at times, and through
   getOrders by sorts that choose among ties again, so one order is enough. *)

insertUnsorted(e) ==    \* a slip: no sort
    /\ returned
    /\ orders' = Append(orders, e)
    /\ UNCHANGED <<call, matchVars>>

insertOrder(e) ==
    /\ returned
    /\ orders' = StableSort(Append(orders, e), comapreByTimestamp)
    /\ UNCHANGED <<call, matchVars>>

-----------------------------------------------------------------------------
(* matchAsksToBids *)

\* Lines 114-116: one side is empty, nothing is sold, and nothing is erased.
MatchEmpty(p, t) ==
    /\ returned
    /\ getOrders("ask", p, t) = <<>> \/ getOrders("bid", p, t) = <<>>
    /\ call' = [product |-> p, timestamp |-> t]
    /\ sales' = <<>>
    /\ UNCHANGED <<orders, asks, bids, i, j, returned>>

\* Copy both sides and sort the copies; ties fall in any order.
MatchBegin(p, t) ==
    /\ returned
    /\ getOrders("ask", p, t) # <<>> /\ getOrders("bid", p, t) # <<>>
    /\ call' = [product |-> p, timestamp |-> t]
    /\ asks' \in Sortings(getOrders("ask", p, t), comapreByPriceAsc)
    /\ bids' \in Sortings(getOrders("bid", p, t), comapreByPriceDesc)
    /\ sales' = <<>> /\ i' = 1 /\ j' = 0 /\ returned' = FALSE
    /\ UNCHANGED orders

MatchLoop == LoopStep /\ UNCHANGED <<orders, call>>

\* A slip: the key without the username.
TwinsByPrice(e, side) == {n \in DOMAIN side : side[n].price = e.price}

\* The copies are written back by username and price: an order gets the amount
\* of the last copy on its side that agrees with it in both.
Twins(e, side) ==
    {n \in DOMAIN side : side[n].username = e.username /\ side[n].price = e.price}

\* Two slips: the bids are forgotten; the time is not tested.
WrittenBackAsks(e) ==
    IF /\ e.timestamp <= call.timestamp /\ e.product = call.product
       /\ e.orderType = "ask" /\ Twins(e, asks) # {}
    THEN [e EXCEPT !.amount = asks[Max(Twins(e, asks))].amount]
    ELSE e
WrittenBackAnyTime(e) ==
    LET side == IF e.orderType = "ask" THEN asks ELSE bids
    IN  IF /\ e.product = call.product
           /\ e.orderType \in {"ask", "bid"} /\ Twins(e, side) # {}
        THEN [e EXCEPT !.amount = side[Max(Twins(e, side))].amount]
        ELSE e

WrittenBack(e) ==
    LET side == IF e.orderType = "ask" THEN asks ELSE bids
    IN  IF /\ e.timestamp <= call.timestamp /\ e.product = call.product
           /\ e.orderType \in {"ask", "bid"} /\ Twins(e, side) # {}
        THEN [e EXCEPT !.amount = side[Max(Twins(e, side))].amount]
        ELSE e

ErasedNone(s) == s      \* a slip: remove_if without the erase

\* Erase-remove: the orders with nothing left go, of every product.
Erased(s) == At(s, Live(s))

\* The locals die with the call; `sales' is its result.
WriteBack ==
    /\ LoopsDone
    /\ orders' = Erased([n \in DOMAIN orders |-> WrittenBack(orders[n])])
    /\ asks' = <<>> /\ bids' = <<>> /\ i' = 1 /\ j' = 0 /\ returned' = TRUE
    /\ UNCHANGED <<sales, call>>

matchAsksToBids(p, t) == MatchEmpty(p, t) \/ MatchBegin(p, t)

-----------------------------------------------------------------------------
(* The book with any client: it inserts any bid or ask and starts a match of
   any product at any time, one call after the other.  The file the book is
   loaded from is sorted by time and has no dead orders.  The auxiliary ids
   tell the orders of the book apart. *)

OwnIds == \A m, n \in DOMAIN orders : orders[m].id = orders[n].id => m = n

LocalsDead == asks = <<>> /\ bids = <<>> /\ sales = <<>> /\ i = 1 /\ j = 0 /\ returned = TRUE

BookInit ==
    /\ orders \in Seq(Entry)
    /\ IsSortedBy(orders, comapreByTimestamp)
    /\ Live(orders) = DOMAIN orders
    /\ OwnIds
    /\ call \in [product : Nat, timestamp : Nat]
    /\ LocalsDead

\* A client names its order anew.
InsertNew ==
    \E e \in Entry :
        /\ e.amount > 0
        /\ \A n \in DOMAIN orders : orders[n].id # e.id
        /\ insertOrder(e)

BookNext ==
    \/ InsertNew
    \/ \E p, t \in Nat : matchAsksToBids(p, t)
    \/ MatchLoop
    \/ WriteBack

BookSpec == BookInit /\ [][BookNext]_bookVars

-----------------------------------------------------------------------------
(* Properties *)

\* Between two calls no dead order is in the book.
BookTypeOK ==
    /\ orders \in Seq(Entry)
    /\ call \in [product : Nat, timestamp : Nat]
    /\ MatchTypeOK
    /\ Live(orders) = DOMAIN orders

\* The vector stays in time order through inserts, write-backs and erasures;
\* getNextTime relies on it.
BookSorted == IsSortedBy(orders, comapreByTimestamp)

\* Every order that takes part in a running match has a copy with its key, so
\* that the write-back finds one.
CopiesComplete ==
    ~returned =>
        /\ \A n \in Visible("ask", call.product, call.timestamp) : Twins(orders[n], asks) # {}
        /\ \A n \in Visible("bid", call.product, call.timestamp) : Twins(orders[n], bids) # {}

\* The inductive invariant of the book.
BookInv == BookTypeOK /\ BookSorted /\ LoopInv /\ CopiesComplete

\* OrderBook.h:25-26: getNextTime is "the next time after the sent time", the
\* least later one of any order in the book, and wraps around to the earliest.
NextTimeIsSuccessor ==
    \A t \in {c.timestamp : c \in {call} \cup {orders[n] : n \in DOMAIN orders}} :
        LET times == {orders[n].timestamp : n \in DOMAIN orders}
            later == {u \in times : u > t}
        IN  orders # <<>> =>
              getNextTime(t) = IF later = {} THEN Min(times) ELSE Min(later)

\* When a match returns, no two orders left in the book, of its product and
\* visible at its time, could still trade; orders that share a key and are
\* overwritten with one another's amounts included.
UncrossedAfterMatch ==
    [][~returned /\ returned' =>
         \A m, n \in DOMAIN orders' :
            LET a == orders'[m]  b == orders'[n]
            IN  ~ /\ a.orderType = "ask" /\ b.orderType = "bid"
                  /\ {a.product, b.product} = {call.product}
                  /\ a.timestamp <= call.timestamp /\ b.timestamp <= call.timestamp
                  /\ Crosses(a, b)]_bookVars

\* No look-ahead: a match leaves the orders of later times and of other
\* products as they are, whatever keys they share with the matched ones.
MatchConfined ==
    [][~returned =>
         \A n \in DOMAIN orders :
            \/ orders[n].product = call.product /\ orders[n].timestamp <= call.timestamp
            \/ \E m \in DOMAIN orders' : orders'[m] = orders[n]]_bookVars

\* What the order called id still has in the vector s: nothing if it is gone.
Remaining(s, id) ==
    LET here == {n \in DOMAIN s : s[n].id = id}
    IN  IF here = {} THEN 0 ELSE s[Min(here)].amount

\* What the sales of the vector s took from the order called id; a recursive
\* function, which the proofs can unfold.
Part(sale, id) == IF id \in {sale.ask, sale.bid} THEN sale.amount ELSE 0
Taken(s, id) ==
    LET taken[k \in 0..Len(s)] == IF k = 0 THEN 0 ELSE taken[k - 1] + Part(s[k], id)
    IN  taken[Len(s)]
Filled(id) == Taken(sales, id)

\* The order takes part in the current call.
Matched(e) == /\ e.orderType \in {"ask", "bid"} /\ e.product = call.product
              /\ e.timestamp <= call.timestamp

Debited(e) == Remaining(orders', e.id) = e.amount - Filled(e.id)

\* What a call sells of an order is what the order has less in the book after
\* it, when no other order of its side has its username and price.
FillsDebitedIfUnique ==
    [][~returned /\ returned' =>
         \A n \in DOMAIN orders :
            LET e == orders[n]
            IN  (/\ Matched(e)
                 /\ \A m \in DOMAIN orders \ {n} :
                       Matched(orders[m]) /\ orders[m].orderType = e.orderType =>
                         <<orders[m].username, orders[m].price>> # <<e.username, e.price>>)
                => Debited(e)]_bookVars

\* Every copy in side is of an order of its own, at one of the places V of the
\* book o, and has what the sales s have left of that order.
Tracks(side, V, o, s) ==
    /\ \A k \in DOMAIN side :
         /\ side[k].amount >= 0
         /\ \E n \in V : /\ side[k].id = o[n].id /\ side[k].username = o[n].username
                        /\ side[k].price = o[n].price
                        /\ side[k].amount = o[n].amount - Taken(s, o[n].id)
    /\ \A k, l \in DOMAIN side : side[k].id = side[l].id => k = l
CopiesTracked ==
    ~returned =>
        /\ Tracks(asks, Visible("ask", call.product, call.timestamp), orders, sales)
        /\ Tracks(bids, Visible("bid", call.product, call.timestamp), orders, sales)

\* The inductive invariant of the book and the fills.
FillsInv == BookInv /\ OwnIds /\ CopiesTracked

\* README.md:45, "Pointer-based mutation on the master vector": what is sold of
\* an order is taken off that order.  (The code writes copies back by key.)
FillsDebited ==
    [][~returned /\ returned' =>
         \A n \in DOMAIN orders : Matched(orders[n]) => Debited(orders[n])]_bookVars

\* README.md:44, "FIFO tiebreak": of two live orders with the same side and
\* price, the one that came first is filled first.
FifoTiebreak ==
    [][sales' # sales /\ sales' # <<>> =>
         LET s == sales'[Len(sales')]
         IN  /\ \A m \in Live(asks) : asks[m].price = asks[i].price => s.ask <= asks[m].id
             /\ \A n \in Live(bids) : bids[n].price = bids[j].price => s.bid <= bids[n].id
      ]_bookVars
=============================================================================
