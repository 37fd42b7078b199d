------------------------------- MODULE Workers -------------------------------
(***************************************************************************)
(* The handlers of several connections on Crow's worker threads.  A        *)
(* connection stays on its worker, which runs one handler at a time to its *)
(* end; handlers on two workers interleave, for nothing locks the book,    *)
(* the wallet, the ui_ balances or the time they share (Trading.cpp:31-51  *)
(* capture them by reference).                                             *)
(*                                                                         *)
(* Trading's variables pc, todo, call and those of the match are a         *)
(* handler's own: they hold the running handler's, those of the others are *)
(* parked until Switch brings them back.  A settlement is one step for     *)
(* each read and each write of the wallet.  Two accesses of the book that  *)
(* overlap, one of them a write, are undefined behaviour: the process may  *)
(* die, or they act as if one came after the other.                        *)
(*                                                                         *)
(* The acceptor (CrowServer) has put each connection on a worker before    *)
(* its first message: every assignment is a behaviour.                     *)
(***************************************************************************)
EXTENDS Trading

CONSTANTS Conn,      \* the connections
          Worker     \* the worker threads

VARIABLES workerOf,  \* the worker each connection is on
          running,   \* the connection whose handler's locals are loaded
          parked,    \* the locals of the others
          legsDone,  \* of the head of sales: 0, 1 or 2
          held      \* the balance a leg has read and not yet used, or {}
ownVars == <<legsDone, held>>
switchVars == <<running, parked>>
workerVars == <<workerOf, switchVars, ownVars>>

Locals == [pc |-> pc, todo |-> todo, call |-> call, asks |-> asks, bids |-> bids,
           sales |-> sales, i |-> i, j |-> j, returned |-> returned,
           legsDone |-> legsDone, held |-> held]

LocalsOf(c) == IF c = running THEN Locals ELSE parked[c]

WorkersInit ==
    /\ Init
    /\ legsDone = 0 /\ held = {}
    /\ workerOf \in [Conn -> Worker] /\ running \in Conn
    /\ parked = [c \in Conn \ {running} |-> Locals]

-----------------------------------------------------------------------------
(* Who runs *)

\* A slip: any free thread takes the next message.
RunnableAnywhere(c) == pc # "crashed" /\ c # running

\* No other handler of its worker is in progress.
Runnable(c) ==
    /\ pc # "crashed" /\ c # running
    /\ \A d \in Conn \ {c} : workerOf[d] = workerOf[c] => LocalsOf(d).pc = "idle"

\* The loops of a match touch only locals: a switch inside them shows nothing new.
\* The arguments of the last call have died with an idle handler's locals.
Switch(c) ==
    /\ Runnable(c)
    /\ returned \/ LoopsDone
    /\ LET l == parked[c] IN
         /\ pc' = l.pc /\ todo' = l.todo /\ asks' = l.asks /\ bids' = l.bids
         /\ call' = IF l.pc = "idle" THEN call ELSE l.call
         /\ sales' = l.sales /\ i' = l.i /\ j' = l.j
         /\ returned' = l.returned /\ legsDone' = l.legsDone /\ held' = l.held
    /\ parked' = [d \in Conn \ {c} |-> LocalsOf(d)]
    /\ running' = c
    /\ UNCHANGED <<orders, currencies, ui, currentTime, auxVars, workerOf>>

\* The next step of handler l reads or writes the book.  An idle handler may be
\* about to insert an order.
ReadsBook(l) == l.pc = "frame" /\ l.returned /\ l.sales = <<>>
WritesBook(l) == \/ l.pc = "idle"
                 \/ l.pc = "frame" /\ ~l.returned /\ l.i = Len(l.asks) + 1

\* Two handlers that may run at once, one of them inside next_timeframe, are both
\* at the book and one writes.
Racing ==
    \E c, d \in {e \in Conn : e = running \/ Runnable(e)} :
        /\ c # d
        /\ LocalsOf(c).pc = "frame"
        /\ \/ WritesBook(LocalsOf(c)) /\ (ReadsBook(LocalsOf(d)) \/ WritesBook(LocalsOf(d)))
           \/ ReadsBook(LocalsOf(c)) /\ WritesBook(LocalsOf(d))

RaceCrash ==
    /\ pc # "crashed" /\ Racing
    /\ pc' = "crashed" /\ todo' = {}
    /\ asks' = <<>> /\ bids' = <<>> /\ sales' = <<>> /\ i' = 1 /\ j' = 0 /\ returned' = TRUE
    /\ legsDone' = 0 /\ held' = {}
    /\ UNCHANGED <<orders, call, currencies, ui, currentTime, auxVars, workerOf, switchVars>>

-----------------------------------------------------------------------------
(* A handler's steps *)

Submit(side, p, price, amount) ==
    /\ SubmitOrder(side, p, price, amount)
    /\ UNCHANGED workerVars

\* The steps that settle nothing.
Walk ==
    /\ \/ NextTimeframe \/ MatchProduct \/ MatchStep \/ MatchReturn
       \/ AdvanceTime \/ AdvanceTimeOfEmptyBook
    /\ UNCHANGED workerVars

Settling == pc = "frame" /\ returned /\ sales # <<>>

Skip ==
    /\ Settling /\ SkipSale
    /\ UNCHANGED <<orders, call, asks, bids, i, j, returned,
                   currentTime, submitted, owed, workerVars>>

Leg(op, c, v) == [op |-> op, currency |-> c, volume |-> v]
Legs ==
    LET base == Base[call.product]
        quote == Quote[call.product]
    IN  IF sale.orderType = "bidsale"
        THEN <<Leg("insert", base, sale.amount), Leg("remove", quote, Value)>>
        ELSE <<Leg("remove", base, sale.amount), Leg("insert", quote, Value)>>

NextLeg == Legs[legsDone + 1]

\* What every step of a leg leaves alone.
LegFrame ==
    UNCHANGED <<orders, call, asks, bids, i, j, returned, currentTime,
                submitted, owed, workerOf, switchVars>>

\* insertCurrency and removeCurrency read the balance ...
ReadLeg ==
    /\ Settling /\ sale.username = "simuser" /\ legsDone < 2 /\ held = {}
    /\ \/ NextLeg.op = "insert" /\ ~InsertThrows(NextLeg.volume)
       \/ NextLeg.op = "remove" /\ RemoveSucceeds(currencies, NextLeg.currency, NextLeg.volume)
    /\ held' = {BalanceOf(currencies, NextLeg.currency)}
    /\ UNCHANGED <<sales, currencies, ui, pc, todo, flags, legsDone>> /\ LegFrame

RefuseLeg ==
    /\ Settling /\ sale.username = "simuser" /\ legsDone < 2 /\ held = {}
    /\ NextLeg.op = "remove"
    /\ ~RemoveSucceeds(currencies, NextLeg.currency, NextLeg.volume)
    /\ legsDone' = legsDone + 1
    /\ flags' = flags \cup {"refused"}
    /\ UNCHANGED <<sales, currencies, ui, pc, todo, held>> /\ LegFrame

ThrowLeg ==
    /\ Settling /\ sale.username = "simuser" /\ legsDone < 2 /\ held = {}
    /\ NextLeg.op = "insert" /\ InsertThrows(NextLeg.volume)
    /\ sales' = <<>> /\ pc' = "idle" /\ todo' = {} /\ legsDone' = 0
    /\ flags' = flags \cup {"aborted"}
    /\ UNCHANGED <<currencies, ui, held>> /\ LegFrame

\* ... insertCurrency stores the sum with what it has read, removeCurrency
\* subtracts from what is there now, and neither tests again.
WriteLeg ==
    /\ held # {}
    /\ LET g == NextLeg
           balance == CHOOSE b \in held : TRUE
       IN  currencies' = [c \in DOMAIN currencies \cup {g.currency} |->
               IF c # g.currency THEN currencies[c]
               ELSE IF g.op = "insert" THEN balance + g.volume
               ELSE currencies[c] - g.volume]
    /\ held' = {} /\ legsDone' = legsDone + 1
    /\ UNCHANGED <<sales, ui, pc, todo, flags>> /\ LegFrame

\* The message about the trade is taken to be sent: that it may throw at a garbage time
\* is left to Trading.
FinishSale ==
    /\ Settling /\ legsDone = 2
    /\ ui' = IF sale.orderType = "bidsale" THEN UiMoved(sale.amount, -Value)
             ELSE UiMoved(-sale.amount, Value)
    /\ flags' = flags \cup Unfollowed
    /\ Told /\ legsDone' = 0
    /\ UNCHANGED <<currencies, held>> /\ LegFrame

Settle == Skip \/ ReadLeg \/ RefuseLeg \/ ThrowLeg \/ WriteLeg \/ FinishSale

WorkersNext ==
    \/ \E side \in {"buy", "sell"}, p \in Product,
          price \in OfferPrices, amount \in OfferAmounts : Submit(side, p, price, amount)
    \/ Walk
    \/ Settle
    \/ \E c \in Conn : Switch(c)
    \/ RaceCrash

WorkersSpec == WorkersInit /\ [][WorkersNext]_<<vars, workerVars>>

-----------------------------------------------------------------------------
(* Properties *)

WorkersTypeOK ==
    /\ TypeOK
    /\ workerOf \in [Conn -> Worker]
    /\ running \in Conn /\ DOMAIN parked = Conn \ {running}
    /\ legsDone \in 0..2 /\ Cardinality(held) <= 1
    /\ pc # "frame" => legsDone = 0 /\ held = {}

\* On however many workers: the book stays in time order and without dead orders
\* under interleaved matches, inserts and write-backs of stale copies, as long as the
\* accesses do not overlap.
BookSound == BookSorted /\ Live(orders) = DOMAIN orders

AllIdle == \A c \in Conn : LocalsOf(c).pc = "idle"

\* All connections are on one worker, as those of a process with one thread are.
OneWorker == \A c, d \in Conn : workerOf[c] = workerOf[d]

\* README.md:33, "atomic multi-currency wallet tracking": as long as one worker runs
\* all handlers and once none is running, the wallet is what the fills add up to;
\* no credit or debit of one page is lost between the reads and the writes of
\* another's (Wallet.cpp:16-24, 51-54).  With two workers it is not so.
WalletFollowsFills ==
    OneWorker /\ AllIdle /\ flags \cap {"refused", "aborted", "cut", "selfTraded"} = {} =>
        \A c \in Currency : BalanceOf(currencies, c) = owed[c]

-----------------------------------------------------------------------------
(* One worker: the steps of a settlement are what Trading takes them for, one *)

\* A settlement counts as done from its first leg on: these are the variables with
\* what is then still ahead of it.
Bought == sale.orderType = "bidsale"
QuotePaid == LET quote == Quote[call.product]
             IN  IF Bought THEN removeCurrency(currencies, quote, Value)
                 ELSE insertCurrency(currencies, quote, Value)
WillThrow == legsDone = 1 /\ ~Bought /\ InsertThrows(Value)
WillRefuse == legsDone = 1 /\ Bought /\ ~RemoveSucceeds(currencies, Quote[call.product], Value)

servedCurrencies == IF legsDone = 1 THEN QuotePaid ELSE currencies
servedUi == IF legsDone = 0 \/ WillThrow THEN ui
            ELSE IF Bought THEN UiMoved(sale.amount, -Value) ELSE UiMoved(-sale.amount, Value)
servedSales == IF legsDone = 0 THEN sales ELSE IF WillThrow THEN <<>> ELSE Tail(sales)
servedPc == IF WillThrow THEN "idle" ELSE pc
servedTodo == IF WillThrow THEN {} ELSE todo
servedFlags == flags \cup (IF WillThrow THEN {"aborted"}
                          ELSE IF legsDone > 0 THEN Unfollowed ELSE {})
                     \cup (IF WillRefuse THEN {"refused"} ELSE {})

Served == INSTANCE Trading WITH
    currencies <- servedCurrencies, ui <- servedUi, sales <- servedSales,
    pc <- servedPc, todo <- servedTodo, flags <- servedFlags

\* As long as one worker runs all handlers, the pages share the server as one page
\* has it: whoever is served next, no handler's copies of the book and no balance it
\* has read are from before another's match or settlement (Trading.cpp:31-51).
OneWorkerServes ==
    [][OneWorker => [Served!Next]_(Served!vars)]_<<vars, workerVars>>
=============================================================================
