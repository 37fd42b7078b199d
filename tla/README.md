# Tradealyze in TLA+

TLA+ models of the Tradealyze trading server, its web page and the parts of the
vendored Crow, Asio and json.hpp they run on; TLC runs that check them on small
instances; and TLAPS proofs of the main results for all instances.

Run everything inside this directory: `tlc -workers 2 -config X.cfg M` for a run
(the table of runs pairs modules with configurations), `tlapm M.tla` for a proof
module.

## The system

Tradealyze replays a file of historical orders and lets a user trade against
them from a browser. One server process (`Trading.cpp`) holds all state; the page
(`templete/app.js`) talks to it over a WebSocket. A console program
(`MerkelMain.cpp`) shares the order book and the wallet.

| Component | State | Operations | Hard because | Status |
|---|---|---|---|---|
| Order entry (`OrderBookEntry.*`) | none: a record and three comparators | parse a type, compare | the comparators look at one field each, so sorts have ties | modelled |
| Matching loop (`OrderBook.cpp:123-171`) | two local sorted copies, two iterators, the sales | skip, fill equal / ask / bid, break, continue | three fill cases with different exits; a wrong exit leaves crossed orders only for some amounts | modelled |
| Order book (`OrderBook.*`) | one vector of orders, all products and times together, in time order | `getKnownProducts`, `getOrders`, `getEarliestTime`, `getNextTime`, `insertOrder`, `matchAsksToBids` | matches work on copies that are written back by username and price; every operation relies on an order the others must keep | modelled |
| Wallet (`Wallet.*`) | a map from currency to balance | `insertCurrency` (may throw), `removeCurrency` (may refuse), `containsCurrency`, `canFulfillOrder`, `processSale` | refusals are return values nobody reads; an absent currency is not a zero balance | modelled |
| Server (`Trading.cpp`) | book, wallet, simulated time, four `ui_` balances | `onopen`, `change_market`, `submit_order`, `next_timeframe` | funds are tested at submission and moved at the fill, many frames later; the balances shown are separate arithmetic; exceptions end a frame half way; Crow runs connections on several threads and nothing is locked | modelled |
| CSV reader (`CSVReader.*`) | locals of three loops | `readCSV`, `tokenise`, `stringToOBE` | boundaries in `tokenise`; `stod` reads prefixes; bad rows are skipped | modelled |
| Console program (`MerkelMain.*`) | book, wallet, time | the six menu options | only ETH/BTC is ever matched; `processSale` checks nothing; any number may be typed | modelled |
| Data set, `clean_csv.py` | a file | one regular expression over each line | it must repair what the reader cannot read and nothing else | modelled |
| Web terminal (`templete/app.js`, `window.js`, `index.html`) | order rows, pending orders, balances, price hints, the form | form, auto-play, one handler per message type | acknowledgements and trades are tied to pending orders by ad-hoc keys | partly |
| Crow: WebSocket connections, acceptor, deadlines (`crow_all.h`) | frame under construction, queues of buffers, counts, deadlines | reads, tasks, writes, close; accept, start, tick | the object deletes itself when the last thing under way ends; a read overtakes posted tasks; a timer holds connections by address | partly |
| Crow: HTTP connections (`crow_all.h`) | the parser's state, the request so far | one byte or the end of a read | reads end anywhere; parts are marked in a buffer that goes | partly |
| Asio event loop (`asio/detail`) | queue, event, count of work, reactor | run, post, wait, edge-triggered reads | lost wake-ups, lost edges, count of work | partly |
| json.hpp strings | two buffers and a byte automaton | `scan_string`, `dump_escaped` | a fixed buffer of 512 bytes; a rejected byte is read again; three error handlers | partly |
| Asio timers, Asio writes | | | | not modelled |

How they interact: the page sends `submit_order` and, once a second with auto-play
on, `next_timeframe`. Crow's acceptor has put the connection on a worker thread,
whose event loop reads it; the WebSocket connection puts frames together and calls
the engine's handler. A submission tests the wallet and inserts an order with the
current time into the book. A frame goes through all products in alphabetical
order; for each one the book matches what is visible at the current time and
returns its sales, the server settles the user's sales in the wallet and in the
`ui_` balances and reports every sale to the page; after the last product time
moves to the next time of any order in the book, or back to the earliest. What the
handlers send is posted to the connection's thread and written after they return.

What makes each part correct is stated as properties below; what in it is hard to
test is listed line by line under `hazards` in `PROJECT.json`. Three hazards have no
property: that the constructor of the book does not sort (`OrderBook.cpp:14`; the
models assume files in time order, and `SortedOnLoad` below says what breaks that),
that the console accepts a price of `nan` (`MerkelMain.cpp:131`; there are only
integers here), and the single link of Asio's descriptors (`epoll_reactor.ipp:506`),
of which `SchedDescriptorOnce` is proved, in no run.

## The modules

| Module | Models | Builds on |
|---|---|---|
| `OrderBookEntry` | the order record, comparators, selecting and sorting vectors | |
| `Clearing` | abstract: what one call of `matchAsksToBids` promises | `OrderBookEntry` |
| `Matching` | the double loop, one action per way an iteration can go | `OrderBookEntry` |
| `OrderBook` | the vector and its operations; a match is begin, loop steps, write-back | `Matching` |
| `Wallet` | the currency map, its operations as functions from map to map | |
| `Trading` | the server for one connection | `OrderBook`, `Wallet` |
| `Terminal` | the page: its state, and how the form and each message change it | |
| `Session` | page and server over a socket: two queues, loss, reloading | `Trading`, `Terminal` |
| `Workers` | several connections on several worker threads | `Trading`; implements it when there is one worker |
| `Console` | the console program | `OrderBook`, `Wallet` |
| `CSVReader` | cleaning and reading a file | |
| `Channel` | abstract: what arrives is what was sent, in order, up to a loss | |
| `WebSocket` | one connection of Crow after its upgrade | implements `Channel` twice |
| `CrowServer` | acceptor, workers, deadlines | |
| `Scheduler` | Asio's `run()`, posts, the reactor and one socket | |
| `Utf8`, `JsonString` | Unicode's definitions; scanning and dumping a string | |
| `HttpRequests`, `HttpConnection` | what browsers send and are due; Crow's parser and connection | |
| `MC*` | the small instances TLC checks | |
| `OrderBookProofs`, `ServingProofs`, `ConsoleProofs`, `CSVReaderProofs`, `WebSocketProofs`, `CrowProofs`, `JsonStringProofs`, `HttpProofs` | theorems and proofs; `OrderBookProofs` is about `Matching` and `OrderBook`, `ServingProofs` about `Trading`, `Session` and `Workers`, `CrowProofs` about `CrowServer` and `Scheduler` | |

Definitions whose comment begins "a slip" are plausible mistakes: the form a
definition would have with a bug. No specification uses them; put in the place of
the definition they belong to, they break the property `PROJECT.json` pairs them with.

### Correspondence with the code: book, wallet and server

- **Data.** Prices and amounts are integers: the code has doubles, rounding is not
  modelled. A time is a natural number (the code compares fixed-width date strings,
  so only their order counts) and so is a product (its rank in the alphabetical
  order in which `getKnownProducts` lists products). The field `id` names an order
  in properties; no step reads it.
- **std::sort.** The two sorts by price may leave ties in any order; a match begins
  with every possible outcome (`Sortings`). libstdc++ keeps ties of up to 16
  elements in order and makes no promise beyond; the data set has 30 and more
  orders for each product, side and time. The sort by time in `insertOrder` uses
  one outcome (`StableSort`): the vector is read only by `getNextTime`, which looks
  at times, and through `getOrders`, whose result is sorted by price again or only
  counted, so nobody can observe which.
- **The loop.** `(i, j)` are the two iterators, `j = 0` the test on the ask. Each
  action is a line or a branch of `OrderBook.cpp:123-171`.
- **A match.** `MatchEmpty` is the early return (which also skips the erasure of
  dead orders), `MatchBegin` copies and sorts, `MatchLoop` is a step of the loop,
  `WriteBack` the write-back, the erasure and the return. `call` holds the
  arguments, `sales` the result, until the caller has settled it.
- **The write-back.** An order gets the amount of the last copy on its side that has
  its username and price (`Twins`, `WrittenBack`): the code's inner loops assign
  again and again, so the last one stands.
- **The wallet.** The domain of the map is what was ever inserted. Absent and zero
  differ: `containsCurrency` of an absent currency is false for any amount.
- **The server.** A handler runs to its end before the next one of its connection
  (Crow keeps a connection on one thread), so `SubmitOrder` is one step. Names of the
  user's orders start at `FirstUserId`, behind those of the files.
  `next_timeframe` is many: one for each product, loop step and sale. A rejected
  submission changes nothing and is not an action. In `SettleSale` the actions
  `SettleBuy`, `SettleSell` and `SettleSellAborts` keep the code's order (credit
  first on a purchase, debit first on a sale), its ignored return values and the
  exception of `insertCurrency`, which leaves the debit done, drops the remaining
  sales and products, and does not move time. A refused sale amount never occurs:
  the loop only sells positive amounts (`SalesSettleable`, proved).
- **Products are typed.** The page sends whatever the user wrote (`index.html:118`,
  `app.js:277`), so a product may have any two currencies as `Base` and `Quote`, or no
  separator and with it no `Quote`. The wallet settles all of them. The `ui_` variables
  do not: their arithmetic knows ETH, BTC and AVAX as a base and BTC and USDT as a quote
  (`FollowedBases`, `FollowedQuotes`), so that a trade in USDT/BTC or BTC/ETH moves a
  balance of the wallet whose variable stays. `flags` remembers for which currencies that
  has happened (`Unfollowed`).
- **A product without a separator.** The page may send one. `submit_order` and
  `next_timeframe` then read `tokens[1]` of a vector of one element: undefined
  behaviour, for which the model has what a build can do there: the process dies,
  the read throws, or it yields a name that is no currency of the wallet. Such an
  ask can enter the book, and every later frame ends at its product
  (`BareProductAborts`, `BareProductCrash`).
- **The empty book.** `getNextTime` reads `orders[0]` of an empty vector. The storage
  is still there and the string in it was freed, so the model lets time become garbage,
  the copy throw, or the process die (`AdvanceTimeOfEmptyBook`). At a garbage time the
  message about a trade may throw in its turn, in `substr(11, 8)` or in the dump
  (Trading.cpp:206, 213): the trade is settled, the sales and products behind it are
  lost (`Untold`). `Workers` takes that message to be sent.
- **Auxiliary variables** of `Trading`: `submitted` (bounds the run), `owed` (what the
  user's fills add up to) and `flags` (which incidents have happened). No action's
  guard or effect on other variables depends on them but for the bound.

### Correspondence: page, threads, console, reader

- **Session.** A queue for each direction and a socket that can be lost with what is
  in it. The page never reconnects; `Reload` starts it over. A handler that runs when
  its page goes runs on, and what it sends is lost. Crow posts what a handler sends,
  so it leaves after the handler; `Session` puts it into the queue at once, which
  allows every behaviour the code has and some in which a message arrives earlier.
  `mine` and `dynamicWalletUpdated` are the handler's: whether its socket is this
  page's, and the flag that decides if balances are sent. `placed` and `missed` are
  auxiliary.
- **Terminal.** A row is an object that the history and the map of pending orders both
  point to. `Key` is the string the page builds of product, side, price and amount;
  prices that agree in the decimals written are one price.
- **Workers.** The variables of a handler (`pc`, `todo`, `call`, the match) hold those of
  the connection that runs; the others' are in `parked`. `Switch` parks and loads: any
  other worker may run at any step, another connection of the same worker only when
  no handler runs on it. A settlement is one step for each read and write of the
  wallet (`ReadLeg`, `WriteLeg`). Accesses of the book that overlap, one of them a
  write, are a data race: the process may die (`RaceCrash`) or they act as one after
  the other. Submissions of products without a separator are `Trading`'s.
- **Console.** Numbers are whatever `stod` reads, also negative ones and zero, which make
  dead orders and credits that are debits. `gotoNextTimeframe` matches ETH/BTC only;
  `processSale` adds and subtracts without a test.
- **CSV reader.** A line is a sequence of characters of which only commas, digits, points
  and two letters (for the words *ask* and *bid*) are told apart. Positions are the
  code's: they start at 0, and -1 is `npos` in a signed int. One turn of the loop of
  `tokenise` is one step. `Open` may fail. Before it `clean_csv.py` may rewrite the
  lines (`CleanCsv`) or not (`UseAsIs`).

### Correspondence: Crow, Asio, json.hpp

- **WebSocket.** The peer's bytes are pieces of frames, each what one read takes:
  header, length, mask, chunks of payload. What handlers send is a task queue, then
  a batch that is collected, then a batch that is being written. The peer may close,
  or vanish with reads and writes under way. The engine never closes a connection
  itself, never pings and sets no maximal payload; those branches are left out.
  `HeaderSplit` is a two-byte read that got one byte: Crow asks for two and takes what
  comes (`torn` remembers it, and the properties of order hold up to there).
- **CrowServer.** The acceptor makes the object of the next connection ahead, on the worker
  with the fewest; each worker's timer ticks and closes what is past its deadline.
  Identifiers of deadlines start again when a timer has none left.
- **Scheduler.** What a thread does while it holds the mutex is one step. Events of the
  socket are edges: they are told once. The speculative read at the start of an
  operation, the interrupter, the private queue of a thread and the count of work are
  there; `poll`, `run_one` and other platforms' reactors are not.
- **JsonString.** A text is scanned and dumped, or a string of the data file is dumped, and
  what was dumped is scanned again, as the page does. One turn of a loop is one step. A
  text to scan is put together of pieces that come with the UTF-16 units they mean.
- **HttpConnection.** Requests become one stream of symbols, which the parser takes one at a
  time; a read may end after any of them. A symbol is a byte, or bytes between which
  the parser only compares; `Octet` is what bodies are made of. Requests are records
  (`IsRequest`): a body has a length or an encoding, and none comes with an upgrade.
  `Delivered` is the request with what is marked handed over. Two kinds of requests may
  get an answer that is for others (`Misjudged`): a `POST` of `/?...`, which a read that
  ends before the query makes a path no rule has, so that it is answered 404 for 405; and
  one with `Expect` under HTTP/1.1, where the interim answer clears the 404 or 405 that
  routing left (crow_all.h:6605-6626, 6948), so that the answer says 200.

## The runs

| Run | Module, config | What it checks |
|---|---|---|
| `matching` | `MCMatching`, `matching.cfg` | the loop does what `Clearing` promises and leaves nothing crossed |
| `orderbook` | `MCOrderBook`, `orderbook.cfg` | what a match may and may not do to the orders in the book |
| `trading` | `MCTrading`, `trading.cfg` | wallet, shown balances and fills stay together; crossed orders trade; time reaches every order |
| `session` | `MCSession`, `session.cfg` | what the page shows is what the server did; no order stays unanswered |
| `workers` | `MCWorkers`, `workers.cfg` | pages that share a worker do not disturb each other; the book survives two |
| `console` | `MCConsole`, `console.cfg` | which orders can overdraw the wallet; the menu always returns |
| `csvreader` | `MCCSVReader`, `csvreader.cfg` | `tokenise` returns the fields, rows are loaded or counted, cleaning repairs |
| `websocket` | `WebSocket`, `websocket.cfg` | a connection implements a channel in each direction and leaves nothing behind |
| `crowserver` | `MCCrowServer`, `crowserver.cfg` | deadlines belong to live connections and close only idle ones |
| `scheduler` | `Scheduler`, `scheduler.cfg` | no wake-up and no event of the socket is lost |
| `json_string` | `MCJsonString`, `json_string.cfg` | what is scanned can be dumped and what is dumped is read back, within the buffer |
| `http` | `MCHttp`, `http.cfg` | requests arrive whole and are answered in order, however reads cut them |

What the properties say:

- `ImplementsClearing`: every sale is between a cheapest live ask and a highest live
  bid that it crosses, at the ask's price, for the smaller amount, and the call
  returns only when nothing crosses. `LoopInv` is the reason: nothing behind the
  iterators crosses, and the amounts change without disturbing the price order.
- `UncrossedAfterMatch`: the same for the book after the write-back, although orders
  with shared keys then have wrong amounts: each has the amount of a live copy at
  its own price, and live copies do not cross. `MatchConfined`: shared keys do no
  harm across times and products. `FillsDebitedIfUnique`: the write-back is exact for
  orders that share their key with no other matched order.
- `NextTimeIsSuccessor` and `BookSorted`: `getNextTime` takes the first later order of
  the vector, which is the right one because all operations keep the time order.
- `WalletNonNegative`, `SingleOrderSolvent`: a debit is refused rather than overdrawn, and
  refusals need two orders of the user in the book at once.
- `UiMirrorsWallet`: what is sent to the page is the wallet's balance, unless a debit was
  refused or a credit threw. `ui_btc` is safe from there on whatever is traded; `ui_usdt`
  is until the user trades a product with the base USDT, `ui_eth` and `ui_avax` until he
  trades one with that quote, which the code does not follow (`UiFollowsAllProducts`
  below is refuted).
- `SettledInFull`: the wallet is what the fills add up to, unless a debit was refused, an
  exception ended a frame, or the user traded with himself, when the one sale is settled
  as a purchase only.
- `ClearedBeforeTimeMoves`: when the time moves, nothing that is due crosses. A frame
  matches its products one after the other and may be ended by an exception behind any of
  them; the next one starts over with all products at the same time, because only a
  frame that got through all of them moves it.
- `CrossedOrdersTrade`, `EveryOrderGetsItsTime`: frames that end in an exception are
  retried at the same time with the offending sale consumed, and an emptied or
  shrunk book never strands an order. Only an order of a product without a separator
  stops both.
- `ShownAreServers`: once nothing is on its way, the balances on the page are the
  server's, except after frames whose changes are not sent (`missed`).
- `PendingInFlight`, `RejectionsShown`, `PendingCleared`: an order the page takes for
  unanswered has its order or its answer on the way; a rejection ends up on the row
  of the rejected order although rows are found by keys, prices change and trades
  come in between; and no row stays unanswered while connection and handlers live.
- `WalletFollowsFills`, `OneWorkerServes`: with one worker the steps of a settlement
  are, to everybody, the single step `Trading` takes them for. `BookSound`: with two,
  the book stays in time order and without dead orders as long as accesses do not
  overlap; the wallet does not (credits are lost), and nothing is claimed of it.
- `OverdrawnByOverlapOnly`: the untested `processSale` overdraws only if two orders were
  open at once, a typed price was negative or an amount not positive.
- `TokeniseCorrect`, `GoodRowsInOrder`, `CleanSuffices`: tokens are the maximal runs
  without comma up to the first empty field; every line read is loaded, in order, or
  counted; and of a cleaned file a row is lost only if it was beyond repair.
- `NothingLeftBehind`, `ClosedIsTold`: the connection deletes itself only when no task and
  no completion can reach it any more, and never goes without the close handler.
  `MessagesImplementChannel`, `RepliesImplementChannel`: no message is lost, doubled,
  reordered or mixed with another in either direction before the connection ends.
- `DeadlinesAreLive`, `OnlyIdleTimedOut`: a timer never holds a connection that is gone,
  and closes only what has been idle for the whole timeout.
- `NobodySleepsOnWork`, `ReadNotStuck`: no thread sleeps while an operation waits that
  nobody will take; a read does not wait for data that are there.
- `BufferFits`, `ParsedIsDumped`, `AnswersInOrder`, `RequestsArriveWhole`: as in the table.
  `RoundTrip`: dump throws at ill-formed strings only; the lexer takes whatever dump
  wrote, and reads the string back if that was well-formed. Of one that was not, a
  handler that ignores leaves the whole characters, and one that replaces puts nothing
  but U+FFFD among them. A handler that is strict throws at none but these.

### Bounds

- `matching`: up to two asks and two bids, prices 1..3, amounts 0..3. Two of each are
  what one break or continue can get wrong: an order that is left too early and one
  that comes after it. Amounts to 3 let an ask be filled by one bid, by two, and
  partly by both. The proofs cover longer vectors.
- `orderbook`: two orders in the file beside one of another product, and two inserted by
  the client, two prices, amounts and times, any sequence of matches. Two orders can
  share a key at one time, at two times and across products; the state space is
  finite because matches only consume.
- `trading`: six files, chosen so that keys are shared, both currencies of a product
  move, the user can empty the book, it empties itself with his orders to come (so that
  these trade at a garbage time), and only one time exists; four products, one without a
  separator and one, USDT/ETH, that the `ui_` variables follow on neither side; funds of 2 BTC and 3 USDT cover one order but not two; prices
  -1, 1, 2, amounts 1, 2; up to two orders of the user. BTC is the base of one product
  and the quote of another. `GarbageTimes` {0, 9} stands for any garbage: before all
  times and after all times.
- `session`: two orders with prices -1 and 2 and amount 1, two history rows, at most two
  messages on the way when the page sends another. Two orders are enough for every way
  two rows or two keys can be confused, and two rows for one to drop out.
- `workers`: two connections on one or two workers, two orders, amounts 1 and 2.
- `console`: two orders, prices and amounts -1, 1, 2, three files.
- `csvreader`: all lines of up to five characters over five, and files made of 13 kinds of
  rows. A line of five characters has up to three fields with every arrangement of
  empty ones between, before and behind.
- `websocket`: three frames of up to three chunks, up to two replies for a message: a
  fragment, a control frame between, and its continuation. `crowserver`: two workers,
  four interchangeable connections, a timeout of two ticks, identifiers up to 3 before
  they start again. `scheduler`: two threads, three posts, two pieces of data.
- `json_string`: texts of three pieces at the edges of UTF-8 and UTF-16, a buffer of 18 so
  that it is flushed at every fill level. `http`: up to two requests out of 28,
  which have each field, line end, empty line before and kind of body, and bodies of 0, 2
  and 10 bytes, so that a length has one digit that counts or two.
- Deadlock is checked for `orderbook` and `crowserver`. In the others the system may
  stop: a loop returns, a process crashes or is stopped, a connection ends, a file has
  been read, the bounds are used up.

### Fairness

`Trading.FairSpec`: a handler runs to its end (`WF` of `FrameStep`), and with auto-play
on the page keeps sending `next_timeframe` (`app.js:486-488`, `WF` of `NextTimeframe`).
Nothing is assumed of submissions. Without auto-play nothing need ever happen, and no
liveness is claimed. `Console.FairSpec`: `gotoNextTimeframe` keeps running.
`FairSessionSpec`: the server handles what arrives and finishes its handlers, an open
connection delivers; nothing is assumed of the user, nor of the connection staying
open. `MatchFairSpec` and the `FairSpec` of `CSVReader`, `WebSocket`, `Scheduler`,
`JsonString` and `HttpConnection` say the same of theirs (a thread that runs a loop
keeps running it, the loop hands out completions) and serve the properties of the next
paragraph.

Stated in the modules, in no run, and true when added to the cfg of the run named:
`LoopTerminates` (matching), `SalesPositive`, `HoldsEthAndBtcOnly` (console),
`ReaderTerminates` (csvreader), `ConnectionsEnd`, `RepliesArrive` (websocket, with
`MaxReplies` 1), `IdentifiersFresh`, `ShortestQueue` (crowserver), `WorkCounted`,
`DescriptorOnce`, `PostedRuns`, `DataRead` (scheduler, with two posts), `ScanMeans`,
`Ends` (json_string), `InStep`, `ClosedForReason`, `AllAnswered` (http), and the type
invariants (`TypeOK` of `Trading`, `Console` and `CSVReader`, `BookTypeOK` and so on).
The liveness ones need the fair specification.

### Where code and documentation differ

Some claims of documentation and comments do not hold. Each is a definition that quotes
its line, and TLC refutes it when it is added to the cfg of the run named. None is part
of a run.

| Claim | What is said | What the code does | Run |
|---|---|---|---|
| `OrderBook.FillsDebited` | "Pointer-based mutation on the master vector" (README.md:45) | copies are written back by username and price (OrderBook.cpp:178): orders that share both get one remainder | `orderbook` |
| `OrderBook.FifoTiebreak` | "FIFO tiebreak via monotonic `orderId`" (README.md:44) | there is no orderId, and `std::sort` compares prices alone (OrderBook.cpp:119) | `orderbook` |
| `Trading.AtomicFill` | "every fill triggers atomic ... wallet updates" (README.md:21) | a leg that is refused is ignored and the other one stands (Trading.cpp:184) | `trading` |
| `Trading.NoSelfTrade` | "Both cannot be simuser simultaneously" (OrderBook.cpp:136) | they can, and the sale is settled as a purchase only (OrderBook.cpp:137) | `trading` |
| `Trading.UiFollowsAllProducts` | "atomic multi-currency wallet tracking (BTC, ETH, USDT, AVAX)" (README.md:33), "Type the trading pair you want" (index.html:299) | the `ui_` balances ignore a base USDT and a quote ETH or AVAX (Trading.cpp:186-200) | `trading` |
| `Console.WalletCopes` | `canFulfillOrder` "checks if the wallet can cope" (Wallet.h:20) | nothing is reserved and `processSale` tests nothing (Wallet.cpp:162) | `console` |
| `CSVReader.MalformedSkipped` | "skips malformed rows" (README.md:47) | `stod` takes the longest prefix that is a number (CSVReader.cpp:77): 0.7.44564869 of RecordBook.csv is loaded as 0.7 | `csvreader` |
| `CSVReader.SortedOnLoad` | "Initial CSV sort ... One-time, on load" (README.md:72) | nothing sorts the file (OrderBook.cpp:14) | `csvreader` |
| `Session.NoStaleBalances` | "no polling, no stale data" (README.md:19) | balances that a frame moved before it threw, or whose connection is gone, are not sent (Trading.cpp:217) | `session` |
| `Session.FilledHasTraded` | the history shows each order's execution and status (index.html:344) | a trade of others marks the newest pending row of its side and product (app.js:84) | `session` |
| `Session.HintOfMarket` | hints are sent "so the order form auto-fills correctly" (Trading.cpp:67) | the page keeps a hint whatever product it is of (app.js:45) | `session` |
| `WebSocket.CloseHandlerOnce` | "if the close handler was not yet called at this point" (crow_all.h:10544) | calling it sets no flag (10546): a failing write and a failing read call it twice | `websocket` |
| `WebSocket.CloseFrameSent` | "destroy the object once the message is sent" (crow_all.h:10043) | the next read finds both flags set and closes at once (10142) | `websocket` |
| `WebSocket.HeaderReadsWhole` | a short read is an "asio bug?" (crow_all.h:10173) | the two bytes are read with `async_read_some` (10158) | `websocket` |
| `CrowServer.IdleIsClosed` | "the connection timeout" (crow_all.h:14278) | a second cancel (6890) erases the deadline of a connection that got the identifier anew (5282) | `crowserver` |
| `HttpConnection.PathAlone` | `url` is the endpoint without parameters (crow_all.h:2551) | the query's place is counted from a mark of an earlier read or URL (3359) | `http` |

## What is proved

61 results, for every value of the constants, from the assumptions the modules name and
nothing else:

- `Trading` (and `Session`, `Workers`): products have any base and any quote or none; start
  funds are not negative; a file has an order, is in
  time order, has no dead orders and only products with two currencies; its orders
  belong to *dataset* and its asks have no negative price; the page sends positive
  amounts. `Session` adds that the page's products exist.
- `CSVReader`: a file is lines of characters. `WebSocket`, `CrowServer`, `Scheduler`: the
  bounds are numbers, the sets of threads and connections are finite and not empty.
  `Console`: the first product is ETH/BTC, start funds are not negative, a file has an
  order, is in time order and its orders belong to *dataset* (the reader names no user,
  so the constructor's default stands); prices and amounts are any integers.
  `JsonString`: the buffer has at least 13 bytes (512 in the code), and the error handlers
  are the three there are. `HttpConnection`: what is sent are requests (`IsRequest`): any
  number, each with any fields, a body of up to 99 bytes with its length or up to 9 in a
  chunk, and a target that is a path. `Matching` and `OrderBook` need none.

| Module | Theorem | Statement |
|---|---|---|
| `OrderBookProofs` | `LoopInvariant`, `MatchTypeCorrect`, `UncrossedWhenReturned` | `MatchSpec => []LoopInv`, `[]MatchTypeOK`, `[]UncrossedOnReturn` |
| | `LoopImplementsClearing` | `MatchSpec => ImplementsClearing` |
| | `BookInvariant`, `BookTypeCorrect`, `BookStaysSorted`, `NextTimeCorrect` | `BookSpec => []BookInv`, `[]BookTypeOK`, `[]BookSorted`, `[]NextTimeIsSuccessor` |
| | `MatchIsConfined`, `UncrossedOnceMatched` | `BookSpec => MatchConfined`, `UncrossedAfterMatch` |
| | `FillsInvariant`, `FillsAreDebited` | `BookSpec => []FillsInv`, `FillsDebitedIfUnique` |
| `ServingProofs` | `ServerInvariant`, `TypeCorrect`, `WalletStaysNonNegative`, `UiFollowsWallet` | `Spec => []ServerInv`, `[]TypeOK`, `[]WalletNonNegative`, `[]UiMirrorsWallet` |
| | `TimeMovesOnceCleared` | `Spec => ClearedBeforeTimeMoves` |
| | `WalletIsSettledInFull`, `SingleOrdersAreSolvent` | `Spec => []SettledInFull`, `[]SingleOrderSolvent` |
| | `WorkersInvariant`, `WorkersTypeCorrect`, `WorkersKeepBook`, `WorkersWalletFollowsFills` | `WorkersSpec => []WorkersInv`, `[]WorkersTypeOK`, `[]BookSound`, `[]WalletFollowsFills` |
| | `WorkersServeOneByOne`, `OneWorkerIsTrading` | `WorkersSpec => OneWorkerServes`; with one worker, `WorkersSpec => Served!Spec` |
| | `SessionIsTrading` | `SessionSpec => Spec` |
| | `SessionInvariant`, `SessionTypeCorrect` | `SessionSpec => []SessionInv`, `[]SessionTypeOK` |
| | `ShownBalancesAreServers`, `PendingRowsInFlight`, `RejectionsAreShown` | `SessionSpec => []ShownAreServers`, `[]PendingInFlight`, `[]RejectionsShown` |
| `ConsoleProofs` | `ConsoleInvariant`, `ConsoleTypeCorrect`, `NoThirdCurrency`, `SalesArePositive` | `Spec => []ConsoleInv`, `[]TypeOK`, `[]HoldsEthAndBtcOnly`, `[]SalesPositive` |
| | `OverdraftNeedsOverlap` | `Spec => []OverdrawnByOverlapOnly` |
| `CSVReaderProofs` | `ReaderInvariant`, `ReaderTypeCorrect` | `Spec => []ReaderInv`, `[]TypeOK` |
| | `TokensAreFields`, `RowsAreLoadedInOrder`, `CleaningSuffices` | `Spec => []TokeniseCorrect`, `[]GoodRowsInOrder`, `[]CleanSuffices` |
| `WebSocketProofs` | `SocketLeavesNothingBehind`, `SocketCloseIsTold` | `Spec => []NothingLeftBehind`, `[]ClosedIsTold` |
| | `MessagesArriveInOrder`, `RepliesArriveInOrder` | `Spec => MessagesImplementChannel`, `RepliesImplementChannel` |
| `CrowProofs` | `CrowTypeCorrect`, `CrowIdentifiersFresh`, `CrowDeadlinesAreLive`, `CrowOnlyIdleTimedOut` | `CrowSpec => []CrowTypeOK`, `[]IdentifiersFresh`, `[]DeadlinesAreLive`, `OnlyIdleTimedOut` |
| | `SchedReadNotStuck`, `SchedDescriptorOnce`, `SchedNobodySleepsOnWork` | `Spec => []ReadNotStuck`, `[]DescriptorOnce`, `[]NobodySleepsOnWork` (of `Scheduler`) |
| `JsonStringProofs` | `EscapesRecombine`, `HexReadsBack` | lemmas of arithmetic: surrogates and hexadecimal digits are read back |
| | `StringTypeCorrect`, `BufferNeverOverrun`, `ParsedStringsDump`, `StringsRoundTrip` | `Spec => []StringTypeOK`, `[]BufferFits`, `[]ParsedIsDumped`, `[]RoundTrip` |
| `HttpProofs` | `ParserInStep` | `Spec => [](Conn /\ Written /\ ParseInv)` |
| | `AnswersFollowRequests`, `RequestsAreWhole` | `Spec => []AnswersInOrder`, `[]RequestsArriveWhole` |

How the arguments go:

- **Loop.** `UncrossedOnReturn` is not inductive. `LoopInv` adds the price order of both
  vectors and that nothing behind the iterators crosses (`PassedAsks`, `PassedBids`).
  When the outer loop moves on, either the ask is dead, or every live bid has been
  passed; when it moves past a fill, one of the two orders is dead. For the
  refinement, the price order makes the current ask a cheapest live one (everything
  cheaper is behind and does not cross, but would if it were live: the current bid
  crosses the dearer ask) and the current bid a highest live one.
- **Selecting and sorting.** `OrderBookProofs` begins with lemmas that selecting by ranks
  (`At`) keeps the order and loses nothing, and that the stable sort by time is a sorted
  permutation (the places of the elements are an injection into 1..n, hence onto).
- **Book.** `BookInv` adds to types and time order the running loop's invariant and
  `CopiesComplete`: every order that takes part has a copy with its key. The last one
  is what the write-back needs: an order that is left has the amount of a live copy
  with its price, so two that cross would be two live copies that cross, which the
  loop invariant excludes at the end of the outer loop.
- **Fills.** `FillsInv` is the account of a call: every copy is still of its order, and
  what it has left and what the sales so far took from it add up to that order's
  amount (`CopiesTracked`), the orders being told apart by `OwnIds`. What the sales
  took is pinned down by a sequence of partial sums, which exists and is extended by
  each sale. An order alone with its key then gets its own copy's amount back.
- **Server.** `ServerInv` adds `SalesSettleable`: a sale waiting for settlement has a
  known product and a positive amount, so the credit of a purchase never throws. Each
  settlement changes wallet and shown balances by the same amounts unless a flag goes
  up, and a debit only happens after the test of `removeCurrency`.
- **Time.** `ClearedInv`: in a frame, every product that is not in `todo` and not being
  matched has nothing due that crosses. A match of a product clears it
  (`WriteBackUncrosses`, from the loop's invariant) and does no harm to the others, whose
  orders the write-back leaves as they are (`CrossedKept`). Time moves when `todo` is
  empty; a frame that an exception ends claims nothing, and the next one fills `todo`
  again.
- **Money.** `WalletIsSettledInFull` needs `LedgerInv`: there is a sequence of balances
  that starts with the wallet, moves by what each waiting sale is worth, and ends with
  what the fills add up to. `SingleOrdersAreSolvent` needs `SolventInv`: as long as the
  user has had one order in the book at a time, the balance left after the waiting
  sales covers what the rest of that order can cost.
- **Session.** Its steps are `Trading`'s or leave its variables alone
  (`SessionIsTrading`), so that what is proved of `Trading` holds of it. `SessionInv` adds
  to that invariants of the link, the page, of what was told (the balances on the page
  or on the way are the server's unless `missed`), and of the orders: which row an
  order has (`RowsInv`), that an order sent is in `toServer` once (`SentInv`), that an
  answer on the way is about an order that got it (`AckInv`), that a pending row
  awaits one (`AwaitedInv`), and that a rejected order's answer is on the way or on
  its row (`RejectedInv`).
- **Workers.** `WorkersInv` says of the shared state what `ServerInv` does (`SharedInv`) and
  of each handler's locals, loaded or parked, what holds of a handler whoever else
  runs (`HandlerInv`). The book's order survives two workers because a write-back
  changes amounts only. With one worker (`OneInv`) at most one handler is not idle, so
  that between two legs nobody else touches the wallet; the legs that are done and
  those to come are then one settlement of `Trading` (`LegsLedger`).
- **Console.** `ConsoleInv` is the book's invariant without the assumption that nothing is
  dead: the loop invariant holds with orders of amount zero or less among the copies,
  and sales are positive because the loop skips those. `FundedInv` is the budget: while
  the user has one order and all he typed was good (`flags` is empty), there is a
  currency and a sequence of balances that starts at or below the wallet's, moves by
  the debit of each waiting sale, never is negative, and covers at its end what the
  rest of his order can cost. A sale at a price below zero, which a file may ask, adds
  to it. Since nothing tests `processSale`, `canFulfillOrder` at the time of entry is all
  the argument has.
- **CSV reader.** `TokenInv` says that the tokens are the fields that begin before the
  position and that no empty field has been passed (`Reached`); the end of a token is
  the next comma because it is the least one from there. `RowsInv` says that the
  entries are those of the lines handled that load, and the bad lines the others.
  `LoadedFrom` and `FieldsTo` are recursive functions over the length of the text, whose
  one-step equations follow from the function definition itself. For the cleaning, each
  place of a line goes to a place of the cleaned line (`SameFields`): separators go to
  separators, both characters of a spare "0." where the digit behind them goes. So the
  fields that are kept stay kept, in order, each without its spare "0." (`IsCleaned`);
  a number has at most one point, so that one that is taken out was one too many.
- **WebSocket.** `MessagesInv` looks ahead: reading the pieces that are still incoming, from
  the state the connection is in, hands over what the peer has posed, in order, and
  all of it unless the peer goes (`Expected`). `RepliesInv`: the replies are what is
  on the wire, then the batch, the buffers and the tasks (`Intact`), until the peer or
  the object is gone; then what is on the wire stays a beginning of them (`CutOff`).
- **Crow and Asio.** A deadline is of a connection that reads and knows its identifier, and
  what it has left and the ticks its connection was idle make up the timeout
  (`LeftIsToIdle`). For the scheduler, `QueueInv` says that the reactor's operation is in
  one place and that the socket's is queued only ahead of it, and `AwakeInv` that
  whenever there is work a thread is awake, a signal that reaches one is being given,
  or all are busy (`SomeoneComes`). `DescriptorOnce` says that the socket's operation is in
  one place of all queues at most, and in none while a thread is about to take events from
  epoll and to queue it: with `QueueInv`, the reactor is behind every place it could be
  in (`LinkInv`). It does not say that nobody runs it then: one thread may, while another
  takes an event and queues it again, and `perform_io` takes the descriptor's mutex for
  that.
- **json.hpp.** `BufferInv` bounds what the buffer holds by where in a character the decoder
  is; what is written at once fits because it is flushed with 13 bytes left. `ParseInv`:
  a scanned string is whole characters, so the decoder never rejects it. `TripInv` takes
  it to the page and back: there is a well-formed string v such that what is written so
  far is read as v, and v holds what the bytes done so far do (`Holds`): the same whole
  characters, and nothing else but what the handler puts. While the decoder is inside a
  character (`Halfway`), the bytes since it began can still become one; when it rejects
  one, no place of those bytes begins a character (`EndsEarly`), so that nothing whole is
  lost where it starts again. On the page each symbol written is read as the character
  it was written for (`Ahead`), whether raw, escaped, or a pair of surrogates.
- **HTTP.** The properties speak of the whole stream and of what was handled; a step sees
  one symbol. `ParseInv` joins them by what is still to come: either a request is
  expected (`Idle`), or the parser is in one of its parts (`InNext`: thirteen predicates
  from `AtMethod` to `AtLast`), and each part says which symbols come before the next
  request and what the parser must know there. In the headers it must know a field's
  name so far (`InName`: the state of the match, which outlives the read), what of a
  name or value was handed over and what is marked (`Holds` of `Delivered`, so that the
  end of a read changes nothing), which flags the names and values behind it set
  (`FlagsInv`), the length so far (`LengthInv`), and that the headers told are those
  behind (`Told`). `Routed` carries what was decided at the URL to the answer, with
  `Misjudged` for what is lost on the way; `InUrl` bounds where the query is taken to start,
  so that a URL is never cut before its "?". In the body the bytes left are the length
  left. Each action is then one lemma for each part it can begin in; the other parts have
  another next symbol or state. That the stream comes apart into its requests
  (`Joined`, a recursive function over texts) takes a least counterexample
  (`JoinedExists`, `JoinedSeq`).

No induction principle is used (the library's take an operator): where an argument
needs one, it takes the least counterexample of a set of numbers (`MinIsLeast`, `LeastOf`),
which is a first-order fact about natural numbers.

### Only model-checked

- Liveness: `CrossedOrdersTrade`, `EveryOrderGetsItsTime`, `PendingCleared`, `MenuReturns`.
  Fairness and `ENABLED` are out of this prover's reach.
- `InStep` of `HttpConnection` finds the place of a request by a fold over those before it,
  which is induction over data; what it says of the parser is part of `ParseInv`, which
  says it of the symbols that still come. The other definitions that no run has
  (end of *Fairness*) are model-checked unless a theorem above names them.

Every invariant and action property that a run checks is proved; the four liveness
properties above are not.

## Not modelled

Rounding of doubles, message texts and formats, the page's charts, tables and simulated
prices, and the data set itself. `change_market` and `onopen` change no state of the
server; what they send is in `Session`. Amounts that are not positive are outside
`Trading` because the page does not send them; the console takes any.

Of the vendored libraries, most lines are never run by the server or are declarations:
other platforms, resolvers, serial ports, streams, coroutines and TLS of Asio; middleware,
compression, templates, cookies and multipart of Crow; the binary formats, pointers,
patches and iterators of json.hpp. Of what does run, these are left out: Asio's timers
(only Crow's tick uses them, and `CrowServer` has the tick) and writes (`WebSocket` takes
`async_write` for what it tells); json.hpp's parser and builder, and the numbers it reads
and writes (they work on values no handler keeps).

## Plan

Done: the matching loop and its promise; the book, the wallet and the server; the page and
its session; several workers; the console; the reader; Crow's connections, acceptor,
parser and deadlines; Asio's loop; json.hpp's strings; and the proofs above.
