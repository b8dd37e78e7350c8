# Velocity-Vortex: verification project

Velocity-Vortex is a C++ trading system made of separate programs: bots that read market data
and decide (`Computing-Server`), a limit order book they may keep
(`Computing-Server/src/Orderbook`), a service that routes orders to executors
(`Order-Manager-Server`), a database server with a REST API and a Redis feed (`IO-Server`), and
connectors to market-data providers (`DataBroker-Server`).

This directory holds TLA+ models of that code, the TLC configurations that check them on small
instances, and theorems with proofs for every instance. Paths below are relative to the
repository; `order_book.cpp` stands for `Computing-Server/src/Orderbook/order_book.cpp` and
`OrderBook-Bot.cpp` for `Computing-Server/src/Velocity-Bot/test/OrderBook-Bot.cpp`;
`Websocket.cpp` and `DataFetcher.cpp` are those of `Computing-Server/src/Data-Fetcher-Core`;
`api_router.cpp`, `SQLiteDB.cpp`, `Redissubscriber.cpp` and `bootstrap.sql` the files of
`IO-Server`.

## 1. Inventory

| Component | State it keeps | Operations | What is hard | Properties that make it correct | Here |
|---|---|---|---|---|---|
| Limit order book (`order_book.cpp`, `order_.cpp`) | two maps price → FIFO list of orders, an index id → (order, list position), one mutex | `AddOrder` (and the matching loop), `CancelOrder`, `ModifyOrder`, `Size`, `GetOrderInfos` | any number of threads; two structures that must agree; loops whose exit depends on erasures; re-locking of a non-recursive mutex; quantity 0; 32-bit sums | index and levels agree; never crossed at rest; price-time priority; trades only of the taker, from the best price outwards; nothing lost; calls return | `OrderBook`, `PriceTimePriority` |
| Market-making strategy (`Orderbook::executeMarketMakingStrategy`) | `current_position_`, thresholds | one call: guard, test, `AddOrder`, update | lock released between test and update; unlocked reads; result of `AddOrder` ignored | the position stays near its limit | `MarketMaker` |
| Order-book bot (`OrderBook-Bot.cpp`) | `CounterId`, an order book | `processMessage` per quote: buy at the ask, sell at the bid, strategy | ids shared by two users of one counter, one of which does not advance it | ids are unique; every quote is handled; every reported order is in the book | `QuoteBot` |
| WebSocket session (`Websocket.cpp`) | connected, authenticated, reading, stop flags, one buffer | the handler chain resolve → connect → TLS → handshake → auth → read loop | asynchronous handlers, errors at each, a bot at work inside one of them, frames of several messages | one read and one write at a time; never deaf in silence; messages handed over once and in order; the loop goes on | `MarketDataSession`, `FeedBot` |
| Trading bots (`Velocity-Bot/strategies/*.cpp`, `test/bot.cpp`) | running flag, candle window, history, indicators, position flag, a Redis context, a curl handle | `initialize`, `run`, `stop`, `processTrading`, `executeTradingLogic` | stop racing run; failed orders, answers and connections; pointers kept to freed memory; indicators that throw or write outside | no bar is lost; the program does not end by itself; the position is known; stop stops | `TradingBot` |
| Back-tester (`Backtesting-Bot/bot.cpp`) | the days, money and shares, chart labels | `initialize`, `run`, `plotResults` | conversions to int; too few days | no money made or lost but by rounding; the chart ends | `BackTester` |
| Indicators (`AlgoEngine-Core/indicators`) | history, last signals, the last close (ATR) | `addData`, `reset`, `adjustParameters`, `calculateSignal`, `calculate`, the tasks of CCI | two formulas per class; boundaries of windows; empty ranges; parallel writes | the two agree; values within their range; chunks partition | `Indicators`, `IndicatorCalls`, `CciTasks` |
| Launcher (`Computing-Server/src/main.cpp`) | – | which program a build runs | – | – | `ComputingServer` |
| Order routing (`Order-Manager-Server`) | input queue, one queue per executor | the receive loop, `RoundRobin`, `Equalizer`, `Latency_Based`, `Liquidity_Based`, `processOrderQueue` | four threads and blocking queues; size tests before pops; unsigned differences; an index one past the end | no thread waits in a pop; quantities are conserved; orders go where the policy says; every order is tried | `OrderRouting` |
| SQLite store and REST API (`SQLiteDB.cpp`, `api_router.cpp`, `bootstrap.sql`) | tables, one connection | `create_order`, `cancel_order`, `create_signal`, `create_strategy`, `update_strategy`; queries | one connection under many HTTP threads and the Redis thread; no transactions; last row id; requests sent again; restarts | a 201 stands for one row that holds what was asked for, an error for none; one order per client id; the id returned is the order created | `Connection`, `OrderStore`, `IOServer` |
| Reads and calculations (`api_router.cpp`, `calculations/*`) | – | the lists with limit and offset, the lookups, the rolling rates and correlations | results read row by row and page by page while other threads insert | no row that was there is missed; the windows are consecutive bars | `StoreReads` |
| Redis ingest (`Redissubscriber.cpp`) | rows in four tables | `connect`, `run`, `processReply` and its store operations | subscribe replies mixed with messages; three statements without a transaction; fallbacks that store again; restarts | each message audited; a marked trade is stored; nothing stored twice | `MessageIngest`, `IOServer` |
| Models, risk analysis, providers, logger, front end | – | floating-point estimation, HTTP and log I/O, static pages | nothing a model checker reaches | – | not modelled (section 5) |

**How they interact.** The order-book bot is driven by its WebSocket session, whose handlers run
on one thread and call `processMessage`, which calls the bot's own `Orderbook` directly; the
class itself has a mutex, so it is meant for more threads, and it is modelled for any number.
The candle bots ask a data service for the last minute, on a thread that the main thread stops
and joins; they call the broker over HTTP and publish bars to Redis; the routing service
receives order texts over ZeroMQ and posts them to the broker; IO-Server subscribes to Redis and
serves its tables over HTTP from a pool of threads that share one SQLite connection with the
Redis thread. `Computing-Server/src/main.cpp` has all bot launches commented out: which bot runs
is a choice made when it is compiled.

The hazards of all components, each at the line where it bites, are listed in `PROJECT.json`,
with the properties that would catch it going wrong.

## 2. Modules

| Module | Models | Builds on |
|---|---|---|
| `PriceTimePriority` | what a book promises: queues per price, trades between the heads of the best ones | – |
| `OrderBook` | class `Orderbook` without the strategy | refines `PriceTimePriority` |
| `OrderBookProofs` | theorems about `OrderBook`, and that it implements `PriceTimePriority` | `OrderBook`, `DataLemmas` |
| `MarketMaker` | `executeMarketMakingStrategy`, composed with the book | `OrderBook` |
| `QuoteBot` | `TestBOT::processMessage`, composed with both | `MarketMaker` |
| `MarketDataSession` | `WebSocket`: the handler chain and the read loop | – |
| `FeedBot` | the order-book bot inside `on_read` of its session | `QuoteBot`, `MarketDataSession` |
| `FeedBotProofs` | theorems about these four | `FeedBot` |
| `Indicators` | what the bots compute from candles, and compare | – |
| `TradingBot` | the four strategies and the test bot, with main's thread, broker, data service and Redis around them | `Indicators` |
| `BackTester` | the back-tester with its money and its chart | `Indicators` |
| `IndicatorCalls` | an indicator object under any sequence of calls, next to the series its class gives | `Indicators` |
| `CciTasks` | the parallel tasks of CCI | – |
| `ComputingServer` | the program a build runs: one of the last four | `TradingBot`, `BackTester`, `IndicatorCalls`, `CciTasks` |
| `IndicatorProofs` | theorems about `IndicatorCalls` | `IndicatorCalls`, `DataLemmas` |
| `ComputingServerProofs` | theorems about the other programs and about the server | `ComputingServer`, `IndicatorProofs` |
| `OrderRouting` | scheduler, provider queues, executors | – |
| `OrderRoutingProofs` | theorems about `OrderRouting` | `OrderRouting`, `DataLemmas` |
| `Connection` | `SQLiteDB` as its users see it: atomic statements, one last row id | – |
| `OrderStore` | the handlers of the REST API that write | `Connection` |
| `MessageIngest` | `RedisSubscriber` | `Connection` |
| `IOServer` | the process: both on the same connection | `OrderStore`, `MessageIngest` |
| `StoreReads` | the lists, lookups and calculations of the REST API | – |
| `StoreReadsProofs` | theorems about `StoreReads` | `StoreReads` |
| `IOServerProofs` | theorems about `OrderStore`, `MessageIngest` and `IOServer` | `IOServer` |
| `DataLemmas` | lemmas on lists, folds, sums and remainders that the proofs share | – |
| `MC*` | small instances of the module they are named after | |

### OrderBook

| TLA+ | Code |
|---|---|
| `bids`, `asks` | `bids_`, `asks_`: functions from the prices that have a level to the level's list of ids |
| `orders` | `orders_`, each id with the fields of the order its entry points to |
| `holder` | the owner of `orderbook_mutex`; `None` between critical sections, and set only by those of several steps |
| `pc`, `call` | where each thread is, and the arguments of the call it makes |
| `trades` | the local `Trades_` of `MatchOrders` |

A pointer to an order is its id: `AddOrder` refuses an id that is in the index, so one live
order carries it. The iterator in an index entry is the position of the id in its list;
`IndexConsistent` says it is always there and only once.

A thread chooses a call (`Invoke`), waits for the mutex, and enters. Everything done under the
mutex that loops nowhere is one step, as no other thread can see its middle. The matching loop
is different: one turn of the inner loop is a step (`MatchTrade`), a turn that changes nothing
is a stuttering step (`MatchSpin`), and leaving is a step (`MatchDone`). So a loop that never
ends is a behaviour of the model and fairness cannot hide it.

Points where the model follows the code and not the intention:

- `EraseEmptied`: the bid level is looked at first and a `break` follows its erase (105-109), so
  an ask level emptied by the same trade stays as an empty list.
- `AddFillAndKill`: `CanMatch` locks the mutex `AddOrder` owns. Locking a `std::mutex` twice is
  undefined; `Relock` takes the two outcomes of the usual libraries, a thread that waits for
  itself (glibc) and an exception that unwinds and releases the lock (MSVC). A `FillAndKill`
  order thus never enters the book, which is what lets `MatchDone` ignore `cancel_fak`
  (118-131); `TypeOK` says it.
- `ModifyKnown`: the same with `CancelOrder`. No existing order is ever modified.
- A loop without side effects is formally undefined in C++; the model takes the loop that
  mainstream compilers emit, as both loops call functions on `std::map` and `std::list`.
- `Fill` ignores an overlarge quantity (`order_.cpp:17-21`).
- `GetOrderInfos` adds up in a `Quantity`; `QuantityRange` is its 2^32.

### MarketMaker

`position` is `current_position_`; `maker[t]` says where in the function thread `t` is. The
mutex is taken for the guard (225), inside `AddOrder`, and for the update (250, 270), and not
for the tests at 236 and 257: each of these is a step. The guard asks for a position beyond
*both* limits (226) and so stops nobody unless the limit is 0 or less. A price in floating point
is a number of ticks, `Tick` ticks to one `Price`; the conversion at `std::make_shared` drops
the fraction (`ToPrice`), so an improved ask may be sold below the quote it improves on. Sizes
are taken from the wrong side of the quote, as in the code. Whether `AddOrder` took the order is
not looked at; neither does the model.

`spread_threshold_` and `position_limit_` are constants: `setSpreadThreshold` is called with one
literal before every use, `setPositionLimit` is not called at all.

### QuoteBot

One thread, `Feed`, that of the WebSocket handlers, takes up quotes one at a time. `counter` is
`CounterId`; `stage` is the next statement of `processMessage`. The literals 230, 232, 2, 2 of
the strategy call are the constant `MakerQuote`. Only quotes are modelled: for a trade message
the bot prints a line.

### MarketDataSession and FeedBot

| TLA+ | Code |
|---|---|
| `phase` | the handler the chain waits for (`on_resolve` … `on_auth_write`), then `open`, `ended`, `destroyed` |
| `connected`, `authenticated`, `reading`, `stopReading` | the flags of the class |
| `reads`, `writes` | operations outstanding on `ws_`: what Beast allows one of each |
| `buffer` | `buffer_`, by the frames whose text is in it |
| `handling` | `on_read` is between its call of `processMessage` and its `doRead` |
| `trouble`, `taken`, `handed` | history: what was printed or thrown, the frames read, the messages handed over |

One action per completion handler, with its error path as its own. The text of a frame is an
array of messages, another value, or no JSON. `Throws`: an element that is no object is asked
for a member while the session is not authenticated, and the exception leaves `ioc.run`. The
subscription's write is started by the read handler, which goes on reading: `OneOperationEach`
says it cannot meet the write of the credentials. The idle timeout of the stream
(`timeout::suggested`) appears as a read that fails.

`FeedBot` puts `QuoteBot` inside `on_read`: the handler does not return before `processMessage`
does, so the session is deaf while the book is at work, and for good if the book never returns.

### TradingBot

| TLA+ | Code |
|---|---|
| `strategy` | which class main has created; `Class` holds in what the five copies of the code differ |
| `stage` | where the bot's thread is: the loop's test, the market clock, the bar, the decision, an order |
| `running` | `isRunning`, written by both threads |
| `window`, `history` | `oneMinCandles`, `historicalData`; the indicators hold copies of the history |
| `positionOpen`, `shares`, `missed` | what the bot believes, what the broker holds, and the orders the broker did not execute |
| `redis`, `body` | what the Redis context and `POSTFIELDS` point to |

- `run` sets `isRunning` on its own thread, so a `stop` that comes before is lost (`StopEndsRun`
  says `stage # "ready"`).
- `connect` frees a context that fails and keeps the pointer; the curl handle keeps a pointer to
  the body of an order when `createOrder` has returned, and sends it with the next GET. Using
  either may end the program.
- EMA writes at index `period - 1` whatever the number of closes: undefined when there are
  fewer. `Outcomes` has that case; that it is never reached is `CrashesOnlyOnFreedMemory`, and
  rests on the order in which the averages are asked.
- `TestBotTest` has the names of the averages swapped as the code has, `MeanReversionTest` the
  bands (`Mean-Reversion-Strategy.cpp:179-181` against its own message in 198), and
  `VolatilityTest` has no result, as VWAP returns a vector.
- The program is built with `-ffast-math`, so a comparison with 0 / 0 may go either way: the
  comparisons of `Indicators` are sets of results. The rest is exact in whole ticks;
  floating-point rounding is left out.

### BackTester, IndicatorCalls, CciTasks, ComputingServer

`BackTester` keeps money in ticks and converts as the code does (`Amount` and `Holding` are
ints); `exact` is the money if nothing were lost. A rounding error of a double can move a
quotient across a whole number, which is not modelled. The chart's labels are drawn one at a
time: with fewer than ten days the step is 0 and they never end but in `OutOfMemory`.

`IndicatorCalls` models an object of each class but CCI: `addData`, `reset`, `adjustParameters`
and `calculateSignal` in any order. A value is a ratio. `calculate` is the function of the same
class, written separately in the code and in the model. What the code does and the model
follows: the live RSI uses the whole history, the live APO begins both averages with the newest
close, the live ATR takes the range of the candle before the last, and `reset` keeps its last
close. The live stochastic oscillator ignores its `smoothK` and `smoothD`; `calculate` smooths
twice and throws for fewer than `period + smoothK + smoothD` candles (`StochasticValues`).

`CciTasks` has one action per written value, so that tasks interleave. The newest bar has no
value; with fewer values than threads the first chunk is empty and nothing is computed; the
tasks use the period of the object and not that given to `calculate`; 0 threads divide by zero.

`ComputingServer` has one of these programs per behaviour: `main.cpp` has them commented out one
after the other.

### OrderRouting

| TLA+ | Code |
|---|---|
| `policy`, `feeds` | the method main calls, and whether there is a producer of `orderQueue`, which the repository lacks |
| `at`, `left`, `hand`, `current`, `sizes` | where the main thread is, `order_we_have`, the parts still to be pushed, the turn, the sizes read |
| `queue`, `doing`, `batch` | each executor's `orderQueue`, where its thread is, its `n` |
| `fed`, `tried`, `gone` | history: orders produced, popped by an executor, pushed nowhere |

Each call of a `TSQueue` is a step: `empty`, `size`, `pop`, `push`. None of the policies
returns, so main takes one message and no more (`Receive` fires once). `EqualizerPastEnd` is the
push to `Provider_pointer[total_provider]`. `Difference` is a subtraction of two `size_t`.
`parseOrder` takes fields by position and only the quantity is used.

### OrderStore

| TLA+ | Code |
|---|---|
| `orders`, `strategies`, `signals` | the tables; rows are never deleted and keys are AUTOINCREMENT, so a key is a position |
| `last` | `sqlite3_last_insert_rowid`, with (history) the thread whose insert it was |
| `at`, `req` | where the handler of each HTTP thread is, and the request it works on |
| `found` | the local `strategy_id` |
| `answer` | the response sent by the latest step |
| `row`, `seen`, `told`, `cut` | history: the row a request inserted, how many strategies there were when it came in, the client ids answered with 201, and those cut off by a restart |

A step is one call of `SQLiteDB`: SQLite runs a statement atomically (the connection is in its
default serialized mode) and no handler opens a transaction. The only data kept are those the
statements test: client id, names, status. `form` stands for everything else in a body:
"malformed" bodies are turned away before the first statement (after it in `update_strategy`,
which parses late), "illegal" ones by a CHECK or a conversion. `StatementsMayFail` lets the disk
fail any statement. `Update` always fails: both UPDATEs call `SYSUTCDATETIME`, which SQLite does
not have. `StoreRestart` ends the process at any point. `OtherInsert` is the Redis thread as the
store sees it; in `IOServer` it is the real one.

### MessageIngest

`stage` is the next statement of the thread, `raw` and `typed` are the tables, `current` the
message in hand. `Swallow` is a message that arrives while `connect` still subscribes: it reads
one reply per SUBSCRIBE and frees it, whatever it is. `Audit` to `FallbackFails` are the
statements of `processReply`, each with its failing twin; for `orderbook` and `tickers` the code
is that of `trades` without the mark. `Mark` goes by the text of the message, as in the code.
`Disconnect` and `ConnectFails` end the thread for good. `delivered`, `unlogged`, `again` and
`troubled` are history and count deliveries: all of a message, those without a first raw row,
those stored raw again by the fallback, and those since its last mark whose insert or mark
failed or was cut off. A failing raw insert is no trouble in this sense, as it leaves no row.

### IOServer

`main` starts the Redis thread and the HTTP threads and nothing orders their steps: a step is
one of theirs, or a restart of the whole process. `last` is the only state they share.

### StoreReads

A statement is a sequence of fetches, `Fetch(i)` one `sqlite3_step`; other threads insert
between any two. `plan` is what SQLite's planner may choose: a sort, which reads the whole table
at the first step, or an index, whose cursor meets rows inserted ahead of it, and the order of
equal keys. Every list of the API is a `Listing` by its order and limit: filters and joins only
choose rows. `Lookup` is a request for one row. `rca` and `mca` are the two calculations, with
the bars they fetch, the windows they make and the alignment of two symbols by time; the rates
and correlations themselves are floating point and left out.

## 3. Runs

Each run takes less than three minutes with two workers. "Distinct" is the number of distinct states.

| Run | Specification and instance | Distinct | Shows |
|---|---|---|---|
| `orderbook` | `Spec`; 2 threads, 3 ids, 2 prices, quantities 1-2, Quantity modulo 4, symmetric threads and ids | 314,920 | the six invariants of the book, and that every step of the book is a step or a stutter of `PriceTimePriority` |
| `orderbook_spin` | `FairSpec`; 1 thread, 3 ids | – | counterexample to `EveryOrderIsAnswered` |
| `marketmaker` | `MakerFairSpec`; 2 threads, 2 ids, quantities 0-2, limit 1, clip 2, orders of every kind from outside | 303,398 | `PositionInBand` (both ends of the band are reached), `MutexIsReleasedUnlessStuck` |
| `quotebot` | `FeedFairSpec` of `FeedBot`; 5 frames of 8 shapes, 4 of them quotes | 350,281 | `AheadOnlyTheMaker`, `OneOperationEach`, `DeafOnlyAfterTrouble`, `HandedInOrder`, `ListensAgain` |
| `quotebot_lost` | `BotSpec` of `QuoteBot`; 3 quotes | – | counterexample to `ReportedOrdersAreTaken` |
| `computing` | `ServerSpec` of `ComputingServer`; 5 bots with 4 bars; 7 days; 15 kinds of indicator with 4 candles, 3 calls and smoothings 1 and 2; CCI with up to 5 values and 3 threads | 443,037 | the eleven properties below |
| `routing` | `RoutingFairSpec`; 4 policies, 4 orders of quantity 1 or 4, sizes modulo 8 | 85,075 | `NobodyBlocksInPop`, `QuantityConserved`, `PlacedByPolicy`, `WrapsToTheLonger`, `EveryOrderIsTried` |
| `orderstore` | `StoreSpec`; 2 HTTP threads (symmetric), 11 requests, 2 client ids, 2 strategies, 1 signal, inserts by others, failing statements, restarts | 1,575,421 | `AnswersMatchTables`, `OrdersAreAnsweredFor`, `OwnIdUnlessOvertaken`, `CreatedOnce` |
| `storereads` | `ReadsSpec`; 11 requests, 4 rows or 7 bars of two symbols, 4 times, failing statements | 2,910,660 | `ReadsMissNothing`, `RatesLookBackAWindow`, `CorrelationsHaveNoHoles` |
| `ioserver` | `ServerSpec`; 1 HTTP thread with 1 order, 3 messages, 3 deliveries, failing statements, restarts | 1,045,680 | the three properties of the subscriber below |
| `ioserver_rowid` | `ServerSpec`; nothing fails | – | counterexample to `AnsweredIdIsTheOrders` |
| `orderstore_cancel` | `StoreSpec`; 1 HTTP thread, nothing fails | – | counterexample to `CancellableOrdersAreCancelled` |

The type invariant of `OrderBook` is checked as well as proved; those of the other modules are
parts of the inductions of section 4.

**Properties of the book.** `IndexConsistent`: index and lists hold the same orders, each under
its own price and once, also between two trades of one call. `NotCrossedAtRest`: while nobody
matches, all bids are below all asks. `TradesWalkTheBook`, `TakerAccounted`: what an `AddOrder`
trades is its own order (`TakerInEveryTrade`), from the best price outwards and within its
limit, and what it does not trade it still wants. `ReportsMatchIndex`: what `GetOrderInfos` sums
from the lists is what the index holds. `MutexIsReleasedUnlessStuck`: besides the re-locking and
the two empty turns (over an empty ask level, or over a front order that wants nothing and has not
traded in this call, so one added with quantity 0) there is no way to keep the mutex for ever.

**Properties of the session and its bot.** `OneOperationEach`: never two reads or two writes on
the stream, and the flag `reading_` tells which. `DeafOnlyAfterTrouble`: an open session listens
or is in its handler, and ends only with an error that was printed or thrown. `HandedInOrder`:
the bot gets the first message of each array after the authentication, once and in order.
`AheadOnlyTheMaker`: only the strategy's orders can sit on ids the counter has not reached.
`ListensAgain`: the bot listens again after every frame, unless the empty level of the book
keeps its only thread.

**Properties of the computing server.** `EveryBarInOneCandle`: whatever fails, each bar taken is
in one candle and in order. `CrashesOnlyOnFreedMemory`: the program ends only by the two kept
pointers, never by EMA. `OffByMissedOrders`: belief and broker differ by no more than the orders
not executed. `AtMostOneOrderAfterStop` and `StopEndsRun` are what stop is worth.
`SilentAtRealPrices`: the volatility bot never orders, the reversal bot only at a close of 0.
`MoneyAccounted`: the back-tester never overspends and each trade loses less than one unit to
the conversions. `LabelsFit`: a chart that is shown has its ten labels and fewer than twenty,
and memory runs out only with one to nine days. `SignalsAreSound`: a fresh signal is what
`calculate` gives (for SMA, MA and EMA; for RSI at the period of the whole history; for the
stochastic oscillator the first of the last pair at a `smoothK` of 1), and every value is within the range of what it is an average or a percentage
of (ADX is not, which the property says). `GapsNeverCount`: the live ATR never sees a gap.
`CciRangesPartition`: no value is written twice or after the call, and all are written when
there are as many as threads.

**Properties of the routing service.** `NobodyBlocksInPop`: the counts taken before a batch are
never more than the queue holds. `QuantityConserved`: what comes in is in one place or another,
in full. `PlacedByPolicy`: under `RoundRobin` executor p has every third order from p on, in
order; under `Equalizer` the third executor has nothing and what is pushed past the end are the
last shares. `WrapsToTheLonger`:
below the gap, `Latency_Based` gives an order to the second provider only when that has the
longer queue. `EveryOrderIsTried`: under the two policies
that place every order, an executor gets to each, whatever became of those before.

**Properties of the reads.** `ReadsMissNothing`: a client that turns pages until one is not full
has every row that was there when it began (maybe some twice), and a 404 or an old bar is never
the answer while there was a better one. `RatesLookBackAWindow` and `CorrelationsHaveNoHoles`:
each value is over as many consecutive bars as the window says, though the bars arrive between
two statements and two rows. The first `window` bars have no rate, nor have those that the limit
cuts off or whose earlier close is 0. A correlation is over bars that both symbols have, without
a shared one left out.

**Properties of the IO-Server.** `AnswersMatchTables`: a 201 stands for one row that holds what
was asked for and hangs on the named strategy, every other answer for no row. The code takes an
order that names an unknown strategy and stores it without one (`api_router.cpp:981-1013`); the
property allows that only if there was no strategy of that name when the order came in (`seen`),
so that one created while the handler is at work may be missed and no other.
`OrdersAreAnsweredFor`: no order is left behind by a request that was answered with an error;
only a restart can leave one nobody was told of. `CreatedOnce`: of all requests with one client
id, also those sent again, one is answered with 201. `OwnIdUnlessOvertaken`: the returned key is
wrong only when another thread's insert came between. `MarksTellTheTruth` says what the
`processed` flag is worth in both directions (`MarkedTradesAreStored`,
`UnmarkedTradesMetTrouble`): a marked trade is in the trades table, and since its last mark each
delivery in trouble accounts for at most two unmarked rows, and nothing else for any but the one
in hand. `EveryMessageIsAudited` is the documented promise with its three exceptions (an insert
that fails, a restart before it, a message taken for a reply to SUBSCRIBE), as an equation: the
rows of the fallback are counted apart.
`StoredOncePerDelivery`: no fallback or restart stores again.

**Bounds.** Three ids are enough for a level with two orders and a taker that eats through both,
for two levels on a side, and for a taker that empties both best levels and a third order that
meets the level left behind. Two prices give crossing, equal and apart. Quantities 1 and 2 give
exact and partial fills on either side, and sums that wrap modulo 4; quantity 0 is in
`marketmaker`, where the book's liveness is checked. Two threads give every interleaving of a
critical section with another call's arrival; a third would only wait. In `marketmaker` the
limit is below one clip so that both ends of the band are crossed by stale reads. In `quotebot`,
`MaxFrames` and `MaxQuotes` cut the stream after five frames: one that authenticates and four
quotes, enough for the strategy's order to be met by the counter, a level to be emptied and the
next quote to spin over it. In `computing` the periods are 2 and 3 and the candle sizes 1 and 2,
so that four bars (`MaxBars`) fill windows, cross the averages both ways and come after
histories too short for any of them; `MaxDays` 7 with three labels gives fewer days than labels,
as many, and twice as many; four candles and three other calls (`MaxGiven`, `MaxCalls`) let a
signal follow a reset and a new period, and with `Smoothings` 1 and 2 the pairs of the
stochastic oscillator are at the length where it throws and at the next; `MaxLabels` stands for the memory; CCI has fewer values
than threads, a remainder, and none. In `routing` four orders (`MaxOrders`) are one turn of
`RoundRobin` and one more, quantities 1 and 4 an order that is not split and one with a
remainder, `FastLimit` 0 and `Gap` 1 make the comparison of `Latency_Based` reachable from both
sides, and `SizeRange` 8 makes it wrap. In `storereads` four rows (`MaxRows`) are two pages and
two insertions, and two windows of a calculation with one bar before them. The
correlations there have windows of two bars and seven rows (`MaxBarsOfTwo`), four of one symbol
and three of the other: the two shared bars of a window take four rows, a bar of one symbol alone
between them is a fifth, and a shared one between them a fifth and a sixth. In `orderstore` two
threads send every mix of two requests at once, again and again: `Receive` has no bound but
`MaxSignals`, as orders and strategies are bounded by their unique columns; one signal is
enough, since nothing reads the table. `OtherIds` holds one key that is no key of the store's
own rows. In `ioserver` `MaxDeliveries` is 3: one trade twice with another message between, or
three different ones.

**Fairness.** `WF(Matching(t))`: a thread that is inside the book keeps running, which is the
scheduler's ordinary promise. Nothing is assumed about a thread that waits, since `std::mutex`
promises it nothing; hence no property says a waiting call returns. `FeedFairSpec`: the thread
of the `io_context` keeps running while it is inside a handler; the server and the network owe
nothing, neither a frame nor a completion. `WF(BotThread)`: the bot's thread keeps running,
which includes that each request and each sleep ends; the code sets no timeout for curl, so this
is an assumption about the services. Nothing makes main call stop. `RoutingFairSpec`: the
scheduler's thread and the executors keep running and requests to the broker end; no message and
no order need come. No fairness is assumed in `IO-Server`: its properties are about safety.

**Deadlock** is checked in the runs of `OrderStore` and `IOServer`. It is not checked in the
others, where the system really stops: a thread that re-locked its mutex and those behind it, a
session that has ended, a program whose main has returned or that has crashed, a client that has
its answer, executors without orders.

**Findings.**
1. `orderbook_spin`: sell 1 and buy 1 at the same price leave an empty ask level; the next buy
   at that price never returns, and holds the mutex.
2. `quotebot_lost`: the strategy's order takes the id the counter hands out next; the bot's own
   order is then dropped as a duplicate while "Buy Added" is printed.
3. `ioserver_rowid`: the key returned for a new order may be that of a row another thread
   inserted, a raw message for instance.
4. `orderstore_cancel`: no order can be cancelled, and no strategy updated.

The first two together say what the bot does on a live stream: a quote whose two sides convert
to one price and have equal sizes leaves an empty level (the buy at the ask and the sell at the
bid trade out), and one of the next quotes stops the bot.

Every property of a passing run has a mutant in `PROJECT.json`: a plausible bug of the code
(written next to the definition it replaces, and called faulty in its comment) under which TLC
finds the property violated.

## 4. Proofs

The proofs hold for any set of threads (finite for `PositionStaysInBand`), any ids, prices,
quantities and width of `Quantity` within the named assumptions (`BookAssumption`,
`MakerAssumption`, `MakerOrdersAssumption`, `FramesAssumption`, `FeedAssumption`,
`BotAssumption`, `TesterAssumption`, `CallsAssumption`, `CciAssumption`, `ProgramsAssumption`,
`RoutingAssumption`, `ConnectionAssumption`, `StoreAssumption`, `IngestAssumption`,
`ReadsAssumption`); the bounds of the runs (`MaxSignals`, `MaxDeliveries`, `MaxBars`, `MaxDays`,
`MaxGiven`, `MaxOrders`, `MaxFrames`, `MaxRows`, `MaxBarsOfTwo`) are arbitrary numbers in them.
`ReadsAssumption` asks for windows, points and limits of at least 1: the handlers replace any
other by a default (`rca_handler.cpp:22-23`, `mca_handler.cpp:43-44`).

| Theorem | States |
|---|---|
| `TypeCorrect` | `Spec => []TypeOK` |
| `IndexStaysConsistent` | `Spec => []IndexConsistent` |
| `NeverCrossedAtRest` | `Spec => []NotCrossedAtRest` |
| `TakerTradesOnly` | `Spec => []TakerInEveryTrade` |
| `TradesGoOutwards` | `Spec => []TradesWalkTheBook` |
| `NothingLostInMatching` | `Spec => []TakerAccounted` |
| `ReportsAreTheIndex` | `Spec => []ReportsMatchIndex` |
| `BookKeepsPriceTimePriority` | `Spec => ImplementsPriceTimePriority` |
| `PositionStaysInBand` | `MakerSpec => []PositionInBand` |
| `MakerUsesOrderBook` | `MakerSpec => Spec` |
| `SessionOneOperation`, `SessionNotDeaf`, `ArraysReachTheBot` | `SessionSpec => []` of `OneOperationEach`, `DeafOnlyAfterTrouble`, `HandedInOrder` |
| `BotImplementsSession`, `BotSessionSafe` | `FeedSpec => SessionSpec`, and so all three of them under the bot |
| `AheadIsTheMakers` | `FeedSpec => []AheadOnlyTheMaker` |
| `BotTypeCorrect`, `EveryBarIsKept`, `EmaIsGuarded`, `PositionOffByMissed`, `OneOrderAfterStop`, `SilentStrategies` | `BotSpec => []` of `BotTypeOK`, `EveryBarInOneCandle`, `CrashesOnlyOnFreedMemory`, `OffByMissedOrders`, `AtMostOneOrderAfterStop`, `SilentAtRealPrices` |
| `MoneyIsAccounted`, `LabelsAreFitted` | `TesterSpec => []` of `MoneyAccounted`, `LabelsFit` |
| `SignalsAreTheSeries`, `GapsAreLeftOut` | `CallsSpec => []` of `SignalsAreSound`, `GapsNeverCount` |
| `CciTasksShareOut` | `CciSpec => []CciRangesPartition` |
| `PartsOfServer`, `ServerKeepsAll` | `ServerSpec` implies the specifications of its four parts, and so all the invariants above |
| `NoBlockedPop`, `TurnsInOrder`, `ThirdShareIsLost`, `PolicyPlaces` | `RoutingSpec => []` of `NobodyBlocksInPop`, `RoundRobinTurns`, `ThirdProviderIdle`, `PlacedByPolicy` |
| `QuantityIsConserved` | `RoutingSpec => []QuantityConserved` |
| `WrapPlacesWithTheLonger` | `RoutingSpec => WrapsToTheLonger` |
| `StoreTypeCorrect`, `AnswersAreTrue`, `NoOrderLeftBehind`, `IdIsOwnUnlessOvertaken` | `StoreSpec => []` of `StoreTypeOK`, `AnswersMatchTables`, `OrdersAreAnsweredFor`, `OwnIdUnlessOvertaken` |
| `ClientIdCreatedOnce` | `StoreSpec => CreatedOnce` |
| `IngestTypeCorrect`, `MarksAreTrue`, `EveryMessageAudited`, `NothingStoredTwice` | `ServerSpec => []` of `IngestTypeOK`, `MarksTellTheTruth`, `EveryMessageIsAudited`, `StoredOncePerDelivery` |
| `ServerUsesStore` | `OtherIds = Nat \ {0} => (ServerSpec => StoreSpec)` |
| `ServerUsesIngest` | `ServerSpec => IngestSpec` |
| `StoreIsSafeInServer` | under the same condition, the four properties of the store of `ServerSpec` |
| `NothingMissed`, `RatesAreOverWindows`, `CorrelationsAreWhole` | `ReadsSpec => []` of `ReadsMissNothing`, `RatesLookBackAWindow`, `CorrelationsHaveNoHoles` |

*Book, first induction.* `BookInv` is the types, `IndexConsistent`, and `CallOK`: the thread
that holds the mutex is the only one matching, and its call is an `AddOrder`. The types alone
are not inductive: a trade reads the index at the head of a list, which is only in its domain
because of `IndexConsistent`, and that in turn needs the holder to be alone.

*Book, second induction.* `CrossInv` adds that a non-empty map has a best price
(`BestPricesExist`, which needs no finiteness of `Prices`: levels are added one at a time), and
`OnlyTakerCrosses`: while a thread matches, any two orders that cross include the one it added.
An order that is filled on the taker's side therefore ends the crossing, and the pair at the
tops always contains the taker: `TakerInEveryTrade`. At `MatchDone` nothing crosses, which is
`NotCrossedAtRest`.

*Book, third induction.* `WalkInv` adds that while a thread matches, no level of the other side
is better than one it has traded at (`BehindBest`). A trade is made at the best level and adds
none, so the next one is no better: `TradesWalkTheBook`. The invariant speaks of levels and not
of orders, because an emptied level may stay in the map.

*Book, sums.* `DataLemmas` says what the folds of the community modules compute: `FoldExists`
gives the recursive definition over the subsets of a finite set a value, by an induction written
out over the natural numbers (`LeastOfSet`, `Induction`), as the library's induction theorems
take operators. On it rest `SumFold` (a fold of additions is `SumOf`), `SumAppend`,
`SumWithout`, `SumOfListed` (the sum over a list without repetitions is that over its set) and
`ModuloFold` (wrapping after each addition is wrapping once). `AccountInv` adds to `CrossInv`
that the quantity asked for is the sum of the trades and what the taker's order still wants;
only a turn of the matching loop changes either, and by the same amount. `ReportsMatchIndex`
needs no invariant of its own: by `IndexConsistent` a level lists the ids the index has at its
price, each once, so the two sums are over the same set.

*Refinement.* Under `BookInv` an `AddOrder` that takes the order is a `Place`, one turn of the
matching loop a `Trade`, a `CancelOrder` that finds its order a `Withdraw`, and every other step
leaves the abstract book as it is. The queue of a price is the level's list with each id
replaced by its order (`Queue`), so the lemmas say what `PushBack`, a new head and `Unlink` do
to that sequence; `IndexConsistent` is needed because a trade changes the orders of two ids and
must not change any other queue.

*Strategy.* `BandInv` says that the orders in flight (a thread at `buying` or `selling`) plus
the position stay within the band: a thread may start an order only at a position below the
limit, and each thread has at most one order of at most `Clip` in flight. The sum over threads
is bounded by `Clip * Cardinality(Threads)`.

`MakerUsesOrderBook` carries what is proved of the book over to its use by the strategy.

*Session.* `StreamInv` ties the operations outstanding to the phase of the chain and to
`handling`: before `open` there is no read and at most the write of the credentials; when open
either a read is out or the handler is running; a write outstanding after that is the
subscription, which needs `authenticated`. The bot only adds steps between the two halves of
`on_read`, so every step of `FeedSpec` is one of `SessionSpec` or a stutter.

*Messages.* `HandedInv` says that the buffer is empty between two frames and that the session is
authenticated exactly when a frame has said so. The arrays due are those that follow such a
frame; the k-th one handed over is the one with k - 1 of them before it, which a new frame can
only extend.

*Ids.* `AheadOnlyTheMaker` is about the book, and what enters the book is what the thread asked
for, so `CounterInv` adds `AskedFor`: a thread inside a call has asked for an order of the bot
with an id below `counter`, or for the buy or the sell of a strategy call that was given
`counter` as it stands. When the bot takes an id, `counter` moves by one, and what was allowed
two ids ahead is allowed one ahead (`AllowedAfterNext`). Matching and cancelling keep the side
and the price of every order that stays (`OrdersRemain`).

*Bots.* `CandleInv` is the types, the property, and that nothing was taken before the bot was
initialised. Its one hard step is a bar that fills the window: the part of `taken` behind the
last candle becomes a candle, and the parts before stay (`PartBeforeAppended`,
`PartWithAppended`). That `Aggregated` gives a candle at all needs that a finite sequence has a
greatest element (`HasGreatest`), by induction over its length. `NoOverrun` is the fact behind
`CrashInv`: SMA is asked first and its period is no shorter, so EMA is not reached with too few
closes. `PositionInv` adds that a buy is only posted without a position and a sale with one;
`LateInv` that after a late order the thread can only leave the loop.

*Back-tester.* `TesterInv` is `MoneyInv` and `LabelInv`. A purchase and a sale each lose less than
a unit to the conversion to int, so what is lost is bounded by the number of trades, and the
bookkeeping of purchases against sales bounds that. Labels stand at multiples of the step; ten
steps reach the last day because the step is the quotient rounded down, and fewer than twenty do
because a quotient of at least 1 loses less than half (`LabelsOfShown`).

*Indicators.* The series are recursive functions, which the provers know only as the choice of a
function that satisfies the equation. `RecursionFrom` (from `FoldExists`, in `DataLemmas`) shows
there is one, so the equation may be used, and `IntervalInduction` carries a bound along it. EMA
and its series satisfy the same equation from the same mean (`EmaIsEma`, `EmaValuesAreEma`), so
they are equal (`AverageUnique`); a mean with natural weights stays within what it is of
(`MeanOfTwo`), which bounds EMA, ATR and APO; `SumScaled` compares two sums term by term, which
bounds SMA, OBV and VWAP; the variance of the bands is not negative because the square of a sum
is at most the number of its terms times the sum of their squares (`SquareOfSum`). `SoundInv`
adds only that the last signal of ATR is a ratio of natural numbers, which the next one is
computed from: that is why its signals never go below 0, though it smooths a range that is not
the last. `AskedInv`, for `GapsNeverCount`: the close that ATR keeps is that of the candle it was
last asked at.

*CCI.* `CciInv` says of each task how far it is within its chunk, and of each value that it has
been written exactly if a task has passed it. That the chunks cover the values and do not meet
is arithmetic of quotients (`ChunkSize`, `Chunks`, `ChunksCover`).

*Server.* One program runs and the variables of the others stay as they began, so each step is a
step of the running part's specification and a stutter of the others: `PartsOfServer`, by which
what is proved of the parts holds of the server.

*Routing.* `BatchInv` says the counts are covered by the queues at every point of a batch: each
queue has one consumer, and others only append. `TurnInv` is an exact account: after `Passed`
orders the turn is `Passed % 3`, the order in hand is the next one fed, and executor p has
`(Passed + 2 - p) \div 3` of them, each at its place. `ShareInv` says of the parts in hand which
share is next, so the third is always the one whose index is past the end. `TotalInv` adds up
the parts of each order wherever they are; the shares of `Equalizer` sum to the order because
the last one takes the remainder. `SizesInv`: the sizes compared are natural numbers,
and a difference of two that is not negative does not wrap (`DifferenceWithoutWrap`).

*Store.* `StoreInv` adds to the properties what each handler knows (`WorkOK`): what it looked up
is a strategy of the requested name, the row it inserted holds its request, and while it has not
asked for the row id, an id it would get from its own insert is the right one. The tables only
grow (`TablesGrow`), so what a handler knows stays true while others insert (`RowStays`): this
is why no transaction is needed around the lookups. A strategy that was not found was not among
those of the time the order came in (`NoneAmong`), whatever is added after the lookup
(`NoneStays`). `CreatedOnce` needs that client ids are
unique, that two threads never have the same row in flight, and that an order in flight was not
told of.

*Subscriber.* `StageOK` says what the thread knows at each statement: before the mark the trade
is stored. `CountInv` counts rows against deliveries, with what the message in hand is still
due; `UnmarkedInv` counts the unmarked rows of a trade against its deliveries in trouble, and one
less in the fallback, whose row is still to come. `ServerUsesStore` shows that an
insert of the subscriber is an `OtherInsert` of the store; it needs `IngestTypeOK`, as the key
must be positive.

*Reads.* The order of a result is a total order of the rows whatever the request and the plan
(`BeforeIsAnOrder`), so in a set of n rows each number below n is how many come before one of
them (`RanksAreFilled`): a statement that finds no next row has no more. `PagesInv`: an insertion
can only move a row to a later place, so the rows up to the cursor are at least as many as were
skipped and fetched, and a row among the first `offset` ones has been fetched already. This is
what fails when limit and offset are swapped. `BarsInv`: the bars of a symbol arrive in the
order of time, so whatever has been fetched is all the symbol had up to some time
(`Beginning`), also when an index meets new bars. `RatesInv` makes this exact for one symbol:
the k-th bar fetched is the k-th row, and counting bars is subtracting positions.
`CorrelationsAreWhole` uses the beginnings of both symbols: the times they share are again all
up to some time, and a window is a part without gaps of their increasing list
(`IncreasingLists`).

**Only model-checked:** liveness, which is out of the prover's reach
(`MutexIsReleasedUnlessStuck`, `ListensAgain`, `StopEndsRun`, `EveryOrderIsTried`).
Every invariant and every action property that a passing run checks is proved.

## 5. Not modelled

- *Models, time series, learning, risk analysis*: floating-point estimation; a model over
  integers would say nothing about it.
- *Data providers* (`Providers/*.cpp`): one HTTP request each and the parsing of its reply. What
  a bot sees of them is an input of `TradingBot` and `BackTester`. The `DataBroker-Server` is a
  set of copies that does not compile (`std::stringu`, undeclared fields).
- *Logger, front end, broker order records*: output, static pages, and a record with getters.
- *Old Redis subscriber*: a separate program, not built; superseded by `RedisSubscriber`.
- *OrderBook-Bot of `Backtesting-Bot`*: it adds past quotes to a book, all of them as buy
  orders: a sequence of `AddOrder` of `OrderBook` in which nothing trades.
- *In the parts that are modelled*: the rounding of floating point (so the back-tester may be
  off by a unit where a quotient is near a whole number); the static function of the Bollinger bands, and `Indicator::backtest`, which has no
  caller (it records each signal twice, and throws at the first bar for a period above 1); the
  null pointer of `getenv` in the constructor of `DataFetcher`; the back-tester assumes closes
  above zero; the summary of performance rows (which covers only the page it is asked for) and
  the wording of answers; the sizes read from two moved-from vectors in the answer of
  `get_orderbook_snapshot` (`api_router.cpp:642-645`); the default window 20 of `mca`, which
  never applies because the parameters have 14 as their own; the bootstrap of the database,
  which runs before any thread starts.

## 6. What could come next

A bound on how far pages may lag behind insertions, as a liveness property of the reads.
