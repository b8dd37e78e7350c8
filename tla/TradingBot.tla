------------------------------ MODULE TradingBot ------------------------------
(***************************************************************************)
(* The candle-based bots of Velocity-Bot: four strategies and the test bot *)
(* of test/bot.cpp, which share initialize, run, stop and processTrading   *)
(* and differ in the candle they build, in the indicators they compute and *)
(* in what they compare.  main creates the bot, initialises it, starts run *)
(* on a thread of its own and some time later calls stop and joins: the    *)
(* two threads share the flag isRunning.                                   *)
(*                                                                         *)
(* The data service, the broker and Redis are external.  Using a Redis     *)
(* context that connect has freed, or a curl handle whose request body has *)
(* been freed, is undefined: the program goes on or ends.                  *)
(***************************************************************************)
EXTENDS Indicators

CONSTANTS
    Strategies,   \* which bots main may create
    CandleSize,   \* bars in a candle: 1, 3, 2, 3 and 5 in the code
    Period,       \* of each indicator
    Deviations,   \* of the Bollinger bands: 2 in the code
    Bars,         \* what the data service may answer for the last minute, NoBar apart
    Histories,    \* and for the past
    MaxBars       \* bars in a run: a bound, the loop has no end

AllStrategies == {"TrendFollowing", "MeanReversion", "Reversal", "VolatilityBreakout", "TestBot"}

\* The bots with both averages give the SMA a period no shorter than the EMA's.
ASSUME BotAssumption ==
    /\ Strategies \subseteq AllStrategies
    /\ CandleSize \in [AllStrategies -> Nat \ {0}]
    /\ Period \in [{"SMA", "EMA", "ADX", "RSI", "Bands", "Stochastic"} -> Nat \ {0}]
    /\ Period["EMA"] <= Period["SMA"]
    /\ Deviations \in Nat
    /\ Bars \subseteq Candle /\ Histories \subseteq Seq(Candle)
    /\ MaxBars \in Nat

VARIABLES
    strategy,      \* the bot main created
    stage,         \* where the bot's thread is, or what it asked for
    running,       \* isRunning
    stopped,       \* stop has been called
    redis,         \* the publisher's context: "none", "open", "freed"
    body,          \* what POSTFIELDS of the curl handle points to: "none", "freed"
    history,       \* historicalData, of the bot and of each of its indicators
    window,        \* oneMinCandles
    positionOpen,  \* positionOpen
    shares,        \* what the broker holds for the bot
    missed,        \* history: orders the broker did not execute
    late,          \* history: orders posted while isRunning was false
    loaded, taken  \* history: how many candles were loaded, and the bars taken since

dataVars == <<history, window, loaded, taken>>
brokerVars == <<positionOpen, shares, missed, late, body>>
botVars == <<strategy, stage, running, stopped, redis, dataVars, brokerVars>>

BotInit ==
    /\ strategy \in Strategies
    /\ stage = "built"
    /\ running = FALSE /\ stopped = FALSE
    /\ redis = "none" /\ body = "none"
    /\ history = <<>> /\ window = <<>>
    /\ positionOpen = FALSE
    /\ shares = 0 /\ missed = 0 /\ late = 0
    /\ loaded = 0 /\ taken = <<>>

\* After a use of the publisher's context.
AfterPublish(s) == IF redis = "freed" THEN {s, "crashed"} ELSE {s}

\* A connection that fails is freed, and the pointer kept.
AfterConnect(connects) == IF connects THEN "open" ELSE "freed"

\* initialize, on the main thread: a request for the past that fails leaves the bot
\* without any.
Initialize(h, connects) ==
    /\ stage = "built"
    /\ redis' = AfterConnect(connects)
    /\ history' = h
    /\ loaded' = Len(h)
    /\ stage' \in IF connects THEN {"ready"} ELSE {"ready", "crashed"}
    /\ UNCHANGED <<strategy, running, stopped, window, taken, brokerVars>>

\* stop, on the main thread, once the other thread exists.
Stop ==
    /\ stage \notin {"built", "crashed", "joined"}
    /\ ~stopped
    /\ stopped' = TRUE
    /\ running' = FALSE
    /\ UNCHANGED <<strategy, stage, redis, dataVars, brokerVars>>

\* main joins and returns; the destructor frees the context.
Join ==
    /\ stage = "returned"
    /\ stopped
    /\ stage' \in AfterPublish("joined")
    /\ UNCHANGED <<strategy, running, stopped, redis, dataVars, brokerVars>>

-----------------------------------------------------------------------------
(* The classes *)

\* Each class has its own copy of initialize, run and processTrading.  They differ in
\* whether run asks for the market's hours, in the indicators that are given the
\* candles, and in the order in which executeTradingLogic asks these.
EmaFirst == <<"EMA", "SMA">>
SmaFirst == <<"SMA", "EMA">>
BOT_Trend_Following ==
    [clock |-> FALSE, fed |-> {"SMA", "EMA", "ADX"}, asks |-> Append(SmaFirst, "ADX")]
Mean_Reversion == [clock |-> TRUE, fed |-> {"RSI", "Bands"}, asks |-> <<"RSI", "Bands">>]
Reversal_Fibonacci_Retracement ==
    [clock |-> TRUE, fed |-> {"Stochastic"}, asks |-> <<"Stochastic">>]
Volatility_Breakout == [clock |-> TRUE, fed |-> {"ATR", "VWAP"}, asks |-> <<"ATR", "VWAP">>]
TestBOT == [clock |-> TRUE, fed |-> {"SMA", "EMA"}, asks |-> SmaFirst]

Class ==
    [TrendFollowing |-> BOT_Trend_Following, MeanReversion |-> Mean_Reversion,
     Reversal |-> Reversal_Fibonacci_Retracement, VolatilityBreakout |-> Volatility_Breakout,
     TestBot |-> TestBOT]
Asked == [s \in AllStrategies |-> Class[s].asks]

-----------------------------------------------------------------------------
(* run *)

RunBegins ==
    /\ stage = "ready"
    /\ running' = TRUE
    /\ stage' = "loop"
    /\ UNCHANGED <<strategy, stopped, redis, dataVars, brokerVars>>

\* The trend bot has its test commented out.
AsksClock == Class[strategy].clock

\* Faulty: the loop does not look at the flag.
GoesOnAnyway == TRUE
GoesOn == running

Iterate ==
    /\ stage = "loop"
    /\ GoesOn
    /\ stage' = IF AsksClock THEN "clock" ELSE "bar"
    /\ UNCHANGED <<strategy, running, stopped, redis, dataVars, brokerVars>>

Return ==
    /\ stage = "loop"
    /\ ~GoesOn
    /\ stage' = "returned"
    /\ UNCHANGED <<strategy, running, stopped, redis, dataVars, brokerVars>>

\* performRequest sends what POSTFIELDS points to with any request.
UsesBody == IF body = "freed" THEN {"crashed"} ELSE {}

\* getMarketInfo: open, or closed, which is also what a failed request and an
\* answer that is no JSON look like, or an exception, which the loop catches.
\* The handle still has the body of the last order, which is gone.
AskClock ==
    /\ stage = "clock"
    /\ stage' \in {"bar", "loop"} \cup UsesBody
    /\ UNCHANGED <<strategy, running, stopped, redis, dataVars, brokerVars>>

\* getLatestBars: nothing at all, or an answer that makes the parser throw.
MissBar ==
    /\ stage = "bar"
    /\ stage' = "loop"
    /\ UNCHANGED <<strategy, running, stopped, redis, dataVars, brokerVars>>

\* Faulty: the window is left to be cleared later.
Kept(w) == w
Cleared(w) == <<>>

\* The bar is published and put into the window, a full window becomes a candle.
TakeBar(b) ==
    LET w == Append(window, b)
        full == Len(w) = CandleSize[strategy]
    IN  /\ stage = "bar"
        /\ Len(taken) < MaxBars
        /\ taken' = Append(taken, b)
        /\ window' = IF full THEN Cleared(w) ELSE w
        /\ history' = IF full THEN Append(history, Aggregated(w)) ELSE history
        /\ stage' \in AfterPublish(IF full THEN "decide" ELSE "loop")
        /\ UNCHANGED <<strategy, running, stopped, redis, loaded, brokerVars>>

-----------------------------------------------------------------------------
(* executeTradingLogic *)

\* Too little data is an exception, except that EMA only asks for some and writes
\* its first value at the index period - 1.
TooLittle(i) ==
    \/ i \notin Class[strategy].fed
    \/ CASE i \in {"EMA", "VWAP"} -> history = <<>>
         [] i = "ATR" -> Len(history) < 2
         [] OTHER -> Len(history) < Period[i]
Overruns(i) == i = "EMA" /\ Len(history) < Period[i]

FirstTrouble(s) ==
    LET bad == {k \in DOMAIN Asked[s] : TooLittle(Asked[s][k]) \/ Overruns(Asked[s][k])}
    IN  IF bad = {} THEN "none"
        ELSE LET k == CHOOSE k \in bad : \A j \in bad : k <= j
             IN  IF TooLittle(Asked[s][k]) THEN "throws" ELSE "overruns"

Both(p, Q) == IF p THEN Q ELSE {FALSE}

\* The possible results of each strategy's test: whether to sell with an open
\* position, whether to buy without.
TrendTest ==
    IF positionOpen
    THEN Both(EmaBelowSma(history, Period["EMA"], Period["SMA"]), AdxBelow(history, 20))
    ELSE Both(EmaAboveSma(history, Period["EMA"], Period["SMA"]), AdxAbove(history, 25))

MeanReversionTest ==
    IF positionOpen
    THEN {/\ PriceAbove(history, Period["Bands"], Deviations, SecondBand)
          /\ RsiAbove(history, 70)}
    ELSE {/\ PriceBelow(history, Period["Bands"], Deviations, FirstBand)
          /\ RsiBelow(history, 30)}

\* The levels are fractions of the very price they are compared with.
AtItsOwnFraction == Last(history).close = 0
ReversalTest ==
    IF positionOpen
    THEN Both(AtItsOwnFraction, StochasticAbove(history, Period["Stochastic"], 80))
    ELSE Both(AtItsOwnFraction, StochasticBelow(history, Period["Stochastic"], 20))

\* Faulty: VWAP returns the last of its values.
VwapIsSingle == TRUE
VwapIsVector == FALSE

\* The volatility bot asks the vector of VWAP for its single value, which throws:
\* there is no result.
VolatilityTest == IF VwapIsVector THEN BOOLEAN ELSE {}

\* The test bot gives the name shortEMA to the SMA and longSMA to the EMA.
TestBotTest ==
    IF positionOpen
    THEN {EmaAboveSma(history, Period["EMA"], Period["SMA"])}
    ELSE {EmaBelowSma(history, Period["EMA"], Period["SMA"])}

Test ==
    CASE strategy = "TrendFollowing" -> TrendTest
      [] strategy = "MeanReversion" -> MeanReversionTest
      [] strategy = "Reversal" -> ReversalTest
      [] strategy = "VolatilityBreakout" -> VolatilityTest
      [] strategy = "TestBot" -> TestBotTest

Order == IF positionOpen THEN "sell" ELSE "buy"
Decisions == IF Test = {} THEN {"loop"} ELSE {IF q THEN Order ELSE "loop" : q \in Test}

\* An exception is caught by the loop.  A write past the values of EMA may end the
\* program or leave a value nothing is known of.
Outcomes ==
    LET trouble == FirstTrouble(strategy)
    IN  CASE trouble = "throws" -> {"loop"}
          [] trouble = "overruns" -> {"crashed", "loop", Order}
          [] OTHER -> Decisions

Decide ==
    /\ stage = "decide"
    /\ stage' \in Outcomes
    /\ UNCHANGED <<strategy, running, stopped, redis, dataVars, brokerVars>>

\* Faulty: a sale does not close the position.
NeverCloses == TRUE
Believed == stage = "buy"

\* createOrder: the request may fail, be refused, or be executed, its answer lost
\* or not, and the bot does not look.  The body of the request ends with the call.
Post(executed) ==
    /\ stage \in {"buy", "sell"}
    /\ shares' = shares + (IF ~executed THEN 0 ELSE IF stage = "buy" THEN 1 ELSE -1)
    /\ missed' = missed + (IF executed THEN 0 ELSE 1)
    /\ late' = late + (IF running THEN 0 ELSE 1)
    /\ positionOpen' = Believed
    /\ body' = "freed"
    /\ stage' = "loop"
    /\ UNCHANGED <<strategy, running, stopped, redis, dataVars>>

-----------------------------------------------------------------------------

BotThread ==
    \/ Iterate \/ Return \/ AskClock \/ MissBar
    \/ \E b \in Bars \cup {NoBar} : TakeBar(b)
    \/ Decide
    \/ \E executed \in BOOLEAN : Post(executed)

BotNext ==
    \/ \E h \in Histories, connects \in BOOLEAN : Initialize(h, connects)
    \/ RunBegins
    \/ BotThread
    \/ Stop
    \/ Join

BotSpec == BotInit /\ [][BotNext]_botVars

\* The thread in run goes on: every request to the services ends, and so does a
\* sleep.  Nothing makes main call stop.
BotFairSpec == BotSpec /\ WF_botVars(BotThread)

-----------------------------------------------------------------------------
(* Properties. *)

BotTypeOK ==
    /\ strategy \in Strategies
    /\ stage \in {"built", "ready", "loop", "clock", "bar", "decide", "buy", "sell",
                  "returned", "joined", "crashed"}
    /\ running \in BOOLEAN /\ stopped \in BOOLEAN /\ positionOpen \in BOOLEAN
    /\ redis \in {"none", "open", "freed"} /\ body \in {"none", "freed"}
    /\ history \in Seq(Candle) /\ window \in Seq(Candle) /\ taken \in Seq(Candle)
    /\ loaded \in Nat /\ missed \in Nat /\ late \in Nat
    /\ shares \in Int

(* However many answers fail, and whatever the exceptions of the indicators skip, *)
(* the candles after the loaded ones are those of the bars in the order in which   *)
(* they came, each bar in one candle, and the window holds the rest                *)
(* (Mean-Reversion-Strategy.cpp:156-170).                                          *)
Candles == Len(history) - loaded
EveryBarInOneCandle ==
    LET n == CandleSize[strategy]
    IN  /\ Candles >= 0
        /\ Len(window) < n
        /\ Len(taken) = n * Candles + Len(window)
        /\ window = SubSeq(taken, n * Candles + 1, Len(taken))
        /\ \A k \in 1 .. Candles :
              history[loaded + k] = Aggregated(SubSeq(taken, n * (k - 1) + 1, n * k))

(* The program ends only by using freed memory: EMA, which writes past its values  *)
(* when it has too few candles, is only asked after SMA, which has at least its     *)
(* period and throws (EMA.cpp:23; Trend-Following-Strategy.cpp:189-190).            *)
CrashesOnlyOnFreedMemory == stage = "crashed" => redis = "freed" \/ body = "freed"

(* The bot believes what it asked for.  What the broker holds for it is as far from *)
(* that as there were orders the broker did not execute, and no further             *)
(* (Mean-Reversion-Strategy.cpp:193-210; order_manager.cpp:33-49).                   *)
OffByMissedOrders == Magnitude(shares - (IF positionOpen THEN 1 ELSE 0)) <= missed

(* stop is looked at once in an iteration: at most one order is posted after it     *)
(* (Mean-Reversion-Strategy.cpp:105, 128-132).                                       *)
AtMostOneOrderAfterStop == late <= 1

(* An order is never placed at a price: the volatility bot never places one, and the *)
(* reversal bot only on a candle that closes at 0, which is what the bar of a failed *)
(* answer looks like (Reversal-Strategy-Fibonacci-Retracement.cpp:175-203;           *)
(* DataFetcher.cpp:91-111; VWAP.cpp:27).                                             *)
SilentAtRealPrices ==
    stage \in {"buy", "sell"} =>
        /\ strategy # "VolatilityBreakout"
        /\ strategy = "Reversal" => Last(history).close = 0

(* A stop that comes after run has begun ends the thread, whatever the services      *)
(* answer.  One that comes before is lost (Mean-Reversion-Strategy.cpp:104, 130).     *)
StopEndsRun ==
    (stopped /\ ~running /\ stage # "ready") ~> stage \in {"returned", "joined", "crashed"}
=============================================================================
