------------------------------ MODULE QuoteBot ------------------------------
(***************************************************************************)
(* TestBOT::processMessage of Velocity-Bot/test/OrderBook-Bot.cpp: the one *)
(* program of the repository that drives the order book.  For each quote   *)
(* of the WebSocket stream it adds a buy at the ask and a sell at the bid, *)
(* each with a fresh id from CounterId, and then runs the market-making    *)
(* strategy, which also takes its ids from CounterId but never advances    *)
(* it.  Messages are handled one at a time on the thread Feed.             *)
(***************************************************************************)
EXTENDS MarketMaker

CONSTANTS
    Feed,        \* the thread of the WebSocket
    Quotes,      \* quotes of the stream, prices in ticks
    MakerQuote,  \* the literal quote 230, 232, 2, 2 handed to the strategy
    MaxQuotes    \* quotes in a run: a bound, the stream has no end

ASSUME BotAssumption ==
    /\ Threads = {Feed}
    /\ MaxQuotes \in Nat
    /\ MakerQuotes = {MakerQuote}
    /\ Quotes \subseteq [bid: Nat, ask: Nat, bidQuantity: Nat, askQuantity: Nat]

VARIABLES
    counter,  \* CounterId
    stage,    \* what processMessage does next with the quote
    quote,    \* the quote being handled
    quotes    \* how many have been taken up

botVars == <<counter, stage, quote, quotes>>
systemVars == <<allVars, botVars>>

BotInit ==
    /\ MakerInit
    /\ counter = 0
    /\ stage = "done"
    /\ quote = None
    /\ quotes = 0

\* The thread is not inside a call of the book or of the strategy.
FeedFree == pc[Feed] = "idle" /\ maker[Feed] = None

OnQuote(q) ==
    /\ stage = "done"
    /\ FeedFree
    /\ quotes < MaxQuotes
    /\ quotes' = quotes + 1
    /\ quote' = q
    /\ stage' = "buy"
    /\ UNCHANGED <<allVars, counter>>

NewOrder(side, price, quantity) ==
    [op |-> "AddOrder", id |-> counter, type |-> "GoodTillCancel", side |-> side,
     price |-> ToPrice(price), quantity |-> quantity]

\* A faulty counter: the id is used and not advanced.
SameId == counter
NextId == counter + 1

HasSize(size) == size > 0

\* The order at the ask, a buy, unless nothing is offered there.
AddAtAsk ==
    /\ stage = "buy"
    /\ FeedFree
    /\ stage' = "sell"
    /\ IF HasSize(quote.askQuantity)
       THEN /\ Invoke(Feed, NewOrder("Buy", quote.ask, quote.askQuantity))
            /\ counter' = NextId
            /\ UNCHANGED makerVars
       ELSE UNCHANGED <<allVars, counter>>
    /\ UNCHANGED <<quote, quotes>>

\* The order at the bid, a sell.  It starts when the buy has been answered.
AddAtBid ==
    /\ stage = "sell"
    /\ FeedFree
    /\ stage' = "make"
    /\ IF HasSize(quote.bidQuantity)
       THEN /\ Invoke(Feed, NewOrder("Sell", quote.bid, quote.bidQuantity))
            /\ counter' = NextId
            /\ UNCHANGED makerVars
       ELSE UNCHANGED <<allVars, counter>>
    /\ UNCHANGED <<quote, quotes>>

\* The counter is passed by value: the strategy uses it, and nobody advances it.
RunStrategy ==
    /\ stage = "make"
    /\ FeedFree
    /\ stage' = "done"
    /\ MakerCall(Feed, counter, MakerQuote)
    /\ UNCHANGED <<counter, quote, quotes>>

Bot ==
    \/ \E q \in Quotes : OnQuote(q)
    \/ AddAtAsk
    \/ AddAtBid
    \/ RunStrategy

Inside ==
    /\ MakerStep(Feed) \/ BookStep(Feed)
    /\ UNCHANGED botVars

BotNext == Bot \/ Inside

BotSpec == BotInit /\ [][BotNext]_systemVars

BotFairSpec == BotSpec /\ WF_systemVars(BotNext)

-----------------------------------------------------------------------------
(* Properties. *)

(* An id that CounterId has not handed out yet is in the book only as an order   *)
(* of the strategy: a buy carries the next id, a sell the one after it, until    *)
(* the counter catches up.  So a quote loses at most two of the orders that      *)
(* follow, and only to orders of the strategy.                                   *)
AheadOnlyTheMaker ==
    \A i \in DOMAIN orders : i >= counter =>
        LET m == [id |-> i, quote |-> MakerQuote]
            o == orders[i]
        IN  /\ i <= counter + 1
            /\ i = counter + 1 => o.side = "Sell"
            /\ o.price = IF o.side = "Buy" THEN BuyOrder(m).price ELSE SellOrder(m).price

(* MatchOrders turns over an ask level that a trade emptied and left behind. *)
TurnsOverEmptyLevel ==
    /\ pc[Feed] = "matching"
    /\ \E bp \in DOMAIN bids, ap \in DOMAIN asks :
        IsBestBid(bp) /\ IsBestAsk(ap) /\ Crosses(bp, ap) /\ asks[ap] = <<>>

(* OrderBook-Bot.cpp:107 and :120 report "Buy Added" and "Sell Added" for every  *)
(* order of the bot: then the book did not drop it as a duplicate.               *)
ReportedOrdersAreTaken == [][AddDuplicate(Feed) => maker[Feed] # None]_systemVars
=============================================================================
