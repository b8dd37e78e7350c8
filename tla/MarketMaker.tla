---------------------------- MODULE MarketMaker ----------------------------
(***************************************************************************)
(* executeMarketMakingStrategy, the one client of the order book that is   *)
(* a member of the class itself: given a quote it adds one order inside    *)
(* the spread and keeps current_position_.  The mutex is not held across   *)
(* the call: it is taken for the guard, by AddOrder, and for the update of *)
(* the position; the two tests of the position between them are unlocked   *)
(* reads of a plain int.  Each of these is a step, so the reads may be     *)
(* stale by the time the position is updated.                              *)
(*                                                                         *)
(* A double price is a number of ticks; Tick of them make one Price.       *)
(***************************************************************************)
EXTENDS OrderBook

CONSTANTS
    MakerQuotes,      \* the quotes the strategy is called with
    MakerIds,         \* the values of CounterId it is called with
    UserCalls,        \* the calls made on the book directly
    Tick,             \* ticks in one unit of Price
    HalfThreshold,    \* spread_threshold_ / 2, in ticks
    PositionLimit,    \* position_limit_: 1000 in the code
    Clip              \* the largest order of the strategy: 100 in the code

ASSUME MakerAssumption ==
    /\ IsFiniteSet(Threads)
    /\ Tick \in Nat \ {0}
    /\ HalfThreshold \in Nat
    /\ PositionLimit \in Nat \ {0}
    /\ Clip \in Nat
    /\ MakerQuotes \subseteq [bid: Nat, ask: Nat, bidQuantity: Nat, askQuantity: Nat]
    /\ MakerIds \subseteq Int
    /\ UserCalls \subseteq Calls

VARIABLES
    position,   \* current_position_
    maker       \* the strategy call each thread is in, or None

makerVars == <<position, maker>>
allVars == <<vars, makerVars>>

MakerStages == {"guard", "read", "reread", "buying", "selling"}
MakerCalls == [at: MakerStages, id: MakerIds, quote: MakerQuotes]

MakerInit ==
    /\ Init
    /\ position = 0
    /\ maker = [t \in Threads |-> None]

\* static_cast<Price>: the fraction is dropped.
ToPrice(ticks) == ticks \div Tick

Clipped(q) == IF q <= Clip THEN q ELSE Clip

\* std::min against the wrong side of the quote is what the code does: it sizes
\* the buy by what is asked and the sell by what is bid.
BuyQuantity(quote) == Clipped(quote.askQuantity)
SellQuantity(quote) == Clipped(quote.bidQuantity)

BuyOrder(m) ==
    [op |-> "AddOrder", id |-> m.id, type |-> "GoodTillCancel", side |-> "Buy",
     price |-> ToPrice(m.quote.bid + HalfThreshold), quantity |-> BuyQuantity(m.quote)]
\* CounterId is incremented first, in the strategy's own copy of it.
SellOrder(m) ==
    [op |-> "AddOrder", id |-> m.id + 1, type |-> "GoodTillCancel", side |-> "Sell",
     price |-> ToPrice(m.quote.ask - HalfThreshold), quantity |-> SellQuantity(m.quote)]

ASSUME MakerOrdersAssumption ==
    \A i \in MakerIds, quote \in MakerQuotes :
        LET m == [at |-> "read", id |-> i, quote |-> quote]
        IN  BuyOrder(m) \in AddCalls /\ SellOrder(m) \in AddCalls

-----------------------------------------------------------------------------

MakerCall(t, i, quote) ==
    /\ pc[t] = "idle"
    /\ maker[t] = None
    /\ maker' = [maker EXCEPT ![t] = [at |-> "guard", id |-> i, quote |-> quote]]
    /\ UNCHANGED <<vars, position>>

MakerAt(t, stage) == maker[t] # None /\ maker[t].at = stage

MoveTo(t, stage) == maker' = [maker EXCEPT ![t].at = stage]
Hold(t) == maker' = [maker EXCEPT ![t] = None]

\* The locked guard, which asks for a position beyond both limits, and the test
\* of the spread.
BeyondBothLimits == position >= PositionLimit /\ position <= -PositionLimit
WideEnough(quote) == quote.ask - quote.bid > 2 * HalfThreshold

MakerGuard(t) ==
    /\ MakerAt(t, "guard")
    /\ holder = None
    /\ IF BeyondBothLimits \/ ~WideEnough(maker[t].quote) THEN Hold(t) ELSE MoveTo(t, "read")
    /\ UNCHANGED <<vars, position>>

\* A faulty test: a position at the limit may grow.
MayBuyAtLimit == position <= PositionLimit
MayBuy == position < PositionLimit
MaySell == position > -PositionLimit

MakerBuy(t) ==
    /\ MakerAt(t, "read")
    /\ MayBuy
    /\ Invoke(t, BuyOrder(maker[t]))
    /\ MoveTo(t, "buying")
    /\ UNCHANGED position

MakerDoesNotBuy(t) ==
    /\ MakerAt(t, "read")
    /\ ~MayBuy
    /\ MoveTo(t, "reread")
    /\ UNCHANGED <<vars, position>>

MakerSell(t) ==
    /\ MakerAt(t, "reread")
    /\ MaySell
    /\ Invoke(t, SellOrder(maker[t]))
    /\ MoveTo(t, "selling")
    /\ UNCHANGED position

MakerDoesNotSell(t) ==
    /\ MakerAt(t, "reread")
    /\ ~MaySell
    /\ Hold(t)
    /\ UNCHANGED <<vars, position>>

\* AddOrder has returned; whether it took the order is not looked at.
MakerBought(t) ==
    /\ MakerAt(t, "buying")
    /\ pc[t] = "idle" /\ holder = None
    /\ position' = position + BuyQuantity(maker[t].quote)
    /\ Hold(t)
    /\ UNCHANGED vars

MakerSold(t) ==
    /\ MakerAt(t, "selling")
    /\ pc[t] = "idle" /\ holder = None
    /\ position' = position - SellQuantity(maker[t].quote)
    /\ Hold(t)
    /\ UNCHANGED vars

MakerStep(t) ==
    \/ MakerGuard(t)
    \/ MakerBuy(t) \/ MakerDoesNotBuy(t)
    \/ MakerSell(t) \/ MakerDoesNotSell(t)
    \/ MakerBought(t) \/ MakerSold(t)

-----------------------------------------------------------------------------

BookStep(t) ==
    /\ EnterCriticalSection(t) \/ Match(t)
    /\ UNCHANGED makerVars

\* A thread may also use the book directly.
DirectCall(t, c) ==
    /\ maker[t] = None
    /\ Invoke(t, c)
    /\ UNCHANGED makerVars

MakerNext ==
    \E t \in Threads :
        \/ \E i \in MakerIds, quote \in MakerQuotes : MakerCall(t, i, quote)
        \/ \E c \in UserCalls : DirectCall(t, c)
        \/ MakerStep(t)
        \/ BookStep(t)

MakerSpec == MakerInit /\ [][MakerNext]_allVars

\* A thread that holds the mutex goes on.
Matching(t) == Match(t) /\ UNCHANGED makerVars
MakerFairSpec == MakerSpec /\ \A t \in Threads : WF_allVars(Matching(t))

-----------------------------------------------------------------------------
(* Properties. *)

(* Types of the strategy's own state: part of the induction for PositionInBand. *)
MakerTypeOK ==
    /\ position \in Int
    /\ maker \in [Threads -> MakerCalls \cup {None}]

(* How far the position may leave [0, PositionLimit] when every thread acts on  *)
(* a reading of it that the others have made stale: each has one order in       *)
(* flight.  With the code's limit of 1000 and clip of 100 the position is       *)
(* never short with up to ten threads.                                          *)
Slack == Clip * Cardinality(Threads)
LowestPosition == IF PositionLimit <= Slack THEN PositionLimit - Slack ELSE 0
HighestPosition == PositionLimit - 1 + Slack

PositionInBand == position >= LowestPosition /\ position <= HighestPosition
=============================================================================
