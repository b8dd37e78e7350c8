----------------------------- MODULE OrderBook -----------------------------
(***************************************************************************)
(* The limit order book of Computing-Server (class Orderbook): two maps    *)
(* from price to a FIFO list of orders, an index from order id to order,   *)
(* and one non-recursive mutex that every public operation takes.          *)
(*                                                                         *)
(* A call is two or more steps: the thread chooses its arguments (Invoke), *)
(* waits for the mutex, and does the critical section.  A critical section *)
(* is one step, except that the matching loop of AddOrder takes one step   *)
(* per iteration, so that a loop which never ends is a behaviour of the    *)
(* model.  An order pointer is represented by its id: AddOrder refuses an  *)
(* id that is in the index, so at most one live order carries it.          *)
(***************************************************************************)
EXTENDS Integers, FiniteSets, SequencesExt

CONSTANTS
    Threads,        \* threads that call the book
    OrderIds,       \* order ids callers use
    Prices,         \* limit prices callers use (Price, a 32-bit integer)
    Quantities,     \* quantities callers use (Quantity, unsigned)
    QuantityRange,  \* number of values of Quantity: 2^32 in the code
    None            \* no thread; no call

ASSUME BookAssumption ==
    /\ Prices \subseteq Int
    /\ QuantityRange \in Nat \ {0}
    /\ Quantities \subseteq 0 .. QuantityRange - 1
    /\ None \notin Threads

VARIABLES
    bids,     \* price -> list of ids, highest price first in the code
    asks,     \* price -> list of ids, lowest price first in the code
    orders,   \* the index orders_: id -> the order it points to
    holder,   \* the thread that owns orderbook_mutex, or None
    pc,       \* where each thread is
    call,     \* the call each thread is making, or None
    trades    \* the local Trades_ vector of the AddOrder each thread is in

book == <<bids, asks, orders>>
threadVars == <<holder, pc, call, trades>>
vars == <<bids, asks, orders, holder, pc, call, trades>>

OrderTypes == {"GoodTillCancel", "FillAndKill"}
Sides == {"Buy", "Sell"}

AddCalls == [op: {"AddOrder"}, id: OrderIds, type: OrderTypes, side: Sides,
             price: Prices, quantity: Quantities]
\* Of the order handed to ModifyOrder only the id is ever looked at.
Calls == AddCalls \cup [op: {"CancelOrder", "ModifyOrder"}, id: OrderIds]

\* An order in the book.  Only GoodTillCancel orders get there: see AddFillAndKill.
Orders == [type: {"GoodTillCancel"}, side: Sides, price: Prices,
           remaining: 0 .. QuantityRange - 1]

Init ==
    /\ bids = [p \in {} |-> <<>>]
    /\ asks = [p \in {} |-> <<>>]
    /\ orders = [i \in {} |-> <<>>]
    /\ holder = None
    /\ pc = [t \in Threads |-> "idle"]
    /\ call = [t \in Threads |-> None]
    /\ trades = [t \in Threads |-> <<>>]

-----------------------------------------------------------------------------
(* The maps of price levels. *)

\* A faulty push_front: the new order jumps the queue.
PushFront(levels, p, i) ==
    [r \in DOMAIN levels \cup {p} |->
        IF r # p THEN levels[r]
        ELSE <<i>> \o (IF p \in DOMAIN levels THEN levels[p] ELSE <<>>)]

\* bids_[price] (or asks_[price]) creates a missing level; push_back.
PushBack(levels, p, i) ==
    [r \in DOMAIN levels \cup {p} |->
        IF r # p THEN levels[r]
        ELSE Append(IF p \in DOMAIN levels THEN levels[p] ELSE <<>>, i)]

\* A faulty erase that does not ask whether the list is empty.
AlwaysErase(levels, p, list) == Restrict(levels, DOMAIN levels \ {p})

\* The level after its list became `list`: an empty one is erased.
SetOrErase(levels, p, list) ==
    IF list = <<>> THEN Restrict(levels, DOMAIN levels \ {p})
    ELSE [levels EXCEPT ![p] = list]

\* begin() of each map, and the test of the matching loop.
IsBestBid(p) == p \in DOMAIN bids /\ \A r \in DOMAIN bids : r <= p

\* A faulty comparator: both maps ordered by std::greater.
IsGreatestAsk(p) == p \in DOMAIN asks /\ \A r \in DOMAIN asks : r <= p
IsBestAsk(p) == p \in DOMAIN asks /\ \A r \in DOMAIN asks : p <= r

\* A faulty test that lets equal prices rest.
CrossesStrictly(bp, ap) == bp > ap
Crosses(bp, ap) == bp >= ap

\* A faulty index lookup: the duplicate is not noticed.
NeverKnown(i) == FALSE
Known(i) == i \in DOMAIN orders

\* Only a FillAndKill order is put through CanMatch.
NeverTested(c) == FALSE
NeedsCanMatch(c) == c.type = "FillAndKill"

-----------------------------------------------------------------------------
(* Calls, and the mutex. *)

Invoke(t, c) ==
    /\ pc[t] = "idle"
    /\ pc' = [pc EXCEPT ![t] = "waiting"]
    /\ call' = [call EXCEPT ![t] = c]
    /\ UNCHANGED <<book, holder, trades>>

\* Thread t gets the mutex for a call of operation op.
Enters(t, op) ==
    /\ pc[t] = "waiting"
    /\ call[t].op = op
    /\ holder = None

Return(t) ==
    /\ pc' = [pc EXCEPT ![t] = "idle"]
    /\ call' = [call EXCEPT ![t] = None]
    /\ trades' = [trades EXCEPT ![t] = <<>>]
    /\ holder' = None

\* Locking a std::mutex the thread already owns is undefined: with glibc the
\* thread waits for itself, with the MSVC library lock() throws and unwinding
\* releases the outer lock.
Relock(t) ==
    \/ /\ holder' = t
       /\ pc' = [pc EXCEPT ![t] = "hung"]
       /\ UNCHANGED <<call, trades>>
    \/ Return(t)

-----------------------------------------------------------------------------
(* AddOrder and MatchOrders. *)

\* An id that is in the index: the order is dropped and {} returned.
AddDuplicate(t) ==
    /\ Enters(t, "AddOrder")
    /\ Known(call[t].id)
    /\ Return(t)
    /\ UNCHANGED book

\* CanMatch locks the mutex AddOrder holds.
AddFillAndKill(t) ==
    /\ Enters(t, "AddOrder")
    /\ ~Known(call[t].id)
    /\ NeedsCanMatch(call[t])
    /\ Relock(t)
    /\ UNCHANGED book

\* The order is appended to its level and indexed; matching begins.
AddOrder(t) ==
    LET c == call[t]
        o == [type |-> c.type, side |-> c.side, price |-> c.price, remaining |-> c.quantity]
    IN  /\ Enters(t, "AddOrder")
        /\ ~Known(c.id)
        /\ ~NeedsCanMatch(c)
        /\ bids' = IF c.side = "Buy" THEN PushBack(bids, c.price, c.id) ELSE bids
        /\ asks' = IF c.side = "Sell" THEN PushBack(asks, c.price, c.id) ELSE asks
        /\ orders' = [i \in DOMAIN orders \cup {c.id} |-> IF i = c.id THEN o ELSE orders[i]]
        /\ holder' = t
        /\ pc' = [pc EXCEPT ![t] = "matching"]
        /\ UNCHANGED <<call, trades>>

\* Fill says nothing when it is asked for more than the order wants.
Fill(o, q) == IF q > o.remaining THEN o ELSE [o EXCEPT !.remaining = @ - q]

\* A faulty quantity: what the ask wants, whatever the bid wants.
AskQuantity(b, a) == orders[a].remaining
TradeQuantity(b, a) ==
    IF orders[b].remaining <= orders[a].remaining THEN orders[b].remaining ELSE orders[a].remaining

\* The index when both orders got the traded quantity, and when those of the two
\* that want no more have left it.
Filled(b, a) ==
    [orders EXCEPT ![b] = Fill(@, TradeQuantity(b, a)), ![a] = Fill(@, TradeQuantity(b, a))]
WithoutFilled(index, traded) ==
    Restrict(index, {i \in DOMAIN index : i \in traded => index[i].remaining # 0})

\* Both lists have a front order, and both of these want something.
CanTrade(bp, ap) ==
    /\ bids[bp] # <<>>
    /\ asks[ap] # <<>>
    /\ TradeQuantity(Head(bids[bp]), Head(asks[ap])) > 0

\* The front order of a list is popped when it is filled.
PopIfFilled(list, o) == IF o.remaining = 0 THEN Tail(list) ELSE list

\* The two `if (empty) erase; break;` the other way round.
EraseAskFirst(bp, ap, bidList, askList) ==
    /\ asks' = SetOrErase(asks, ap, askList)
    /\ bids' = IF askList = <<>> THEN [bids EXCEPT ![bp] = bidList]
               ELSE SetOrErase(bids, bp, bidList)

\* An emptied bid level is erased; an emptied ask level is erased only when the
\* bid level was not, because the bid's erase is followed by a break.
EraseEmptied(bp, ap, bidList, askList) ==
    /\ bids' = SetOrErase(bids, bp, bidList)
    /\ asks' = IF bidList = <<>> THEN [asks EXCEPT ![ap] = askList]
               ELSE SetOrErase(asks, ap, askList)

\* One turn of the inner loop: the two front orders trade, and filled ones leave
\* the index and their list.
MatchTrade(t) ==
    /\ pc[t] = "matching"
    /\ \E bp \in DOMAIN bids, ap \in DOMAIN asks :
        /\ IsBestBid(bp) /\ IsBestAsk(ap) /\ Crosses(bp, ap) /\ CanTrade(bp, ap)
        /\ LET b == Head(bids[bp])
               a == Head(asks[ap])
               filled == Filled(b, a)
           IN  /\ orders' = WithoutFilled(filled, {b, a})
               /\ EraseEmptied(bp, ap, PopIfFilled(bids[bp], filled[b]),
                                        PopIfFilled(asks[ap], filled[a]))
               /\ trades' = [trades EXCEPT ![t] = Append(@,
                     [bid |-> b, ask |-> a, quantity |-> TradeQuantity(b, a),
                      bidPrice |-> orders[b].price, askPrice |-> orders[a].price])]
    /\ UNCHANGED <<holder, pc, call>>

\* The tops cross and nothing can trade: the loops turn without effect, the
\* outer one on an empty level, the inner one on an order of quantity 0.
MatchSpin(t) ==
    /\ pc[t] = "matching"
    /\ \E bp \in DOMAIN bids, ap \in DOMAIN asks :
        IsBestBid(bp) /\ IsBestAsk(ap) /\ Crosses(bp, ap) /\ ~CanTrade(bp, ap)
    /\ UNCHANGED vars

TopsApart(t) ==
    \A bp \in DOMAIN bids, ap \in DOMAIN asks :
        IsBestBid(bp) /\ IsBestAsk(ap) => ~Crosses(bp, ap)

\* A side is empty or the tops do not cross.  cancel_fak then looks for a
\* FillAndKill order at the front of each side: there is none (TypeOK).
MatchDone(t) ==
    /\ pc[t] = "matching"
    /\ TopsApart(t)
    /\ Return(t)
    /\ UNCHANGED book

-----------------------------------------------------------------------------
(* CancelOrder and ModifyOrder. *)

CancelUnknown(t) ==
    /\ Enters(t, "CancelOrder")
    /\ ~Known(call[t].id)
    /\ Return(t)
    /\ UNCHANGED book

\* location_ is the order's own place in its list.
Unlink(levels, p, i) ==
    LET k == CHOOSE j \in DOMAIN levels[p] : levels[p][j] = i
    IN  SetOrErase(levels, p, RemoveAt(levels[p], k))

CancelOrder(t) ==
    LET i == call[t].id
        o == orders[i]
    IN  /\ Enters(t, "CancelOrder")
        /\ Known(i)
        /\ bids' = IF o.side = "Buy" THEN Unlink(bids, o.price, i) ELSE bids
        /\ asks' = IF o.side = "Sell" THEN Unlink(asks, o.price, i) ELSE asks
        /\ orders' = Restrict(orders, DOMAIN orders \ {i})
        /\ Return(t)

ModifyUnknown(t) ==
    /\ Enters(t, "ModifyOrder")
    /\ ~Known(call[t].id)
    /\ Return(t)
    /\ UNCHANGED book

\* CancelOrder locks the mutex ModifyOrder holds.
ModifyKnown(t) ==
    /\ Enters(t, "ModifyOrder")
    /\ Known(call[t].id)
    /\ Relock(t)
    /\ UNCHANGED book

-----------------------------------------------------------------------------
(* Size and GetOrderInfos change nothing: what they return in a state. *)

Size == Cardinality(DOMAIN orders)

\* std::accumulate in a Quantity wraps around.
LevelQuantity(list) ==
    FoldLeft(LAMBDA sum, i : (sum + orders[i].remaining) % QuantityRange, 0, list)

GetOrderInfos ==
    [Buy |-> [p \in DOMAIN bids |-> LevelQuantity(bids[p])],
     Sell |-> [p \in DOMAIN asks |-> LevelQuantity(asks[p])]]

-----------------------------------------------------------------------------

EnterCriticalSection(t) ==
    \/ AddDuplicate(t) \/ AddFillAndKill(t) \/ AddOrder(t)
    \/ CancelUnknown(t) \/ CancelOrder(t)
    \/ ModifyUnknown(t) \/ ModifyKnown(t)

Match(t) == MatchTrade(t) \/ MatchSpin(t) \/ MatchDone(t)

Next ==
    \E t \in Threads :
        \/ \E c \in Calls : Invoke(t, c)
        \/ EnterCriticalSection(t)
        \/ Match(t)

Spec == Init /\ [][Next]_vars

\* A thread that is inside the book keeps running.  Nothing is assumed of a thread
\* that waits: std::mutex does not promise that it ever gets in.
Fairness == \A t \in Threads : WF_vars(Match(t))

FairSpec == Spec /\ Fairness

-----------------------------------------------------------------------------
(* Properties. *)

PartialFunction(f, S, T) == DOMAIN f \subseteq S /\ f \in [DOMAIN f -> T]

TradeRecords == [bid: OrderIds, ask: OrderIds, quantity: 0 .. QuantityRange - 1,
                 bidPrice: Prices, askPrice: Prices]

(* Types.  A resting order is GoodTillCancel, so cancel_fak finds nothing. *)
TypeOK ==
    /\ PartialFunction(bids, Prices, Seq(OrderIds))
    /\ PartialFunction(asks, Prices, Seq(OrderIds))
    /\ PartialFunction(orders, OrderIds, Orders)
    /\ holder \in Threads \cup {None}
    /\ pc \in [Threads -> {"idle", "waiting", "matching", "hung"}]
    /\ call \in [Threads -> Calls \cup {None}]
    /\ trades \in [Threads -> Seq(TradeRecords)]

(* A map of levels files exactly the orders of side s in an index: each under *)
(* its own limit price, once.                                               *)
Files(levels, index, s) ==
    /\ \A p \in DOMAIN levels :
        /\ IsInjective(levels[p])
        /\ \A k \in DOMAIN levels[p] :
            /\ levels[p][k] \in DOMAIN index
            /\ index[levels[p][k]].side = s
            /\ index[levels[p][k]].price = p
    /\ \A i \in DOMAIN index : index[i].side = s =>
        /\ index[i].price \in DOMAIN levels
        /\ \E k \in DOMAIN levels[index[i].price] : levels[index[i].price][k] = i

(* The index and the lists agree in every state, in the middle of matching   *)
(* too: CancelOrder erases through the iterator the index stores, so an       *)
(* entry that outlived its list node would be a dangling iterator.            *)
IndexConsistent == Files(bids, orders, "Buy") /\ Files(asks, orders, "Sell")

NotCrossed ==
    \A bp \in DOMAIN bids, ap \in DOMAIN asks :
        bids[bp] # <<>> /\ asks[ap] # <<>> => bp < ap

(* Whenever no thread is inside MatchOrders every bid is below every ask:     *)
(* AddOrder returns only after all that could trade has traded.               *)
NotCrossedAtRest == (\A t \in Threads : pc[t] # "matching") => NotCrossed

\* Every trade AddOrder returns is a trade of the order it added: it never pairs two
\* orders that were resting before the call.
TakerInEveryTrade ==
    \A t \in Threads : \A k \in DOMAIN trades[t] :
        call[t].id = IF call[t].side = "Buy" THEN trades[t][k].bid ELSE trades[t][k].ask

(* Every trade AddOrder returns is a trade of the order it added, which takes  *)
(* the other side's prices from the best one outwards, none beyond its limit.  *)
TradesWalkTheBook ==
    /\ TakerInEveryTrade
    /\ \A t \in Threads : \A j, k \in DOMAIN trades[t] :
           LET first == trades[t][j]
               later == trades[t][k]
           IN  /\ later.bidPrice >= later.askPrice
               /\ j < k => IF call[t].side = "Buy" THEN first.askPrice <= later.askPrice
                           ELSE first.bidPrice >= later.bidPrice

(* Nothing is lost or overfilled: what the added order asked for is what it    *)
(* traded plus what it still wants in the book.                                *)
TakerAccounted ==
    \A t \in Threads : pc[t] = "matching" =>
        LET i == call[t].id
        IN  call[t].quantity =
                FoldLeft(LAMBDA sum, tr : sum + tr.quantity, 0, trades[t])
                + (IF i \in DOMAIN orders THEN orders[i].remaining ELSE 0)

(* What GetOrderInfos and Size report, from the lists, is what the index       *)
(* holds, modulo the width of Quantity.                                        *)
ReportsMatchIndex ==
    \A s \in Sides, p \in Prices :
        LET here == {i \in DOMAIN orders : orders[i].side = s /\ orders[i].price = p}
            want == MapThenSumSet(LAMBDA i : orders[i].remaining, here)
            infos == GetOrderInfos[s]
        IN  (IF p \in DOMAIN infos THEN infos[p] ELSE 0) = want % QuantityRange

(* The book implements price-time priority, whatever its threads do: a missing *)
(* level and an empty one are the same empty queue.                            *)
AtPrice(levels, p) == IF p \in DOMAIN levels THEN levels[p] ELSE <<>>
Queue ==
    [s \in Sides |-> [p \in Prices |-> AtPrice(IF s = "Buy" THEN bids ELSE asks, p)]]
Open == [i \in DOMAIN orders |-> orders[i].remaining]

PTP == INSTANCE PriceTimePriority WITH queue <- Queue, open <- Open
ImplementsPriceTimePriority == PTP!Spec

(* A thread that will never leave the book: it waits for a mutex it owns, or   *)
(* it turns in MatchOrders over an empty ask level or over a front order that   *)
(* wants nothing and never traded, so it was added with quantity 0.             *)
HasTraded(t, i) == \E k \in DOMAIN trades[t] : i \in {trades[t][k].bid, trades[t][k].ask}
AskedForNothing(t, i) == orders[i].remaining = 0 /\ ~HasTraded(t, i)
Stuck(t) ==
    \/ pc[t] = "hung"
    \/ /\ pc[t] = "matching"
       /\ \E bp \in DOMAIN bids, ap \in DOMAIN asks :
            /\ IsBestBid(bp) /\ IsBestAsk(ap) /\ Crosses(bp, ap)
            /\ bids[bp] # <<>>
            /\ \/ asks[ap] = <<>>
               \/ asks[ap] # <<>> /\ \E i \in {Head(bids[bp]), Head(asks[ap])} : AskedForNothing(t, i)

(* Those are the only ways a thread can keep the mutex for ever.  The other turns *)
(* of the loops without effect cannot happen: an empty bid level is never left    *)
(* behind, and no filled order stays at the front of a list.                      *)
MutexIsReleasedUnlessStuck ==
    \A t \in Threads : holder = t ~> (holder # t \/ Stuck(t))

(* README.md:9-10 promises an engine "capable of executing trades at           *)
(* lightning-fast speeds": a GoodTillCancel order handed to AddOrder, the only  *)
(* kind the bots send, gets an answer.                                         *)
EveryOrderIsAnswered ==
    \A t \in Threads : pc[t] = "matching" ~> pc[t] = "idle"
=============================================================================
