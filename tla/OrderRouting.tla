----------------------------- MODULE OrderRouting -----------------------------
(***************************************************************************)
(* Order-Manager-Server: the main thread hands orders to one queue for each *)
(* of three executors (Scheduler), and each executor's thread takes them    *)
(* from there and posts them to the broker (ExecutorManager).  The queues   *)
(* are TSQueue: every call is atomic, and pop waits for an element.         *)
(*                                                                         *)
(* main calls RoundRobin; the other three policies are there to be called   *)
(* in its place.  Each of them reads the scheduler's own orderQueue, which  *)
(* is private and which nothing in the repository writes: feeds is FALSE in *)
(* the program as it is, and TRUE in one with the missing producer.         *)
(***************************************************************************)
EXTENDS Integers, Sequences, SequencesExt

CONSTANTS
    Policies,     \* which methods main may call
    Quantities,   \* of the orders
    MaxOrders,    \* orders in a run: a bound, the producer has no end
    FastLimit,    \* 7: orders the fastest provider may have waiting
    Gap,          \* 10: by how much the queue of the third may be longer
    SizeRange     \* 2^64: the values of a size_t

AllPolicies == {"RoundRobin", "Equalizer", "Latency_Based", "Liquidity_Based"}
Providers == 0 .. 2

ASSUME RoutingAssumption ==
    /\ Policies \subseteq AllPolicies
    /\ Quantities \subseteq Nat
    /\ MaxOrders \in Nat /\ FastLimit \in Nat
    /\ Gap \in Nat \ {0}
    /\ SizeRange \in Nat /\ MaxOrders + Gap <= SizeRange

VARIABLES
    policy, feeds,  \* the method main calls, and whether there is a producer
    received,       \* messages taken from the socket
    fed,            \* history: every order put into orderQueue
    orderQueue,
    at,             \* where the main thread is
    left,           \* order_we_have
    hand,           \* the orders or shares still to be placed of the one popped
    current,        \* whose turn it is in RoundRobin
    sizes,          \* queue sizes read in Latency_Based
    queue,          \* the orderQueue of each executor
    doing,          \* where each executor is
    batch,          \* its n
    tried,          \* history: what each executor has popped
    gone            \* history: what was pushed nowhere

schedulerVars == <<orderQueue, at, left, hand, current, sizes, gone>>
executorVars == <<doing, batch, tried>>
routingVars == <<policy, feeds, received, fed, schedulerVars, queue, executorVars>>

Order(id, qty) == [id |-> id, qty |-> qty]

RoutingInit ==
    /\ policy \in Policies
    /\ feeds \in BOOLEAN
    /\ received = 0
    /\ fed = <<>> /\ orderQueue = <<>>
    /\ at = "receiving"
    /\ left = 0 /\ hand = <<>> /\ current = 0 /\ sizes = <<>>
    /\ queue = [p \in Providers |-> <<>>]
    /\ doing = [p \in Providers |-> "testing"]
    /\ batch = [p \in Providers |-> 0]
    /\ tried = [p \in Providers |-> <<>>]
    /\ gone = <<>>

\* External: the missing producer.
Feed(qty) ==
    LET order == Order(Len(fed) + 1, qty)
    IN  /\ feeds /\ at # "crashed"
        /\ Len(fed) < MaxOrders
        /\ fed' = Append(fed, order)
        /\ orderQueue' = Append(orderQueue, order)
        /\ UNCHANGED <<policy, feeds, received, at, left, hand, current, sizes, gone, queue,
                       executorVars>>

-----------------------------------------------------------------------------
(* The main thread. *)

\* The text of the message is the argument of the method, which does not use it.
Receive ==
    /\ at = "receiving"
    /\ received' = received + 1
    /\ at' = "testing"
    /\ UNCHANGED <<policy, feeds, fed, orderQueue, left, hand, current, sizes, gone, queue,
                   executorVars>>

\* Faulty: one turn too many of the loop that counts down.
OneMore(n) == n + 1
AsCounted(n) == n

\* empty() and size(): nobody else takes from the queue in between.
Count ==
    /\ at = "testing"
    /\ orderQueue # <<>>
    /\ left' = AsCounted(Len(orderQueue))
    /\ at' = "popping"
    /\ UNCHANGED <<policy, feeds, received, fed, orderQueue, hand, current, sizes, gone, queue,
                   executorVars>>

TotalProvider == 3

\* Faulty: the remainder of the division is left out.
LastShareRounded(o) == o.qty \div TotalProvider
LastShare(o) == (o.qty \div TotalProvider) + (o.qty % TotalProvider)

\* What is pushed for an order: the shares of Equalizer, or the order itself.
Parts(o) ==
    LET share == o.qty \div TotalProvider
    IN  IF policy = "Equalizer" /\ o.qty >= TotalProvider
        THEN <<Order(o.id, share), Order(o.id, share), Order(o.id, LastShare(o))>>
        ELSE <<o>>

Take ==
    /\ at = "popping"
    /\ orderQueue # <<>>
    /\ hand' = Parts(Head(orderQueue))
    /\ orderQueue' = Tail(orderQueue)
    /\ left' = left - 1
    /\ at' = "placing"
    /\ UNCHANGED <<policy, feeds, received, fed, current, sizes, gone, queue, executorVars>>

\* Faulty: the method returns when it has placed a batch.
AfterOrderReturns(n) == IF n > 0 THEN "popping" ELSE "receiving"
AfterOrder(n) == IF n > 0 THEN "popping" ELSE "testing"

\* After a push: the next share, the next order of the batch, or the test again.
Onwards ==
    /\ hand' = Tail(hand)
    /\ at' = IF Len(hand) > 1 THEN "placing" ELSE AfterOrder(left)
    /\ UNCHANGED <<policy, feeds, received, fed, orderQueue, left, executorVars>>

PushTo(p) == queue' = [queue EXCEPT ![p] = Append(@, Head(hand))]

\* Faulty: the same provider every time.
SameProvider == current
NextProvider == (current + 1) % TotalProvider

RoundRobin ==
    /\ at = "placing" /\ policy = "RoundRobin"
    /\ PushTo(current)
    /\ current' = NextProvider
    /\ Onwards
    /\ UNCHANGED <<sizes, gone>>

PastLastIndex == TotalProvider

\* The index of the next share: 0 and 1, then total_provider.
ShareIndex == IF Len(hand) > 1 THEN TotalProvider - Len(hand) ELSE PastLastIndex

EqualizerWhole ==
    /\ at = "placing" /\ policy = "Equalizer"
    /\ Head(hand).qty = fed[Head(hand).id].qty
    /\ PushTo(0)
    /\ Onwards
    /\ UNCHANGED <<current, sizes, gone>>

EqualizerShare ==
    /\ at = "placing" /\ policy = "Equalizer"
    /\ Head(hand).qty # fed[Head(hand).id].qty
    /\ ShareIndex \in Providers
    /\ PushTo(ShareIndex)
    /\ Onwards
    /\ UNCHANGED <<current, sizes, gone>>

\* Provider_pointer[3] of three: whatever lies there is taken for a queue, and
\* the push ends the program or goes somewhere nobody reads.
EqualizerPastEnd ==
    /\ at = "placing" /\ policy = "Equalizer"
    /\ Head(hand).qty # fed[Head(hand).id].qty
    /\ ShareIndex \notin Providers
    /\ gone' = Append(gone, Head(hand))
    /\ \/ Onwards
       \/ /\ at' = "crashed"
          /\ hand' = Tail(hand)
          /\ UNCHANGED <<policy, feeds, received, fed, orderQueue, left, executorVars>>
    /\ UNCHANGED <<current, sizes, queue>>

LatencyFast ==
    /\ at = "placing" /\ policy = "Latency_Based"
    /\ Len(queue[0]) <= FastLimit
    /\ PushTo(0)
    /\ Onwards
    /\ UNCHANGED <<current, sizes, gone>>

LatencySlow ==
    /\ at = "placing" /\ policy = "Latency_Based"
    /\ Len(queue[0]) > FastLimit
    /\ at' = "comparing"
    /\ UNCHANGED <<policy, feeds, received, fed, orderQueue, left, hand, current, sizes, gone,
                   queue, executorVars>>

\* The operands of the difference: two calls of size, in either order.
LatencyRead(p) ==
    /\ at = "comparing"
    /\ p \notin DOMAIN sizes
    /\ sizes' = [q \in DOMAIN sizes \cup {p} |-> IF q = p THEN Len(queue[p]) ELSE sizes[q]]
    /\ UNCHANGED <<policy, feeds, received, fed, orderQueue, at, left, hand, current, gone, queue,
                   executorVars>>

\* Two size_t: the difference wraps.
Difference(a, b) == (a - b) % SizeRange

\* Faulty: one too early.
OneEarlier(a, b) == Difference(a, b) + 1 >= Gap
LongerByGap(a, b) == Difference(a, b) >= Gap

LatencyPlace ==
    /\ at = "comparing"
    /\ DOMAIN sizes = {1, 2}
    /\ PushTo(IF LongerByGap(sizes[2], sizes[1]) THEN 1 ELSE 2)
    /\ sizes' = <<>>
    /\ Onwards
    /\ UNCHANGED <<current, gone>>

\* Popped and parsed, and that is all.
Liquidity ==
    /\ at = "placing" /\ policy = "Liquidity_Based"
    /\ gone' = Append(gone, Head(hand))
    /\ Onwards
    /\ UNCHANGED <<current, sizes, queue>>

Schedule ==
    \/ Count \/ Take
    \/ RoundRobin
    \/ EqualizerWhole \/ EqualizerShare \/ EqualizerPastEnd
    \/ LatencyFast \/ LatencySlow \/ LatencyPlace
    \/ \E p \in {1, 2} : LatencyRead(p)
    \/ Liquidity

-----------------------------------------------------------------------------
(* An executor's thread: processOrderQueue. *)

CountBatch(p) ==
    /\ doing[p] = "testing"
    /\ queue[p] # <<>>
    /\ batch' = [batch EXCEPT ![p] = AsCounted(Len(queue[p]))]
    /\ doing' = [doing EXCEPT ![p] = "popping"]
    /\ UNCHANGED <<policy, feeds, received, fed, schedulerVars, queue, tried>>

Pop(p) ==
    /\ doing[p] = "popping"
    /\ queue[p] # <<>>
    /\ queue' = [queue EXCEPT ![p] = Tail(@)]
    /\ tried' = [tried EXCEPT ![p] = Append(@, Head(queue[p]))]
    /\ batch' = [batch EXCEPT ![p] = @ - 1]
    /\ doing' = [doing EXCEPT ![p] = "posting"]
    /\ UNCHANGED <<policy, feeds, received, fed, schedulerVars>>

\* createOrder: executed, refused or failed, the executor goes on with the next.
Post(p) ==
    /\ doing[p] = "posting"
    /\ doing' = [doing EXCEPT ![p] = IF batch[p] > 0 THEN "popping" ELSE "testing"]
    /\ UNCHANGED <<policy, feeds, received, fed, schedulerVars, queue, batch, tried>>

Execute(p) ==
    /\ at # "crashed"
    /\ CountBatch(p) \/ Pop(p) \/ Post(p)

RoutingNext ==
    \/ \E qty \in Quantities : Feed(qty)
    \/ Receive
    \/ Schedule
    \/ \E p \in Providers : Execute(p)

RoutingSpec == RoutingInit /\ [][RoutingNext]_routingVars

\* The threads go on; requests to the broker end.  Messages and orders may not come.
RoutingFairSpec ==
    /\ RoutingSpec
    /\ WF_routingVars(Schedule)
    /\ \A p \in Providers : WF_routingVars(Execute(p))

-----------------------------------------------------------------------------
(* What is promised. *)

Placed(p) == tried[p] \o queue[p]

\* The total quantity of the parts of order id in a sequence.
Quantity(orders, id) ==
    FoldLeft(LAMBDA sum, o : sum + IF o.id = id THEN o.qty ELSE 0, 0, orders)

\* empty, size and pop are three calls, and a pop of an empty queue waits for ever:
\* nobody is about to pop more than there is, because each queue has one consumer.
NobodyBlocksInPop ==
    /\ at = "popping" => 0 < left /\ left <= Len(orderQueue)
    /\ \A p \in Providers : doing[p] = "popping" => 0 < batch[p] /\ batch[p] <= Len(queue[p])

\* Whole or in shares, an order's quantity is in one piece of the pipeline or another:
\* no push, division or pop makes or loses any.
QuantityConserved ==
    \A id \in DOMAIN fed :
        Quantity(orderQueue, id) + Quantity(hand, id) + Quantity(gone, id)
            + Quantity(Placed(0), id) + Quantity(Placed(1), id) + Quantity(Placed(2), id)
        = fed[id].qty

\* In RoundRobin the executors get every third order each, in the order they came,
\* however the batches fall: what has passed the scheduler determines who has it.
RoundRobinTurns ==
    policy = "RoundRobin" =>
        LET passed == Len(fed) - Len(orderQueue) - Len(hand)
        IN  \A p \in Providers :
                /\ Len(Placed(p)) = (passed + TotalProvider - 1 - p) \div TotalProvider
                /\ \A i \in DOMAIN Placed(p) : Placed(p)[i] = fed[TotalProvider * (i - 1) + p + 1]

\* Equalizer gives the third provider nothing, although it takes a share of every
\* order of three or more: that share is pushed past the last provider.
ThirdProviderIdle ==
    policy = "Equalizer" =>
        /\ Placed(2) = <<>>
        /\ \A i \in DOMAIN gone : gone[i] = Order(gone[i].id, LastShare(fed[gone[i].id]))

(* scheduler.cpp:27-38, 54-73: which executor has what is a matter of the policy and *)
(* of the order in which orders came, however the batches of the executors fall.     *)
PlacedByPolicy == RoundRobinTurns /\ ThirdProviderIdle

\* Latency_Based turns to the second provider when the queue of the third is longer by
\* Gap, and also whenever it is the shorter one: the difference of two sizes wraps.
WrapsToTheLonger ==
    [][(at = "comparing" /\ Len(queue'[1]) > Len(queue[1]) /\ sizes[2] < Gap)
           => sizes[1] > sizes[2]]_routingVars

\* What a producer puts into orderQueue reaches an executor under the two policies that
\* place every order, once a single message has been received.
EveryOrderIsTried ==
    \A id \in 1 .. MaxOrders :
        (received > 0 /\ id \in DOMAIN fed /\ policy \in {"RoundRobin", "Latency_Based"})
            ~> \E p \in Providers : \E i \in DOMAIN tried[p] : tried[p][i].id = id
=============================================================================
