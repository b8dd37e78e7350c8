--------------------------- MODULE OrderRoutingProofs ---------------------------
(* The routing service, for any orders, any number of them and any limits:      *)
(* one message is received, no thread pops more than there is, and who gets      *)
(* what under RoundRobin and Equalizer.                                          *)
EXTENDS OrderRouting, DataLemmas

Orders == [id : Nat, qty : Nat]

\* hand is empty exactly between orders, and the main thread leaves "receiving" once.
RoutingTypeOK ==
    /\ policy \in AllPolicies
    /\ fed \in Seq(Orders) /\ orderQueue \in Seq(Orders)
    /\ hand \in Seq(Orders) /\ gone \in Seq(Orders)
    /\ at \in {"receiving", "testing", "popping", "placing", "comparing", "crashed"}
    /\ received \in {0, 1} /\ (received = 1 <=> at # "receiving")
    /\ at \in {"placing", "comparing"} => hand # <<>>
    /\ at \in {"receiving", "testing", "popping"} => hand = <<>>
    /\ left \in Nat
    /\ current \in Providers
    /\ queue \in [Providers -> Seq(Orders)] /\ tried \in [Providers -> Seq(Orders)]
    /\ batch \in [Providers -> Nat]
    /\ doing \in [Providers -> {"testing", "popping", "posting"}]

\* What is left of a batch is there to be popped: only this thread pops.
BatchInv ==
    /\ at = "popping" => 0 < left
    /\ at \in {"popping", "placing", "comparing"} => left <= Len(orderQueue)
    /\ \A p \in Providers :
        /\ doing[p] = "popping" => 0 < batch[p]
        /\ doing[p] \in {"popping", "posting"} => batch[p] <= Len(queue[p])

LEMMA PoppedSequence ==
    ASSUME NEW S, NEW s \in Seq(S), s # <<>>
    PROVE  /\ Head(s) \in S /\ Tail(s) \in Seq(S)
           /\ Len(s) \in Nat \ {0} /\ Len(Tail(s)) = Len(s) - 1
           /\ \A i \in 1 .. Len(s) - 1 : Tail(s)[i] = s[i + 1]
           /\ Head(s) = s[1]
OBVIOUS

LEMMA AppendedSequence ==
    ASSUME NEW S, NEW s \in Seq(S), NEW e \in S
    PROVE  /\ Append(s, e) \in Seq(S)
           /\ Len(s) \in Nat
           /\ Len(Append(s, e)) = Len(s) + 1
           /\ \A i \in 1 .. Len(s) : Append(s, e)[i] = s[i]
           /\ Append(s, e)[Len(s) + 1] = e
OBVIOUS

LEMMA PartsOfOrder ==
    ASSUME NEW o \in Orders
    PROVE  /\ Parts(o) \in Seq(Orders) /\ Len(Parts(o)) \in 1 .. TotalProvider
           /\ Parts(o) # <<>>
           /\ policy # "Equalizer" => Parts(o) = <<o>>
           /\ Parts(o)[Len(Parts(o))] \in {o, Order(o.id, LastShare(o))}
<1>1. /\ o.id \in Nat /\ o.qty \in Nat
      /\ o.qty \div TotalProvider \in Nat /\ o.qty % TotalProvider \in Nat
  BY DEF Orders, TotalProvider
<1>2. LastShare(o) \in Nat
  BY <1>1 DEF LastShare
<1>3. Order(o.id, o.qty \div TotalProvider) \in Orders /\ Order(o.id, LastShare(o)) \in Orders
  BY <1>1, <1>2 DEF Order, Orders
<1> DEFINE share == Order(o.id, o.qty \div TotalProvider)
           last == Order(o.id, LastShare(o))
<1> HIDE DEF share, last
<1>4. /\ <<share, share, last>> \in Seq(Orders) /\ Len(<<share, share, last>>) = 3
      /\ <<share, share, last>> # <<>> /\ <<share, share, last>>[3] = last
      /\ <<o>> \in Seq(Orders) /\ Len(<<o>>) = 1 /\ <<o>> # <<>> /\ <<o>>[1] = o
  BY <1>3 DEF share, last
<1>5. CASE policy = "Equalizer" /\ o.qty >= TotalProvider
  <2>1. Parts(o) = <<share, share, last>>
    BY <1>5 DEF Parts, share, last
  <2> QED BY <1>4, <1>5, <2>1 DEF last, TotalProvider
<1>6. CASE ~(policy = "Equalizer" /\ o.qty >= TotalProvider)
  <2>1. Parts(o) = <<o>>
    BY <1>6 DEF Parts
  <2> QED BY <1>4, <2>1 DEF TotalProvider
<1> QED BY <1>5, <1>6

LEMMA TypeInit == RoutingAssumption /\ RoutingInit => RoutingTypeOK /\ BatchInv
  BY DEF RoutingAssumption, RoutingInit, RoutingTypeOK, BatchInv, Providers

\* The main thread's pushes, in one form for the type and the batch.
LEMMA OnwardsStep ==
    ASSUME RoutingTypeOK, BatchInv, Onwards, at \in {"placing", "comparing"}
    PROVE  /\ hand' = Tail(hand) /\ hand' \in Seq(Orders) /\ Head(hand) \in Orders
           /\ at' \in {"placing", "popping", "testing"}
           /\ at' = "placing" => hand' # <<>>
           /\ at' # "placing" => hand' = <<>>
           /\ at' = "popping" => 0 < left
<1>1. hand \in Seq(Orders) /\ hand # <<>> /\ left \in Nat
  BY DEF RoutingTypeOK
<1>2. /\ Tail(hand) \in Seq(Orders) /\ Head(hand) \in Orders
      /\ Len(Tail(hand)) = Len(hand) - 1 /\ Len(hand) \in Nat \ {0}
  BY <1>1, PoppedSequence
<1>3. Tail(hand) = <<>> <=> Len(Tail(hand)) = 0
  BY <1>2, EmptySeq
<1> QED BY <1>1, <1>2, <1>3 DEF Onwards, AfterOrder

LEMMA PushStep ==
    ASSUME RoutingTypeOK, NEW p \in Providers, PushTo(p), Head(hand) \in Orders
    PROVE  /\ queue' \in [Providers -> Seq(Orders)]
           /\ \A q \in Providers : Len(queue[q]) \in Nat /\ Len(queue'[q]) \in Nat
           /\ \A q \in Providers : Len(queue[q]) <= Len(queue'[q])
<1>1. queue \in [Providers -> Seq(Orders)]
  BY DEF RoutingTypeOK
<1>2. /\ Append(queue[p], Head(hand)) \in Seq(Orders)
      /\ Len(queue[p]) \in Nat /\ Len(Append(queue[p], Head(hand))) = Len(queue[p]) + 1
  BY <1>1, AppendedSequence
<1>3. queue' = [queue EXCEPT ![p] = Append(queue[p], Head(hand))]
  BY DEF PushTo
<1>4. \A q \in Providers : Len(queue[q]) \in Nat
  BY <1>1
<1> QED BY <1>1, <1>2, <1>3, <1>4

\* The two parts of a step that differ from one push to another.
Rest == <<policy, received, fed, orderQueue, left, executorVars>>

LEMMA PlacedStep ==
    ASSUME RoutingTypeOK, BatchInv, UNCHANGED Rest,
           hand' \in Seq(Orders), gone' \in Seq(Orders), current' \in Providers,
           at # "receiving", at' \in {"placing", "popping", "testing", "crashed"},
           at \in {"placing", "comparing"},
           at' = "placing" => hand' # <<>>,
           at' \in {"popping", "testing"} => hand' = <<>>,
           at' = "popping" => 0 < left,
           queue' \in [Providers -> Seq(Orders)],
           \A q \in Providers : Len(queue[q]) \in Nat /\ Len(queue'[q]) \in Nat
                                /\ Len(queue[q]) <= Len(queue'[q])
    PROVE  RoutingTypeOK' /\ BatchInv'
<1>1. RoutingTypeOK'
  BY DEF RoutingTypeOK, Rest, executorVars
<1>2. \A p \in Providers : batch[p] \in Nat
  BY DEF RoutingTypeOK
<1>3. BatchInv'
  BY <1>2 DEF BatchInv, Rest, executorVars
<1> QED BY <1>1, <1>3

LEMMA ScheduleStep ==
    ASSUME RoutingTypeOK, BatchInv, Schedule
    PROVE  RoutingTypeOK' /\ BatchInv'
<1>1. CASE Count
  <2>1. /\ left' = Len(orderQueue) /\ orderQueue # <<>> /\ at = "testing" /\ at' = "popping"
        /\ UNCHANGED <<policy, received, fed, orderQueue, hand, current, gone, queue, executorVars>>
    BY <1>1 DEF Count, AsCounted
  <2>2. Len(orderQueue) \in Nat /\ Len(orderQueue) > 0
    BY <2>1, EmptySeq DEF RoutingTypeOK
  <2>3. RoutingTypeOK'
    BY <2>1, <2>2 DEF RoutingTypeOK, executorVars
  <2> QED BY <2>1, <2>2, <2>3 DEF BatchInv, executorVars
<1>2. CASE Take
  <2>1. /\ orderQueue # <<>> /\ at = "popping" /\ at' = "placing"
        /\ hand' = Parts(Head(orderQueue)) /\ orderQueue' = Tail(orderQueue) /\ left' = left - 1
        /\ UNCHANGED <<policy, received, fed, current, gone, queue, executorVars>>
    BY <1>2 DEF Take
  <2>2. /\ Head(orderQueue) \in Orders /\ Tail(orderQueue) \in Seq(Orders)
        /\ Len(orderQueue) \in Nat \ {0} /\ Len(Tail(orderQueue)) = Len(orderQueue) - 1
    BY <2>1, PoppedSequence DEF RoutingTypeOK
  <2>3. hand' \in Seq(Orders) /\ hand' # <<>>
    BY <2>1, <2>2, PartsOfOrder
  <2>4. left \in Nat /\ 0 < left /\ left <= Len(orderQueue)
    BY <2>1 DEF RoutingTypeOK, BatchInv
  <2>5. RoutingTypeOK'
    BY <2>1, <2>2, <2>3, <2>4 DEF RoutingTypeOK, executorVars
  <2> QED BY <2>1, <2>2, <2>4, <2>5 DEF BatchInv, executorVars
<1>3. ASSUME NEW p \in Providers, PushTo(p), Onwards, at \in {"placing", "comparing"},
             current' \in Providers, gone' = gone
      PROVE  RoutingTypeOK' /\ BatchInv'
  <2>1. UNCHANGED Rest /\ gone' \in Seq(Orders)
    BY <1>3 DEF Onwards, Rest, RoutingTypeOK
  <2>2. /\ hand' \in Seq(Orders) /\ Head(hand) \in Orders
        /\ at' \in {"placing", "popping", "testing"}
        /\ at' = "placing" => hand' # <<>>
        /\ at' # "placing" => hand' = <<>>
        /\ at' = "popping" => 0 < left
    BY <1>3, OnwardsStep
  <2>3. /\ queue' \in [Providers -> Seq(Orders)]
        /\ \A q \in Providers : Len(queue[q]) \in Nat /\ Len(queue'[q]) \in Nat
        /\ \A q \in Providers : Len(queue[q]) <= Len(queue'[q])
    BY <1>3, <2>2, PushStep
  <2> QED BY <1>3, <2>1, <2>2, <2>3, PlacedStep
<1>4. ASSUME Onwards, at \in {"placing", "comparing"}, gone' = Append(gone, Head(hand)),
             UNCHANGED <<current, queue>>
      PROVE  RoutingTypeOK' /\ BatchInv'
  <2>1. UNCHANGED Rest
    BY <1>4 DEF Onwards, Rest
  <2>2. /\ hand' \in Seq(Orders) /\ Head(hand) \in Orders
        /\ at' \in {"placing", "popping", "testing"}
        /\ at' = "placing" => hand' # <<>>
        /\ at' # "placing" => hand' = <<>>
        /\ at' = "popping" => 0 < left
    BY <1>4, OnwardsStep
  <2>3. gone' \in Seq(Orders)
    BY <1>4, <2>2, AppendedSequence DEF RoutingTypeOK
  <2>4. /\ queue' \in [Providers -> Seq(Orders)] /\ current' \in Providers
        /\ \A q \in Providers : Len(queue[q]) \in Nat /\ queue'[q] = queue[q]
    BY <1>4 DEF RoutingTypeOK
  <2> QED BY <1>4, <2>1, <2>2, <2>3, <2>4, PlacedStep
<1>5. current \in Providers /\ 0 \in Providers /\ 1 \in Providers /\ 2 \in Providers
  BY DEF RoutingTypeOK, Providers
<1>6. CASE RoundRobin
  <2>1. NextProvider \in Providers
    BY <1>5 DEF NextProvider, Providers, TotalProvider
  <2> QED BY <1>3, <1>5, <1>6, <2>1 DEF RoundRobin
<1>7. CASE EqualizerWhole
  BY <1>3, <1>5, <1>7 DEF EqualizerWhole
<1>8. CASE EqualizerShare
  BY <1>3, <1>5, <1>8 DEF EqualizerShare
<1>9. CASE EqualizerPastEnd
  <2>1. CASE Onwards
    BY <1>4, <1>9, <2>1 DEF EqualizerPastEnd
  <2>2. CASE at' = "crashed"
    <3>1. UNCHANGED Rest /\ at = "placing" /\ gone' = Append(gone, Head(hand)) /\ hand' = Tail(hand)
          /\ UNCHANGED <<current, queue>>
      BY <1>9, <2>2 DEF EqualizerPastEnd, Rest, Onwards, AfterOrder
    <3>2. Head(hand) \in Orders /\ Tail(hand) \in Seq(Orders)
      BY <3>1, PoppedSequence DEF RoutingTypeOK
    <3>3. gone' \in Seq(Orders)
      BY <3>1, <3>2, AppendedSequence DEF RoutingTypeOK
    <3>4. /\ queue' \in [Providers -> Seq(Orders)] /\ current' \in Providers
          /\ \A q \in Providers : Len(queue[q]) \in Nat /\ queue'[q] = queue[q]
      BY <3>1 DEF RoutingTypeOK
    <3> QED BY <2>2, <3>1, <3>2, <3>3, <3>4, PlacedStep
  <2> QED BY <1>9, <2>1, <2>2 DEF EqualizerPastEnd
<1>10. CASE LatencyFast
  BY <1>3, <1>5, <1>10 DEF LatencyFast
<1>11. CASE LatencyPlace
  <2>1. \E p \in {1, 2} : PushTo(p)
    BY <1>11 DEF LatencyPlace
  <2> QED BY <1>3, <1>5, <1>11, <2>1 DEF LatencyPlace
<1>12. CASE Liquidity
  BY <1>4, <1>12 DEF Liquidity
<1>13. CASE LatencySlow
  BY <1>13 DEF LatencySlow, RoutingTypeOK, BatchInv, executorVars
<1>14. ASSUME NEW p \in {1, 2}, LatencyRead(p) PROVE RoutingTypeOK' /\ BatchInv'
  BY <1>14 DEF LatencyRead, RoutingTypeOK, BatchInv, executorVars
<1> QED BY <1>1, <1>2, <1>6, <1>7, <1>8, <1>9, <1>10, <1>11, <1>12, <1>13, <1>14 DEF Schedule

LEMMA ExecuteStep ==
    ASSUME RoutingTypeOK, BatchInv, NEW p \in Providers, Execute(p)
    PROVE  RoutingTypeOK' /\ BatchInv'
<1>0. UNCHANGED <<policy, received, fed, schedulerVars>>
  BY DEF Execute, CountBatch, Pop, Post
<1>1. /\ queue[p] \in Seq(Orders) /\ tried[p] \in Seq(Orders) /\ batch[p] \in Nat
      /\ \A q \in Providers : Len(queue[q]) \in Nat
  BY DEF RoutingTypeOK
<1>2. CASE CountBatch(p)
  <2>1. /\ batch' = [batch EXCEPT ![p] = Len(queue[p])] /\ doing' = [doing EXCEPT ![p] = "popping"]
        /\ queue[p] # <<>> /\ UNCHANGED <<queue, tried>>
    BY <1>2 DEF CountBatch, AsCounted
  <2>2. Len(queue[p]) \in Nat \ {0}
    BY <1>1, <2>1, EmptySeq
  <2>3. RoutingTypeOK'
    BY <1>0, <2>1, <2>2 DEF RoutingTypeOK, schedulerVars
  <2> QED BY <1>0, <1>1, <2>1, <2>2, <2>3 DEF BatchInv, schedulerVars, RoutingTypeOK
<1>3. CASE Pop(p)
  <2>1. /\ queue[p] # <<>> /\ queue' = [queue EXCEPT ![p] = Tail(queue[p])] /\ doing[p] = "popping"
        /\ tried' = [tried EXCEPT ![p] = Append(tried[p], Head(queue[p]))]
        /\ batch' = [batch EXCEPT ![p] = batch[p] - 1]
        /\ doing' = [doing EXCEPT ![p] = "posting"]
    BY <1>3 DEF Pop
  <2>2. /\ Head(queue[p]) \in Orders /\ Tail(queue[p]) \in Seq(Orders)
        /\ Len(Tail(queue[p])) = Len(queue[p]) - 1
        /\ Append(tried[p], Head(queue[p])) \in Seq(Orders)
    BY <1>1, <2>1, PoppedSequence, AppendedSequence
  <2>3. 0 < batch[p] /\ batch[p] <= Len(queue[p])
    BY <2>1 DEF BatchInv
  <2>4. RoutingTypeOK'
    BY <1>0, <1>1, <2>1, <2>2, <2>3 DEF RoutingTypeOK, schedulerVars
  <2> QED BY <1>0, <1>1, <2>1, <2>2, <2>3, <2>4 DEF BatchInv, schedulerVars, RoutingTypeOK
<1>4. CASE Post(p)
  <2>1. /\ doing[p] = "posting" /\ UNCHANGED <<queue, batch, tried>>
        /\ doing' = [doing EXCEPT ![p] = IF batch[p] > 0 THEN "popping" ELSE "testing"]
    BY <1>4 DEF Post
  <2>2. RoutingTypeOK'
    BY <1>0, <1>1, <2>1 DEF RoutingTypeOK, schedulerVars
  <2> QED BY <1>0, <1>1, <2>1, <2>2 DEF BatchInv, schedulerVars, RoutingTypeOK
<1> QED BY <1>2, <1>3, <1>4 DEF Execute

LEMMA FeedStep ==
    ASSUME RoutingTypeOK, BatchInv, NEW qty \in Nat, Feed(qty)
    PROVE  /\ RoutingTypeOK' /\ BatchInv'
           /\ Order(Len(fed) + 1, qty) \in Orders
           /\ fed' = Append(fed, Order(Len(fed) + 1, qty))
           /\ orderQueue' = Append(orderQueue, Order(Len(fed) + 1, qty))
           /\ UNCHANGED <<policy, received, at, left, hand, current, sizes, gone, queue, executorVars>>
<1>1. Order(Len(fed) + 1, qty) \in Orders
  BY DEF Order, Orders, RoutingTypeOK
<1> DEFINE order == Order(Len(fed) + 1, qty)
<1>2. /\ fed' = Append(fed, order) /\ orderQueue' = Append(orderQueue, order)
      /\ UNCHANGED <<policy, received, at, left, hand, current, sizes, gone, queue, executorVars>>
  BY DEF Feed
<1> HIDE DEF order
<1>3. /\ fed' \in Seq(Orders) /\ orderQueue' \in Seq(Orders)
      /\ Len(orderQueue') = Len(orderQueue) + 1 /\ Len(orderQueue) \in Nat
  BY <1>1, <1>2, AppendedSequence DEF RoutingTypeOK, order
<1>4. RoutingTypeOK'
  BY <1>2, <1>3 DEF RoutingTypeOK, executorVars
<1>5. BatchInv'
  BY <1>2, <1>3 DEF BatchInv, executorVars, RoutingTypeOK
<1> QED BY <1>1, <1>2, <1>4, <1>5 DEF order

LEMMA BatchStep ==
    ASSUME RoutingAssumption, RoutingTypeOK, BatchInv, [RoutingNext]_routingVars
    PROVE  RoutingTypeOK' /\ BatchInv'
<1>1. ASSUME NEW qty \in Quantities, Feed(qty) PROVE RoutingTypeOK' /\ BatchInv'
  <2>1. qty \in Nat
    BY DEF RoutingAssumption
  <2> QED BY <1>1, <2>1, FeedStep
<1>2. CASE Receive
  <2>1. received' = 1 /\ at' = "testing"
    BY <1>2 DEF Receive, RoutingTypeOK
  <2> QED BY <1>2, <2>1 DEF Receive, RoutingTypeOK, BatchInv, executorVars
<1>3. CASE UNCHANGED routingVars
  BY <1>3 DEF routingVars, schedulerVars, executorVars, RoutingTypeOK, BatchInv
<1> QED BY <1>1, <1>2, <1>3, ScheduleStep, ExecuteStep DEF RoutingNext

(* The batch a thread has counted is there when it pops it                    *)
(* (scheduler.cpp:31-35, executor_manager.cpp:53-57).                         *)
THEOREM NoBlockedPop == RoutingSpec => []NobodyBlocksInPop
<1>1. BatchInv => NobodyBlocksInPop
  BY DEF BatchInv, NobodyBlocksInPop
<1> QED BY <1>1, TypeInit, BatchStep, RoutingAssumption, PTL DEF RoutingSpec

-----------------------------------------------------------------------------
(* Who has what. *)

\* A pop by an executor moves an order within what has been placed with it.
LEMMA PlacedSequences ==
    ASSUME RoutingTypeOK, NEW p \in Providers
    PROVE  /\ Placed(p) \in Seq(Orders) /\ Len(Placed(p)) \in Nat
           /\ queue[p] \in Seq(Orders) /\ tried[p] \in Seq(Orders)
BY ConcatProperties DEF RoutingTypeOK, Placed

LEMMA PlacedAfterPop ==
    ASSUME RoutingTypeOK, NEW p \in Providers, Execute(p), NEW q \in Providers
    PROVE  Placed(q)' = Placed(q)
<1>1. CASE CountBatch(p) \/ Post(p)
  BY <1>1 DEF CountBatch, Post, Placed
<1>2. CASE Pop(p)
  <2>1. /\ queue[p] # <<>> /\ queue' = [queue EXCEPT ![p] = Tail(queue[p])]
        /\ tried' = [tried EXCEPT ![p] = Append(tried[p], Head(queue[p]))]
        /\ queue \in [Providers -> Seq(Orders)] /\ tried \in [Providers -> Seq(Orders)]
    BY <1>2 DEF Pop, RoutingTypeOK
  <2>2. CASE q # p
    BY <2>1, <2>2 DEF Placed
  <2>3. CASE q = p
    <3> DEFINE s == queue[p]
               t == tried[p]
               u == <<Head(s)>>
               v == Tail(s)
    <3>1. s \in Seq(Orders) /\ t \in Seq(Orders) /\ s # <<>>
      BY <2>1
    <3>2. Head(s) \in Orders /\ v \in Seq(Orders) /\ Len(s) \in Nat \ {0}
          /\ Len(v) = Len(s) - 1 /\ (\A i \in 1 .. Len(s) - 1 : v[i] = s[i + 1]) /\ Head(s) = s[1]
      BY <3>1, PoppedSequence
    <3> DEFINE h == Head(s)
    <3> HIDE DEF s, t, v, h
    <3>3. <<h>> \in Seq(Orders) /\ Len(<<h>>) = 1 /\ <<h>>[1] = h
      BY <3>2 DEF h
    <3>4. <<h>> \o v = s
      <4>1. /\ <<h>> \o v \in Seq(Orders) /\ Len(<<h>> \o v) = 1 + Len(v)
            /\ \A i \in 1 .. 1 + Len(v) : (<<h>> \o v)[i] = IF i <= 1 THEN <<h>>[i] ELSE v[i - 1]
        BY <3>2, <3>3, ConcatProperties
      <4>2. Len(<<h>> \o v) = Len(s)
        BY <3>2, <4>1
      <4>3. ASSUME NEW i \in 1 .. Len(s) PROVE (<<h>> \o v)[i] = s[i]
        BY <3>2, <3>3, <4>1 DEF h
      <4> HIDE DEF h
      <4> QED BY <3>1, <4>1, <4>2, <4>3, SeqEqual
    <3>5. Append(t, h) = t \o <<h>>
      BY <3>1, <3>2, AppendIsConcat DEF h
    <3>6. (t \o <<h>>) \o v = t \o (<<h>> \o v)
      BY <3>1, <3>2, <3>3, ConcatAssociative
    <3>7. tried'[p] = Append(t, h) /\ queue'[p] = v
      BY <2>1 DEF s, t, v, h
    <3>8. Placed(p)' = Append(t, h) \o v /\ Placed(p) = t \o s
      BY <3>7 DEF Placed, s, t
    <3> QED BY <2>3, <3>4, <3>5, <3>6, <3>8
  <2> QED BY <2>2, <2>3
<1> QED BY <1>1, <1>2 DEF Execute

LEMMA PlacedAfterPush ==
    ASSUME RoutingTypeOK, NEW p \in Providers, PushTo(p), Head(hand) \in Orders, tried' = tried
    PROVE  /\ Placed(p)' = Append(Placed(p), Head(hand))
           /\ \A q \in Providers : q # p => Placed(q)' = Placed(q)
<1>1. /\ queue' = [queue EXCEPT ![p] = Append(queue[p], Head(hand))]
      /\ queue \in [Providers -> Seq(Orders)]
  BY DEF PushTo, RoutingTypeOK
<1>2. \A q \in Providers : q # p => Placed(q)' = Placed(q)
  BY <1>1 DEF Placed
<1> DEFINE h == Head(hand)
<1>3. /\ queue[p] \in Seq(Orders) /\ tried[p] \in Seq(Orders) /\ Placed(p) \in Seq(Orders)
      /\ <<h>> \in Seq(Orders) /\ h \in Orders
  BY PlacedSequences
<1> DEFINE t == tried[p]
           s == queue[p]
           u == <<h>>
<1> HIDE DEF h
<1>4. Append(queue[p], h) = queue[p] \o <<h>> /\ Append(Placed(p), h) = Placed(p) \o <<h>>
  BY <1>3, AppendIsConcat
<1>5. tried[p] \o (queue[p] \o <<h>>) = (tried[p] \o queue[p]) \o <<h>>
  <2>1. t \in Seq(Orders) /\ s \in Seq(Orders) /\ u \in Seq(Orders)
    BY <1>3
  <2> HIDE DEF t, s, u
  <2>2. (t \o s) \o u = t \o (s \o u)
    BY <2>1, ConcatAssociative
  <2> QED BY <2>2 DEF t, s, u
<1>6. queue'[p] = Append(queue[p], h)
  BY <1>1 DEF h
<1>7. Placed(p)' = tried[p] \o Append(queue[p], h)
  BY <1>6 DEF Placed
<1> QED BY <1>2, <1>4, <1>5, <1>7 DEF Placed, h

\* How many orders have been placed, and that they are where RoundRobinTurns says.
Passed == Len(fed) - Len(orderQueue) - Len(hand)

Turn(p) ==
    /\ Len(Placed(p)) = (Passed + TotalProvider - 1 - p) \div TotalProvider
    /\ \A i \in 1 .. Len(Placed(p)) : Placed(p)[i] = fed[TotalProvider * (i - 1) + p + 1]

TurnInv ==
    policy = "RoundRobin" =>
        /\ at # "comparing" /\ Len(hand) <= 1
        /\ Passed >= 0 /\ current = Passed % TotalProvider
        /\ hand # <<>> => hand[1] = fed[Passed + 1]
        /\ \A i \in 1 .. Len(orderQueue) : orderQueue[i] = fed[Passed + Len(hand) + i]
        /\ \A p \in Providers : Turn(p)

LEMMA TurnInit == RoutingInit => TurnInv
  BY DEF RoutingInit, TurnInv, Turn, Placed, Passed, Providers, TotalProvider

LEMMA Lengths ==
    ASSUME RoutingTypeOK
    PROVE  /\ Len(fed) \in Nat /\ Len(orderQueue) \in Nat /\ Len(hand) \in Nat
           /\ hand = <<>> <=> Len(hand) = 0
           /\ Passed \in Int
<1>1. Len(fed) \in Nat /\ Len(orderQueue) \in Nat /\ Len(hand) \in Nat
  BY DEF RoutingTypeOK
<1>2. hand = <<>> <=> Len(hand) = 0
  BY EmptySeq DEF RoutingTypeOK
<1> QED BY <1>1, <1>2 DEF Passed

LEMMA TurnFeed ==
    ASSUME RoutingTypeOK, BatchInv, TurnInv, policy = "RoundRobin", NEW qty \in Nat, Feed(qty)
    PROVE  TurnInv'
<1> DEFINE order == Order(Len(fed) + 1, qty)
<1>1. /\ order \in Orders /\ fed' = Append(fed, order) /\ orderQueue' = Append(orderQueue, order)
      /\ UNCHANGED <<policy, at, hand, current, queue, tried>>
  BY FeedStep DEF executorVars
<1> HIDE DEF order
<1>2. /\ fed \in Seq(Orders) /\ orderQueue \in Seq(Orders)
  BY DEF RoutingTypeOK
<1>3. /\ Len(fed') = Len(fed) + 1 /\ (\A i \in 1 .. Len(fed) : fed'[i] = fed[i])
      /\ fed'[Len(fed) + 1] = order
  BY <1>1, <1>2, AppendedSequence
<1>4. /\ Len(orderQueue') = Len(orderQueue) + 1
      /\ \A i \in 1 .. Len(orderQueue) : orderQueue'[i] = orderQueue[i]
      /\ orderQueue'[Len(orderQueue) + 1] = order
  BY <1>1, <1>2, AppendedSequence
<1>5. Passed' = Passed /\ Passed \in Int /\ Passed >= 0
  BY <1>1, <1>3, <1>4, Lengths DEF Passed, TurnInv
<1>6. Passed + Len(hand) + Len(orderQueue) = Len(fed) /\ Len(hand) <= 1
  BY Lengths DEF Passed, TurnInv
<1>7. hand' # <<>> => hand'[1] = fed'[Passed' + 1]
  BY <1>1, <1>3, <1>5, <1>6, Lengths DEF TurnInv
<1>8. ASSUME NEW i \in 1 .. Len(orderQueue') PROVE orderQueue'[i] = fed'[Passed' + Len(hand') + i]
  <2>1. CASE i \in 1 .. Len(orderQueue)
    <3>1. orderQueue[i] = fed[Passed + Len(hand) + i]
      BY <2>1 DEF TurnInv
    <3>2. /\ Passed + Len(hand) + i \in 1 .. Len(fed)
          /\ Passed' + Len(hand') + i = Passed + Len(hand) + i
      BY <1>1, <1>5, <1>6, <2>1, Lengths
    <3>3. fed'[Passed + Len(hand) + i] = fed[Passed + Len(hand) + i] /\ orderQueue'[i] = orderQueue[i]
      BY <1>3, <1>4, <2>1, <3>2
    <3> QED BY <3>1, <3>2, <3>3
  <2>2. CASE i = Len(orderQueue) + 1
    <3>1. Passed' + Len(hand') + i = Len(fed) + 1
      BY <1>1, <1>5, <1>6, <2>2, Lengths
    <3> QED BY <1>3, <1>4, <2>2, <3>1
  <2>3. Len(orderQueue) \in Nat /\ Len(orderQueue') = Len(orderQueue) + 1
    BY <1>4, Lengths
  <2>4. i \in 1 .. Len(orderQueue) \/ i = Len(orderQueue) + 1
    BY <2>3
  <2> QED BY <2>1, <2>2, <2>4
<1>9. ASSUME NEW p \in Providers PROVE Turn(p)'
  <2>1. Placed(p)' = Placed(p)
    BY <1>1 DEF Placed
  <2>2. p \in 0 .. 2 /\ Turn(p) /\ Len(Placed(p)) \in Nat
    BY PlacedSequences DEF Providers, TurnInv
  <2>3. ASSUME NEW i \in 1 .. Len(Placed(p))
        PROVE  TotalProvider * (i - 1) + p + 1 \in 1 .. Len(fed)
    BY <1>5, <1>6, <2>2, Lengths DEF Turn, TotalProvider
  <2> QED BY <1>3, <1>5, <2>1, <2>2, <2>3 DEF Turn
<1> QED BY <1>1, <1>5, <1>7, <1>8, <1>9 DEF TurnInv

LEMMA TurnTake ==
    ASSUME RoutingTypeOK, BatchInv, TurnInv, policy = "RoundRobin", Take
    PROVE  TurnInv'
<1>1. /\ orderQueue # <<>> /\ at = "popping" /\ at' = "placing" /\ orderQueue' = Tail(orderQueue)
      /\ hand' = Parts(Head(orderQueue))
      /\ UNCHANGED <<policy, fed, current, queue, tried>>
  BY DEF Take, executorVars
<1>2. /\ Head(orderQueue) \in Orders /\ Head(orderQueue) = orderQueue[1]
      /\ Len(orderQueue) \in Nat \ {0} /\ Len(orderQueue') = Len(orderQueue) - 1
      /\ \A i \in 1 .. Len(orderQueue) - 1 : orderQueue'[i] = orderQueue[i + 1]
  BY <1>1, PoppedSequence DEF RoutingTypeOK
<1>3. hand' = <<Head(orderQueue)>>
  BY <1>1, <1>2, PartsOfOrder
<1>4. Len(hand') = 1 /\ hand'[1] = orderQueue[1] /\ hand = <<>> /\ Len(hand) = 0
  BY <1>1, <1>2, <1>3, Lengths DEF RoutingTypeOK
<1>5. Passed' = Passed /\ Passed \in Int
  <2>1. Len(fed') = Len(fed) /\ Len(fed) \in Nat
    BY <1>1, Lengths
  <2> QED BY <1>2, <1>4, <2>1 DEF Passed
<1>6. \A i \in 1 .. Len(orderQueue) : orderQueue[i] = fed[Passed + i]
  BY <1>4, <1>5 DEF TurnInv
<1>7. \A i \in 1 .. Len(orderQueue') : orderQueue'[i] = fed'[Passed' + Len(hand') + i]
  <2>1. ASSUME NEW i \in 1 .. Len(orderQueue')
        PROVE  i + 1 \in 1 .. Len(orderQueue) /\ i \in 1 .. Len(orderQueue) - 1
               /\ Passed' + Len(hand') + i = Passed + (i + 1)
    BY <1>2, <1>4, <1>5
  <2> QED BY <1>1, <1>2, <1>6, <2>1
<1>8. hand'[1] = fed'[Passed' + 1]
  BY <1>1, <1>2, <1>4, <1>5, <1>6
<1>9. \A p \in Providers : Turn(p)'
  BY <1>1, <1>5 DEF TurnInv, Turn, Placed
<1>10. at' # "comparing" /\ Len(hand') <= 1 /\ Passed' >= 0 /\ current' = Passed' % TotalProvider
  <2>1. Passed >= 0 /\ current = Passed % TotalProvider
    BY DEF TurnInv
  <2>2. Passed' >= 0
    BY <1>5, <2>1
  <2>3. current' = Passed' % TotalProvider
    BY <1>1, <1>5, <2>1
  <2>4. Len(hand') <= 1
    BY <1>4
  <2> QED BY <1>1, <2>2, <2>3, <2>4
<1> QED BY <1>7, <1>8, <1>9, <1>10 DEF TurnInv

LEMMA TurnPlace ==
    ASSUME RoutingTypeOK, BatchInv, TurnInv, policy = "RoundRobin", RoundRobin
    PROVE  TurnInv'
<1>1. /\ at = "placing" /\ PushTo(current) /\ Onwards /\ current' = (current + 1) % TotalProvider
      /\ hand' = Tail(hand) /\ UNCHANGED <<policy, fed, orderQueue, tried>>
  BY DEF RoundRobin, Onwards, NextProvider, executorVars
<1>2. /\ hand \in Seq(Orders) /\ hand # <<>> /\ current \in Providers /\ Len(hand) = 1
  <2>1. hand \in Seq(Orders) /\ hand # <<>> /\ current \in Providers
    BY <1>1 DEF RoutingTypeOK
  <2>2. Len(hand) <= 1 /\ Len(hand) \in Nat /\ Len(hand) # 0
    BY <2>1, Lengths DEF TurnInv
  <2>3. PICK n \in Nat : n = Len(hand)
    BY <2>2
  <2>4. n = 1
    BY <2>2, <2>3
  <2> QED BY <2>1, <2>3, <2>4
<1>3. Head(hand) \in Orders /\ Head(hand) = hand[1] /\ Len(hand') = 0
  BY <1>1, <1>2, PoppedSequence
<1>4. /\ hand' = <<>> /\ at' # "comparing"
  BY <1>1, <1>2, <1>3, OnwardsStep, EmptySeq
<1>5. Passed' = Passed + 1 /\ Passed \in Nat /\ current = Passed % TotalProvider
  BY <1>1, <1>2, <1>3, Lengths DEF Passed, TurnInv
<1>6. current' = Passed' % TotalProvider
  BY <1>1, <1>5 DEF TotalProvider
<1>7. ASSUME NEW i \in 1 .. Len(orderQueue')
      PROVE  orderQueue'[i] = fed'[Passed' + Len(hand') + i]
  <2>1. Passed' + Len(hand') + i = Passed + Len(hand) + i
    BY <1>2, <1>3, <1>5
  <2> QED BY <1>1, <2>1 DEF TurnInv
<1>8. hand[1] = fed[Passed + 1]
  BY <1>2 DEF TurnInv
<1>9. ASSUME NEW p \in Providers PROVE Turn(p)'
  <2>1. p \in 0 .. 2 /\ Turn(p) /\ Len(Placed(p)) \in Nat /\ Placed(p) \in Seq(Orders)
    BY PlacedSequences DEF Providers, TurnInv
  <2>2. CASE p # current
    <3>1. Placed(p)' = Placed(p)
      BY <1>1, <1>2, <1>3, <2>2, PlacedAfterPush
    <3>2. (Passed + 1 + TotalProvider - 1 - p) \div TotalProvider
              = (Passed + TotalProvider - 1 - p) \div TotalProvider
      BY <1>5, <2>1, <2>2 DEF TotalProvider
    <3> QED BY <1>1, <1>5, <2>1, <3>1, <3>2 DEF Turn
  <2>3. CASE p = current
    <3> DEFINE n == Len(Placed(p))
    <3>1. Placed(p)' = Append(Placed(p), Head(hand))
      BY <1>1, <1>2, <1>3, <2>3, PlacedAfterPush
    <3>2. /\ Len(Placed(p)') = n + 1 /\ (\A i \in 1 .. n : Placed(p)'[i] = Placed(p)[i])
          /\ Placed(p)'[n + 1] = Head(hand)
      BY <1>3, <2>1, <3>1, AppendedSequence
    <3>3. /\ n + 1 = (Passed + 1 + TotalProvider - 1 - p) \div TotalProvider
          /\ TotalProvider * n + p + 1 = Passed + 1
      BY <1>5, <2>1, <2>3 DEF TotalProvider, Turn
    <3>4. ASSUME NEW i \in 1 .. n + 1
          PROVE  Placed(p)'[i] = fed[TotalProvider * (i - 1) + p + 1]
      <4>1. CASE i \in 1 .. n
        BY <2>1, <3>2, <4>1 DEF Turn
      <4>2. CASE i = n + 1
        BY <1>3, <1>8, <2>1, <3>2, <3>3, <4>2 DEF TotalProvider
      <4> QED BY <2>1, <4>1, <4>2
    <3> QED BY <1>1, <1>5, <3>2, <3>3, <3>4 DEF Turn
  <2> QED BY <2>2, <2>3
<1>10. Len(hand') <= 1 /\ Passed' >= 0
  BY <1>3, <1>5
<1> QED BY <1>4, <1>6, <1>7, <1>9, <1>10 DEF TurnInv

LEMMA TurnStep ==
    ASSUME RoutingAssumption, RoutingTypeOK, BatchInv, TurnInv, [RoutingNext]_routingVars
    PROVE  TurnInv'
<1>1. policy' = policy
  BY DEF RoutingNext, routingVars, Feed, Receive, Schedule, Count, Take, RoundRobin, Onwards,
         EqualizerWhole, EqualizerShare, EqualizerPastEnd, LatencyFast, LatencySlow, LatencyRead,
         LatencyPlace, Liquidity, Execute, CountBatch, Pop, Post
<1> SUFFICES ASSUME policy = "RoundRobin" PROVE TurnInv'
  BY <1>1 DEF TurnInv
<1>2. ASSUME NEW qty \in Quantities, Feed(qty) PROVE TurnInv'
  BY <1>2, TurnFeed DEF RoutingAssumption
<1>3. CASE Receive \/ Count \/ UNCHANGED routingVars
  <2>1. UNCHANGED <<policy, fed, orderQueue, hand, current, queue, tried>> /\ (at' = at \/ at' # "comparing")
    BY <1>3 DEF Receive, Count, routingVars, schedulerVars, executorVars
  <2> QED BY <2>1 DEF TurnInv, Turn, Placed, Passed
<1>4. CASE Take
  BY <1>4, TurnTake
<1>5. CASE RoundRobin
  BY <1>5, TurnPlace
<1>6. ~EqualizerWhole /\ ~EqualizerShare /\ ~EqualizerPastEnd /\ ~LatencyFast /\ ~LatencySlow
      /\ ~LatencyPlace /\ ~Liquidity /\ \A p \in {1, 2} : ~LatencyRead(p)
  BY DEF EqualizerWhole, EqualizerShare, EqualizerPastEnd, LatencyFast, LatencySlow, LatencyPlace,
         Liquidity, LatencyRead, TurnInv
<1>7. ASSUME NEW p \in Providers, Execute(p) PROVE TurnInv'
  <2>1. UNCHANGED <<policy, fed, orderQueue, hand, current, at>>
    BY <1>7 DEF Execute, CountBatch, Pop, Post, schedulerVars
  <2>2. \A q \in Providers : Placed(q)' = Placed(q)
    BY <1>7, PlacedAfterPop
  <2>3. Passed' = Passed
    BY <2>1 DEF Passed
  <2>4. \A q \in Providers : Turn(q)'
    BY <2>1, <2>2, <2>3 DEF Turn, TurnInv
  <2> QED BY <2>1, <2>3, <2>4 DEF TurnInv
<1> QED BY <1>2, <1>3, <1>4, <1>5, <1>6, <1>7 DEF RoutingNext, Schedule

(* Every executor has exactly its third of the orders, in their order         *)
(* (scheduler.cpp:29-38).                                                     *)
THEOREM TurnsInOrder == RoutingSpec => []RoundRobinTurns
<1>1. RoutingTypeOK /\ TurnInv => RoundRobinTurns
  <2> SUFFICES ASSUME RoutingTypeOK, TurnInv, policy = "RoundRobin", NEW p \in Providers
               PROVE  /\ Len(Placed(p)) = (Passed + TotalProvider - 1 - p) \div TotalProvider
                      /\ \A i \in DOMAIN Placed(p) : Placed(p)[i] = fed[TotalProvider * (i - 1) + p + 1]
    BY DEF RoundRobinTurns, Passed
  <2>1. DOMAIN Placed(p) = 1 .. Len(Placed(p))
    BY PlacedSequences
  <2> QED BY <2>1 DEF TurnInv, Turn
<1> QED BY <1>1, TypeInit, BatchStep, TurnInit, TurnStep, RoutingAssumption, PTL DEF RoutingSpec

-----------------------------------------------------------------------------
(* Equalizer. *)

Whole(o) == \E j \in 1 .. Len(fed) : o = fed[j]
IsLastShare(o) == \E j \in 1 .. Len(fed) : o = Order(j, LastShare(fed[j]))

\* The end of hand is a whole order or a last share; only last shares go past the end.
ShareInv ==
    policy = "Equalizer" =>
        /\ at # "comparing" /\ Len(hand) <= TotalProvider
        /\ \A j \in 1 .. Len(fed) : fed[j].id = j
        /\ \A i \in 1 .. Len(orderQueue) : Whole(orderQueue[i])
        /\ hand # <<>> => Whole(hand[Len(hand)]) \/ IsLastShare(hand[Len(hand)])
        /\ Placed(2) = <<>>
        /\ \A i \in 1 .. Len(gone) : IsLastShare(gone[i])

LEMMA ShareInit == RoutingInit => ShareInv
  BY DEF RoutingInit, ShareInv, Placed, Providers, TotalProvider

LEMMA ShareFeed ==
    ASSUME RoutingTypeOK, BatchInv, ShareInv, policy = "Equalizer", NEW qty \in Nat, Feed(qty)
    PROVE  ShareInv'
<1> DEFINE order == Order(Len(fed) + 1, qty)
<1>1. /\ order \in Orders /\ fed' = Append(fed, order) /\ orderQueue' = Append(orderQueue, order)
      /\ UNCHANGED <<policy, at, hand, queue, tried, gone>> /\ order.id = Len(fed) + 1
  BY FeedStep DEF executorVars, Order
<1> HIDE DEF order
<1>2. /\ fed \in Seq(Orders) /\ orderQueue \in Seq(Orders)
  BY DEF RoutingTypeOK
<1>3. /\ Len(fed') = Len(fed) + 1 /\ (\A i \in 1 .. Len(fed) : fed'[i] = fed[i])
      /\ fed'[Len(fed) + 1] = order /\ Len(fed) \in Nat
  BY <1>1, <1>2, AppendedSequence
<1>4. /\ Len(orderQueue') = Len(orderQueue) + 1 /\ Len(orderQueue) \in Nat
      /\ \A i \in 1 .. Len(orderQueue) : orderQueue'[i] = orderQueue[i]
      /\ orderQueue'[Len(orderQueue) + 1] = order
  BY <1>1, <1>2, AppendedSequence
<1>5. \A j \in 1 .. Len(fed) : j \in 1 .. Len(fed') /\ fed'[j] = fed[j]
  BY <1>3
<1>6. \A o : (Whole(o) => Whole(o)') /\ (IsLastShare(o) => IsLastShare(o)')
  BY <1>5 DEF Whole, IsLastShare, Order, LastShare
<1>7. \E j \in 1 .. Len(fed') : order = fed'[j]
  <2>1. Len(fed) + 1 \in 1 .. Len(fed')
    BY <1>3
  <2> QED BY <1>3, <2>1
<1>8. \A i \in 1 .. Len(orderQueue') : i \in 1 .. Len(orderQueue) \/ i = Len(orderQueue) + 1
  BY <1>4
<1>9. \A j \in 1 .. Len(fed') : j \in 1 .. Len(fed) \/ j = Len(fed) + 1
  BY <1>3
<1>10. \A j \in 1 .. Len(fed') : fed'[j].id = j
  BY <1>1, <1>3, <1>9 DEF ShareInv
<1>11. ASSUME NEW i \in 1 .. Len(orderQueue') PROVE Whole(orderQueue[i])'
  <2>1. CASE i \in 1 .. Len(orderQueue)
    <3>1. orderQueue'[i] = orderQueue[i] /\ Whole(orderQueue[i])
      BY <1>4, <2>1 DEF ShareInv
    <3> QED BY <1>6, <3>1 DEF Whole
  <2>2. CASE i = Len(orderQueue) + 1
    <3>1. orderQueue'[i] = order
      BY <1>4, <2>2
    <3> QED BY <1>7, <3>1 DEF Whole
  <2> QED BY <1>8, <2>1, <2>2
<1>12. hand' # <<>> => Whole(hand[Len(hand)])' \/ IsLastShare(hand[Len(hand)])'
  BY <1>1, <1>6 DEF ShareInv, Whole, IsLastShare
<1>13. \A i \in 1 .. Len(gone') : IsLastShare(gone[i])'
  BY <1>1, <1>6 DEF ShareInv, IsLastShare
<1> QED BY <1>1, <1>10, <1>11, <1>12, <1>13 DEF ShareInv, Placed

LEMMA ShareTake ==
    ASSUME RoutingTypeOK, BatchInv, ShareInv, policy = "Equalizer", Take
    PROVE  ShareInv'
<1>1. /\ orderQueue # <<>> /\ at' = "placing" /\ orderQueue' = Tail(orderQueue)
      /\ hand' = Parts(Head(orderQueue))
      /\ UNCHANGED <<policy, fed, gone, queue, tried>>
  BY DEF Take, executorVars
<1>2. /\ Head(orderQueue) \in Orders /\ Head(orderQueue) = orderQueue[1]
      /\ Len(orderQueue) \in Nat \ {0} /\ Len(orderQueue') = Len(orderQueue) - 1
      /\ \A i \in 1 .. Len(orderQueue) - 1 : orderQueue'[i] = orderQueue[i + 1]
  BY <1>1, PoppedSequence DEF RoutingTypeOK
<1>3. PICK j \in 1 .. Len(fed) : Head(orderQueue) = fed[j] /\ fed[j].id = j
  BY <1>2 DEF ShareInv, Whole
<1>4. /\ hand'[Len(hand')] \in {fed[j], Order(j, LastShare(fed[j]))}
      /\ Len(hand') <= TotalProvider
  <2>1. fed[j] \in Orders /\ hand' = Parts(fed[j])
    BY <1>1, <1>2, <1>3
  <2>2. /\ Parts(fed[j])[Len(Parts(fed[j]))] \in {fed[j], Order(fed[j].id, LastShare(fed[j]))}
        /\ Len(Parts(fed[j])) \in 1 .. TotalProvider
    BY <2>1, PartsOfOrder
  <2> QED BY <1>3, <2>1, <2>2 DEF TotalProvider
<1>5. Whole(hand[Len(hand)])' \/ IsLastShare(hand[Len(hand)])'
  BY <1>1, <1>4 DEF Whole, IsLastShare
<1>6. \A i \in 1 .. Len(orderQueue') : Whole(orderQueue[i])'
  <2>1. ASSUME NEW i \in 1 .. Len(orderQueue')
        PROVE  i \in 1 .. Len(orderQueue) - 1 /\ i + 1 \in 1 .. Len(orderQueue)
    BY <1>2
  <2> QED BY <1>1, <1>2, <2>1 DEF ShareInv, Whole
<1>7. Placed(2)' = Placed(2)
  BY <1>1 DEF Placed
<1> QED BY <1>1, <1>4, <1>5, <1>6, <1>7 DEF ShareInv, Whole, IsLastShare

\* After a push hand ends as before, if anything is left of it.
LEMMA ShareOnwards ==
    ASSUME RoutingTypeOK, ShareInv, policy = "Equalizer", at = "placing",
           hand' = Tail(hand), at' # "comparing", UNCHANGED <<policy, fed, orderQueue>>,
           Placed(2)' = <<>>, \A i \in 1 .. Len(gone') : IsLastShare(gone'[i])
    PROVE  ShareInv'
<1>1. /\ hand \in Seq(Orders) /\ hand # <<>>
  BY DEF RoutingTypeOK
<1>2. /\ Len(hand) \in Nat \ {0} /\ Len(hand') = Len(hand) - 1 /\ hand' \in Seq(Orders)
      /\ \A i \in 1 .. Len(hand) - 1 : hand'[i] = hand[i + 1]
  BY <1>1, PoppedSequence
<1>3. Len(hand') <= TotalProvider
  BY <1>2 DEF ShareInv, TotalProvider
<1>4. ASSUME hand' # <<>> PROVE Whole(hand[Len(hand)])' \/ IsLastShare(hand[Len(hand)])'
  <2>1. Len(hand') \in Nat \ {0}
    BY <1>2, <1>4, EmptySeq
  <2>2. Len(hand) - 1 \in 1 .. Len(hand) - 1 /\ Len(hand) - 1 + 1 = Len(hand)
    BY <1>2, <2>1
  <2>3. hand'[Len(hand')] = hand[Len(hand)]
    BY <1>2, <2>2
  <2> QED BY <1>1, <2>3 DEF ShareInv, Whole, IsLastShare
<1> QED BY <1>3, <1>4 DEF ShareInv, Whole, IsLastShare

LEMMA ShareStep ==
    ASSUME RoutingAssumption, RoutingTypeOK, BatchInv, ShareInv, [RoutingNext]_routingVars
    PROVE  ShareInv'
<1>1. policy' = policy
  BY DEF RoutingNext, routingVars, Feed, Receive, Schedule, Count, Take, RoundRobin, Onwards,
         EqualizerWhole, EqualizerShare, EqualizerPastEnd, LatencyFast, LatencySlow, LatencyRead,
         LatencyPlace, Liquidity, Execute, CountBatch, Pop, Post
<1> SUFFICES ASSUME policy = "Equalizer" PROVE ShareInv'
  BY <1>1 DEF ShareInv
<1>2. ASSUME NEW qty \in Quantities, Feed(qty) PROVE ShareInv'
  BY <1>2, ShareFeed DEF RoutingAssumption
<1>3. CASE Receive \/ Count \/ UNCHANGED routingVars
  <2>1. UNCHANGED <<policy, fed, orderQueue, hand, gone, queue, tried>> /\ (at' = at \/ at' # "comparing")
    BY <1>3 DEF Receive, Count, routingVars, schedulerVars, executorVars
  <2> QED BY <2>1 DEF ShareInv, Placed, Whole, IsLastShare
<1>4. CASE Take
  BY <1>4, ShareTake
<1>5. ~RoundRobin /\ ~LatencyFast /\ ~LatencySlow /\ ~LatencyPlace /\ ~Liquidity
      /\ \A p \in {1, 2} : ~LatencyRead(p)
  BY DEF RoundRobin, LatencyFast, LatencySlow, LatencyPlace, Liquidity, LatencyRead, ShareInv
<1>6. ASSUME NEW p \in {0, 1}, PushTo(p), Onwards, at = "placing", gone' = gone PROVE ShareInv'
  <2>1. Head(hand) \in Orders /\ hand' = Tail(hand) /\ at' # "comparing"
    BY <1>6, OnwardsStep
  <2>2. UNCHANGED <<policy, fed, orderQueue, tried>> /\ p \in Providers /\ 2 \in Providers /\ p # 2
    BY <1>6 DEF Onwards, executorVars, Providers
  <2>3. Placed(2)' = <<>>
    BY <1>6, <2>1, <2>2, PlacedAfterPush DEF ShareInv
  <2>4. \A i \in 1 .. Len(gone') : IsLastShare(gone'[i])
    BY <1>6 DEF ShareInv
  <2> QED BY <1>6, <2>1, <2>2, <2>3, <2>4, ShareOnwards
<1>7. Len(hand) \in Nat /\ Len(hand) <= TotalProvider
  BY Lengths DEF ShareInv
<1>8. CASE EqualizerWhole
  BY <1>6, <1>8 DEF EqualizerWhole
<1>9. CASE EqualizerShare
  <2>1. hand \in Seq(Orders) /\ hand # <<>>
    BY <1>9 DEF EqualizerShare, RoutingTypeOK
  <2>2. ShareIndex \in {0, 1}
    BY <1>7, <1>9 DEF EqualizerShare, ShareIndex, PastLastIndex, TotalProvider, Providers
  <2> QED BY <1>6, <1>9, <2>2 DEF EqualizerShare
<1>10. CASE EqualizerPastEnd
  <2>1. /\ at = "placing" /\ Head(hand).qty # fed[Head(hand).id].qty /\ ShareIndex \notin Providers
        /\ gone' = Append(gone, Head(hand)) /\ hand' = Tail(hand) /\ at' # "comparing"
        /\ UNCHANGED <<policy, fed, orderQueue, queue, tried>>
    BY <1>10 DEF EqualizerPastEnd, Onwards, AfterOrder, executorVars
  <2>2. hand \in Seq(Orders) /\ hand # <<>> /\ gone \in Seq(Orders)
    BY <2>1 DEF RoutingTypeOK
  <2>3. Len(hand) \in Nat \ {0} /\ Head(hand) \in Orders /\ Head(hand) = hand[1]
    BY <2>2, PoppedSequence
  <2>4. Len(hand) = 1
    <3>1. PICK n \in Nat : n = Len(hand) /\ n # 0 /\ n <= 3
      BY <1>7, <2>3 DEF TotalProvider
    <3>2. ~(n > 1)
      BY <2>1, <3>1 DEF ShareIndex, TotalProvider, Providers
    <3> QED BY <3>1, <3>2
  <2>5. ~Whole(Head(hand))
    BY <2>1 DEF Whole, ShareInv
  <2>6. IsLastShare(Head(hand))
    BY <2>2, <2>3, <2>4, <2>5 DEF ShareInv
  <2>7. /\ Len(gone') = Len(gone) + 1 /\ Len(gone) \in Nat
        /\ \A i \in 1 .. Len(gone) : gone'[i] = gone[i]
        /\ gone'[Len(gone) + 1] = Head(hand)
    BY <2>1, <2>2, <2>3, AppendedSequence
  <2>8. \A i \in 1 .. Len(gone') : i \in 1 .. Len(gone) \/ i = Len(gone) + 1
    BY <2>7
  <2>9. \A i \in 1 .. Len(gone') : IsLastShare(gone'[i])
    BY <2>6, <2>7, <2>8 DEF ShareInv
  <2>10. Placed(2)' = <<>>
    BY <2>1 DEF Placed, ShareInv
  <2> QED BY <2>1, <2>9, <2>10, ShareOnwards
<1>11. ASSUME NEW p \in Providers, Execute(p) PROVE ShareInv'
  <2>1. UNCHANGED <<policy, fed, orderQueue, hand, at, gone>> /\ 2 \in Providers
    BY <1>11 DEF Execute, CountBatch, Pop, Post, schedulerVars, Providers
  <2>2. Placed(2)' = Placed(2)
    BY <1>11, <2>1, PlacedAfterPop
  <2> QED BY <2>1, <2>2 DEF ShareInv, Whole, IsLastShare
<1> QED BY <1>2, <1>3, <1>4, <1>5, <1>8, <1>9, <1>10, <1>11 DEF RoutingNext, Schedule

(* The third executor never gets a share of an order, and what is pushed past *)
(* the last provider is exactly the last shares (scheduler.cpp:57-67).        *)
THEOREM ThirdShareIsLost == RoutingSpec => []ThirdProviderIdle
<1>1. RoutingTypeOK /\ ShareInv => ThirdProviderIdle
  <2> SUFFICES ASSUME RoutingTypeOK, ShareInv, policy = "Equalizer", NEW i \in DOMAIN gone
               PROVE  gone[i] = Order(gone[i].id, LastShare(fed[gone[i].id]))
    BY DEF ThirdProviderIdle, ShareInv
  <2>1. i \in 1 .. Len(gone)
    BY DEF RoutingTypeOK
  <2>2. PICK j \in 1 .. Len(fed) : gone[i] = Order(j, LastShare(fed[j]))
    BY <2>1 DEF ShareInv, IsLastShare
  <2>3. gone[i].id = j
    BY <2>2 DEF Order
  <2> QED BY <2>2, <2>3
<1> QED BY <1>1, TypeInit, BatchStep, ShareInit, ShareStep, RoutingAssumption, PTL DEF RoutingSpec

(* Under RoundRobin every executor has its third of the orders, under Equalizer *)
(* the third one nothing (scheduler.cpp:27-38, 54-73).                          *)
THEOREM PolicyPlaces == RoutingSpec => []PlacedByPolicy
BY TurnsInOrder, ThirdShareIsLost, PTL DEF PlacedByPolicy

-----------------------------------------------------------------------------
(* Quantities. *)

\* What an order counts for an id, and the sum of that over a sequence.
Part(o, id) == IF o.id = id THEN o.qty ELSE 0
PartsFor(s, id) == [k \in 1 .. Len(s) |-> Part(s[k], id)]
Held(s, id) == SumOf(PartsFor(s, id))

LEMMA PartsForType ==
    ASSUME NEW s \in Seq(Orders), NEW id
    PROVE  /\ PartsFor(s, id) \in Seq(Int) /\ Len(PartsFor(s, id)) = Len(s) /\ Len(s) \in Nat
           /\ \A k \in 1 .. Len(s) : PartsFor(s, id)[k] = Part(s[k], id) /\ Part(s[k], id) \in Nat
           /\ Held(s, id) \in Int
<1>1. \A k \in 1 .. Len(s) : Part(s[k], id) \in Nat
  <2>1. \A k \in 1 .. Len(s) : s[k] \in Orders
    OBVIOUS
  <2>2. \A o \in Orders : o.qty \in Nat
    BY DEF Orders
  <2> QED BY <2>1, <2>2 DEF Part
<1>2. /\ PartsFor(s, id) \in Seq(Int) /\ Len(PartsFor(s, id)) = Len(s) /\ Len(s) \in Nat
      /\ \A k \in 1 .. Len(s) : PartsFor(s, id)[k] = Part(s[k], id)
  BY <1>1 DEF PartsFor
<1> QED BY <1>1, <1>2, SumType DEF Held

LEMMA QuantityIsHeld ==
    ASSUME NEW s \in Seq(Orders), NEW id
    PROVE  Quantity(s, id) = Held(s, id)
<1> DEFINE v == PartsFor(s, id)
           Def(F) == F = [T \in SUBSET (DOMAIN s) |->
                            IF T = {} THEN 0
                            ELSE F[T \ {Max(T)}]
                                   + IF s[Max(T)].id = id THEN s[Max(T)].qty ELSE 0]
           F == CHOOSE iter : Def(iter)
<1>1. Quantity(s, id) = F[DOMAIN s]
  BY DEF Quantity, FoldLeft, MapThenFoldSet
<1>2. /\ DOMAIN s = 1 .. Len(s) /\ Len(s) \in Nat
      /\ v \in Seq(Int) /\ Len(v) = Len(s)
      /\ \A k \in DOMAIN s : v[k] = IF s[k].id = id THEN s[k].qty ELSE 0
  BY PartsForType DEF Part
<1> HIDE DEF v
<1>3. \A T \in SUBSET (DOMAIN s) :
          T # {} => v[Max(T)] = IF s[Max(T)].id = id THEN s[Max(T)].qty ELSE 0
  BY <1>2, MaxIsLast
<1>4. PICK G : FoldsToSum(G, v)
  BY <1>2, SumFoldExists
<1>5. Def(G)
  BY <1>2, <1>3, <1>4 DEF FoldsToSum
<1>6. Def(F)
  BY <1>5
<1> HIDE DEF F
<1>7. \A T \in SUBSET (1 .. Len(v)) : F[T] = IF T = {} THEN 0 ELSE F[T \ {Max(T)}] + v[Max(T)]
  BY <1>2, <1>3, <1>6
<1>8. F[1 .. Len(v)] = SumOf(v)
  BY <1>2, <1>7, SumFold
<1> QED BY <1>1, <1>2, <1>8 DEF v, Held

LEMMA HeldEmpty == \A id : Held(<<>>, id) = 0
<1>1. \A id : PartsFor(<<>>, id) = <<>>
  BY DEF PartsFor
<1> QED BY <1>1, SumEmpty DEF Held

LEMMA HeldAfterAppend ==
    ASSUME NEW s \in Seq(Orders), NEW o \in Orders, NEW id
    PROVE  Held(Append(s, o), id) = Held(s, id) + Part(o, id)
<1>1. Part(o, id) \in Int
  BY DEF Part, Orders
<1>2. /\ PartsFor(s, id) \in Seq(Int) /\ Len(PartsFor(s, id)) = Len(s) /\ Len(s) \in Nat
      /\ \A k \in 1 .. Len(s) : PartsFor(s, id)[k] = Part(s[k], id)
  BY PartsForType
<1>3. /\ Len(Append(s, o)) = Len(s) + 1
      /\ \A k \in 1 .. Len(s) : Append(s, o)[k] = s[k]
      /\ Append(s, o)[Len(s) + 1] = o
  BY AppendedSequence
<1>4. PartsFor(Append(s, o), id) = Append(PartsFor(s, id), Part(o, id))
  <2> DEFINE v == PartsFor(s, id)
             x == Part(o, id)
  <2>1. Append(v, x) = [k \in 1 .. Len(s) + 1 |-> IF k = Len(s) + 1 THEN x ELSE v[k]]
    <3>1. v \in Seq(Int) /\ Len(v) = Len(s) /\ x \in Int
      BY <1>1, <1>2
    <3> HIDE DEF v, x
    <3>2. Append(v, x) = [k \in 1 .. Len(v) + 1 |-> IF k = Len(v) + 1 THEN x ELSE v[k]]
      <4>1. v \in Seq(Int) /\ x \in Int
        BY <3>1
      <4> QED BY ONLY <4>1, NumberAppended, Zenon
    <3>3. Len(v) = Len(s)
      BY <3>1
    <3> QED BY ONLY <3>2, <3>3
  <2> QED BY <1>2, <1>3, <2>1 DEF PartsFor
<1> QED BY <1>1, <1>2, <1>4, SumAppend DEF Held

LEMMA HeldAfterPop ==
    ASSUME NEW s \in Seq(Orders), s # <<>>, NEW id
    PROVE  Held(s, id) = Held(Tail(s), id) + Part(Head(s), id)
<1>1. /\ PartsFor(s, id) \in Seq(Int) /\ Len(PartsFor(s, id)) = Len(s)
      /\ \A k \in 1 .. Len(s) : PartsFor(s, id)[k] = Part(s[k], id)
  BY PartsForType
<1>2. /\ Tail(s) \in Seq(Orders) /\ Len(s) \in Nat \ {0} /\ Len(Tail(s)) = Len(s) - 1
      /\ \A k \in 1 .. Len(s) - 1 : Tail(s)[k] = s[k + 1]
      /\ Head(s) = s[1]
  BY PoppedSequence
<1> DEFINE v == PartsFor(s, id)
<1>3. v # <<>> /\ Head(v) = Part(Head(s), id)
  BY <1>1, <1>2
<1>4. Tail(v) = PartsFor(Tail(s), id)
  <2>1. Tail(v) = [k \in 1 .. Len(s) - 1 |-> v[k + 1]]
    <3>1. v \in Seq(Int) /\ Len(v) = Len(s) /\ v # <<>>
      BY <1>1, <1>3
    <3> HIDE DEF v
    <3> QED BY <3>1, TailAsFunction
  <2>2. \A k \in 1 .. Len(s) - 1 : k + 1 \in 1 .. Len(s)
    BY <1>2
  <2> QED BY <1>1, <1>2, <2>1, <2>2 DEF PartsFor
<1> HIDE DEF v
<1>5. v \in Seq(Int)
  BY <1>1 DEF v
<1>6. SumOf(v) = SumOf(Tail(v)) + Head(v)
  BY <1>3, <1>5, SumTail
<1> QED BY <1>3, <1>4, <1>6 DEF Held, v

\* The shares of an order add up to it: the division rounds down and the last
\* share has the remainder.
LEMMA HeldByParts ==
    ASSUME NEW o \in Orders, NEW id
    PROVE  Held(Parts(o), id) = Part(o, id)
<1>1. /\ o.id \in Nat /\ o.qty \in Nat
      /\ o.qty \div TotalProvider \in Nat /\ o.qty % TotalProvider \in Nat
      /\ o.qty = 3 * (o.qty \div TotalProvider) + (o.qty % TotalProvider)
  BY DEF Orders, TotalProvider
<1> DEFINE share == Order(o.id, o.qty \div TotalProvider)
           last == Order(o.id, LastShare(o))
<1>2. LastShare(o) \in Nat
  BY <1>1 DEF LastShare
<1>3. share \in Orders /\ last \in Orders
  BY <1>1, <1>2 DEF Order, Orders
<1>4. Part(share, id) + Part(share, id) + Part(last, id) = Part(o, id)
  BY <1>1, <1>2 DEF Order, Part, LastShare
<1>5. \A x : Append(<<>>, x) = <<x>>
  OBVIOUS
<1>6. /\ Part(share, id) \in Int /\ Part(last, id) \in Int /\ Part(o, id) \in Int
  BY <1>1, <1>2, <1>3 DEF Part, Orders
<1> HIDE DEF share, last
<1>7. <<>> \in Seq(Orders)
  OBVIOUS
<1>8. \A x \in Orders : Held(<<x>>, id) = 0 + Part(x, id)
  BY <1>5, <1>7, HeldEmpty, HeldAfterAppend
<1>9. CASE policy = "Equalizer" /\ o.qty >= TotalProvider
  <2>1. Parts(o) = <<share, share, last>>
    BY <1>9 DEF Parts, share, last
  <2>2. /\ <<share>> \in Seq(Orders) /\ <<share, share>> \in Seq(Orders)
        /\ Append(<<share>>, share) = <<share, share>>
        /\ Append(<<share, share>>, last) = <<share, share, last>>
    <3>1. share \in Orders /\ last \in Orders
      BY <1>3
    <3> QED BY ONLY <3>1, TwoIsAppended, ThreeIsAppended
  <2>3. /\ Held(Append(<<share>>, share), id) = Held(<<share>>, id) + Part(share, id)
        /\ Held(Append(<<share, share>>, last), id) = Held(<<share, share>>, id) + Part(last, id)
    <3>1. /\ share \in Orders /\ last \in Orders
          /\ <<share>> \in Seq(Orders) /\ <<share, share>> \in Seq(Orders)
      BY <1>3, <2>2
    <3> QED BY ONLY <3>1, HeldAfterAppend
  <2>4. Held(<<share>>, id) = Part(share, id)
    BY <1>3, <1>6, <1>8
  <2> QED BY <1>4, <1>6, <2>1, <2>2, <2>3, <2>4
<1>10. CASE ~(policy = "Equalizer" /\ o.qty >= TotalProvider)
  <2>1. Parts(o) = <<o>>
    BY <1>10 DEF Parts
  <2> QED BY <1>6, <1>8, <2>1
<1> QED BY <1>9, <1>10

\* Everywhere an order or a part of it can be.
Total(id) ==
    Held(orderQueue, id) + Held(hand, id) + Held(gone, id)
        + Held(Placed(0), id) + Held(Placed(1), id) + Held(Placed(2), id)

\* Of an id not given yet there is nothing, so the next order may have it.
TotalInv == \A id \in Nat : Total(id) = IF id \in 1 .. Len(fed) THEN fed[id].qty ELSE 0

LEMMA TotalTypes ==
    ASSUME RoutingTypeOK, NEW id
    PROVE  /\ Held(orderQueue, id) \in Int /\ Held(hand, id) \in Int /\ Held(gone, id) \in Int
           /\ \A p \in Providers : Held(Placed(p), id) \in Int
BY PartsForType, PlacedSequences DEF RoutingTypeOK

LEMMA PartType == \A o \in Orders : \A id : Part(o, id) \in Int
BY DEF Part, Orders

LEMMA TotalFeed ==
    ASSUME RoutingTypeOK, BatchInv, TotalInv, NEW qty \in Nat, Feed(qty)
    PROVE  TotalInv'
<1> DEFINE order == Order(Len(fed) + 1, qty)
<1>1. /\ order \in Orders /\ fed' = Append(fed, order) /\ orderQueue' = Append(orderQueue, order)
      /\ UNCHANGED <<hand, gone, queue, tried>>
      /\ order.id = Len(fed) + 1 /\ order.qty = qty
  BY FeedStep DEF executorVars, Order
<1> HIDE DEF order
<1>2. fed \in Seq(Orders) /\ orderQueue \in Seq(Orders)
  BY DEF RoutingTypeOK
<1>3. /\ Len(fed') = Len(fed) + 1 /\ (\A i \in 1 .. Len(fed) : fed'[i] = fed[i])
      /\ fed'[Len(fed) + 1] = order /\ Len(fed) \in Nat
  BY <1>1, <1>2, AppendedSequence
<1> SUFFICES ASSUME NEW id \in Nat
             PROVE  Total(id)' = IF id \in 1 .. Len(fed') THEN fed'[id].qty ELSE 0
  BY DEF TotalInv
<1>4. Total(id)' = Total(id) + Part(order, id)
  <2>1. Held(orderQueue', id) = Held(orderQueue, id) + Part(order, id)
    BY <1>1, <1>2, HeldAfterAppend
  <2>2. \A p \in Providers : Placed(p)' = Placed(p)
    BY <1>1 DEF Placed
  <2>3. 0 \in Providers /\ 1 \in Providers /\ 2 \in Providers
    BY DEF Providers
  <2>4. Part(order, id) \in Int
    BY <1>1, PartType
  <2>5. /\ Held(orderQueue, id) \in Int /\ Held(hand, id) \in Int /\ Held(gone, id) \in Int
        /\ \A p \in Providers : Held(Placed(p), id) \in Int
    BY TotalTypes
  <2>6. /\ Held(hand', id) = Held(hand, id) /\ Held(gone', id) = Held(gone, id)
        /\ \A p \in Providers : Held(Placed(p)', id) = Held(Placed(p), id)
    BY <1>1, <2>2
  <2>7. /\ Total(id)' = Held(orderQueue', id) + Held(hand', id) + Held(gone', id)
                           + Held(Placed(0)', id) + Held(Placed(1)', id) + Held(Placed(2)', id)
        /\ Total(id) = Held(orderQueue, id) + Held(hand, id) + Held(gone, id)
                           + Held(Placed(0), id) + Held(Placed(1), id) + Held(Placed(2), id)
    BY DEF Total
  <2> QED BY ONLY <2>1, <2>3, <2>4, <2>5, <2>6, <2>7
<1>5. Total(id) = IF id \in 1 .. Len(fed) THEN fed[id].qty ELSE 0
  BY DEF TotalInv
<1>6. CASE id = Len(fed) + 1
  <2>1. Total(id) = 0
    BY <1>3, <1>5, <1>6
  <2>2. Part(order, id) = qty
    BY <1>1, <1>6 DEF Part
  <2> QED BY <1>1, <1>3, <1>4, <1>6, <2>1, <2>2
<1>7. CASE id # Len(fed) + 1
  <2>1. Part(order, id) = 0
    BY <1>1, <1>7 DEF Part
  <2>2. id \in 1 .. Len(fed') <=> id \in 1 .. Len(fed)
    BY <1>3, <1>7
  <2>3. id \in 1 .. Len(fed) => fed'[id].qty = fed[id].qty /\ fed[id].qty \in Int
    <3>1. id \in 1 .. Len(fed) => fed[id] \in Orders
      BY <1>2
    <3>2. \A o \in Orders : o.qty \in Int
      BY DEF Orders
    <3> QED BY <1>3, <3>1, <3>2
  <2> QED BY <1>4, <1>5, <2>1, <2>2, <2>3
<1> QED BY <1>6, <1>7

LEMMA TotalTake ==
    ASSUME RoutingTypeOK, BatchInv, TotalInv, Take
    PROVE  TotalInv'
<1>1. /\ orderQueue # <<>> /\ hand = <<>> /\ orderQueue' = Tail(orderQueue)
      /\ hand' = Parts(Head(orderQueue)) /\ orderQueue \in Seq(Orders)
      /\ UNCHANGED <<fed, gone, queue, tried>>
  BY DEF Take, executorVars, RoutingTypeOK
<1>2. Head(orderQueue) \in Orders
  BY <1>1, PoppedSequence
<1> SUFFICES ASSUME NEW id \in Nat PROVE Total(id)' = Total(id)
  BY <1>1 DEF TotalInv
<1>3. /\ Held(orderQueue, id) = Held(orderQueue', id) + Part(Head(orderQueue), id)
      /\ Held(hand', id) = Part(Head(orderQueue), id)
      /\ Held(hand, id) = 0
  BY <1>1, <1>2, HeldAfterPop, HeldByParts, HeldEmpty
<1>4. \A p \in Providers : Placed(p)' = Placed(p)
  BY <1>1 DEF Placed
<1>5. 0 \in Providers /\ 1 \in Providers /\ 2 \in Providers
  BY DEF Providers
<1>6. Part(Head(orderQueue), id) \in Int /\ Held(orderQueue', id) \in Int
  <2>1. Tail(orderQueue) \in Seq(Orders)
    BY <1>1, PoppedSequence
  <2> QED BY <1>1, <1>2, <2>1, PartType, PartsForType
<1> QED BY <1>1, <1>3, <1>4, <1>5, <1>6, TotalTypes DEF Total

\* The first of hand goes to one executor, or to none.
LEMMA TotalMoved ==
    ASSUME RoutingTypeOK, TotalInv, at \in {"placing", "comparing"},
           hand' = Tail(hand), UNCHANGED <<fed, orderQueue, tried>>,
           \/ gone' = gone /\ \E p \in Providers : PushTo(p)
           \/ gone' = Append(gone, Head(hand)) /\ queue' = queue
    PROVE  TotalInv'
<1>1. hand \in Seq(Orders) /\ hand # <<>> /\ gone \in Seq(Orders)
  BY DEF RoutingTypeOK
<1>2. Head(hand) \in Orders /\ Tail(hand) \in Seq(Orders)
  BY <1>1, PoppedSequence
<1> SUFFICES ASSUME NEW id \in Nat PROVE Total(id)' = Total(id)
  BY DEF TotalInv
<1> DEFINE x == Part(Head(hand), id)
<1>3. Held(hand, id) = Held(hand', id) + x
  BY <1>1, HeldAfterPop
<1>4. x \in Int /\ Held(hand', id) \in Int
  BY <1>2, PartType, PartsForType
<1>5. 0 \in Providers /\ 1 \in Providers /\ 2 \in Providers
  BY DEF Providers
<1> HIDE DEF x
<1>6. CASE gone' = gone /\ \E p \in Providers : PushTo(p)
  <2>1. PICK p \in Providers : PushTo(p)
    BY <1>6
  <2>2. Placed(p)' = Append(Placed(p), Head(hand)) /\ \A q \in Providers : q # p => Placed(q)' = Placed(q)
    BY <1>2, <2>1, PlacedAfterPush
  <2>3. Held(Placed(p)', id) = Held(Placed(p), id) + x
    BY <1>2, <2>2, PlacedSequences, HeldAfterAppend DEF x
  <2>4. \A q \in Providers : q # p => Held(Placed(q)', id) = Held(Placed(q), id)
    BY <2>2
  <2>5. p = 0 \/ p = 1 \/ p = 2
    BY DEF Providers
  <2>6. /\ Held(orderQueue, id) \in Int /\ Held(hand, id) \in Int /\ Held(gone, id) \in Int
        /\ \A q \in Providers : Held(Placed(q), id) \in Int
    BY TotalTypes
  <2>7. Held(orderQueue', id) = Held(orderQueue, id) /\ Held(gone', id) = Held(gone, id)
    BY <1>6
  <2>8. /\ Total(id)' = Held(orderQueue', id) + Held(hand', id) + Held(gone', id)
                           + Held(Placed(0)', id) + Held(Placed(1)', id) + Held(Placed(2)', id)
        /\ Total(id) = Held(orderQueue, id) + Held(hand, id) + Held(gone, id)
                           + Held(Placed(0), id) + Held(Placed(1), id) + Held(Placed(2), id)
    BY DEF Total
  <2> QED BY ONLY <1>3, <1>4, <1>5, <2>3, <2>4, <2>5, <2>6, <2>7, <2>8
<1>7. CASE gone' = Append(gone, Head(hand)) /\ queue' = queue
  <2>1. Held(gone', id) = Held(gone, id) + x
    BY <1>1, <1>2, <1>7, HeldAfterAppend DEF x
  <2>2. \A p \in Providers : Placed(p)' = Placed(p)
    BY <1>7 DEF Placed
  <2> QED BY <1>3, <1>4, <1>5, <2>1, <2>2, TotalTypes DEF Total
<1> QED BY <1>6, <1>7

LEMMA TotalStep ==
    ASSUME RoutingAssumption, RoutingTypeOK, BatchInv, TotalInv, [RoutingNext]_routingVars
    PROVE  TotalInv'
<1>1. ASSUME NEW qty \in Quantities, Feed(qty) PROVE TotalInv'
  BY <1>1, TotalFeed DEF RoutingAssumption
<1>2. CASE UNCHANGED <<fed, orderQueue, hand, gone, queue, tried>>
  BY <1>2 DEF TotalInv, Total, Placed
<1>3. CASE Receive \/ Count \/ LatencySlow \/ (\E p \in {1, 2} : LatencyRead(p)) \/ UNCHANGED routingVars
  BY <1>2, <1>3 DEF Receive, Count, LatencySlow, LatencyRead, routingVars, schedulerVars, executorVars
<1>4. CASE Take
  BY <1>4, TotalTake
<1>5. current \in Providers /\ 0 \in Providers /\ 1 \in Providers /\ 2 \in Providers
  BY DEF RoutingTypeOK, Providers
<1>6. ASSUME at \in {"placing", "comparing"}, gone' = gone, Onwards, NEW p \in Providers, PushTo(p)
      PROVE  TotalInv'
  <2>1. hand' = Tail(hand) /\ UNCHANGED <<fed, orderQueue, tried>>
    BY <1>6 DEF Onwards, executorVars
  <2> QED BY <1>6, <2>1, TotalMoved
<1>7. CASE RoundRobin
  BY <1>5, <1>6, <1>7 DEF RoundRobin
<1>8. CASE EqualizerWhole \/ EqualizerShare
  BY <1>5, <1>6, <1>8 DEF EqualizerWhole, EqualizerShare
<1>9. CASE LatencyFast
  BY <1>5, <1>6, <1>9 DEF LatencyFast
<1>10. CASE LatencyPlace
  <2>1. PICK p \in Providers : PushTo(p)
    BY <1>5, <1>10 DEF LatencyPlace
  <2> QED BY <1>6, <1>10, <2>1 DEF LatencyPlace
<1>11. CASE EqualizerPastEnd \/ Liquidity
  <2>1. /\ at = "placing" /\ gone' = Append(gone, Head(hand)) /\ queue' = queue
        /\ hand' = Tail(hand) /\ UNCHANGED <<fed, orderQueue, tried>>
    BY <1>11 DEF EqualizerPastEnd, Liquidity, Onwards, executorVars
  <2> QED BY <2>1, TotalMoved
<1>12. ASSUME NEW p \in Providers, Execute(p) PROVE TotalInv'
  <2>1. UNCHANGED <<fed, orderQueue, hand, gone>>
    BY <1>12 DEF Execute, CountBatch, Pop, Post, schedulerVars
  <2>2. \A q \in Providers : Placed(q)' = Placed(q)
    BY <1>12, PlacedAfterPop
  <2> QED BY <1>5, <2>1, <2>2 DEF TotalInv, Total
<1> QED BY <1>1, <1>3, <1>4, <1>7, <1>8, <1>9, <1>10, <1>11, <1>12 DEF RoutingNext, Schedule

LEMMA TotalInit == RoutingInit => TotalInv
<1> SUFFICES ASSUME RoutingInit, NEW id \in Nat
             PROVE  Total(id) = IF id \in 1 .. Len(fed) THEN fed[id].qty ELSE 0
  BY DEF TotalInv
<1>1. /\ orderQueue = <<>> /\ hand = <<>> /\ gone = <<>>
      /\ Placed(0) = <<>> /\ Placed(1) = <<>> /\ Placed(2) = <<>>
      /\ ~ id \in 1 .. Len(fed)
  BY DEF RoutingInit, Placed, Providers
<1> QED BY <1>1, HeldEmpty DEF Total

(* Whatever the policy and the batches, the quantity of an order is in the    *)
(* queues, in the hand of the scheduler, with the executors or lost past the  *)
(* last provider, and nowhere twice (scheduler.cpp:21-113,                    *)
(* executor_manager.cpp:50-66).                                               *)
THEOREM QuantityIsConserved == RoutingSpec => []QuantityConserved
<1>1. RoutingTypeOK /\ TotalInv => QuantityConserved
  <2> SUFFICES ASSUME RoutingTypeOK, TotalInv, NEW id \in DOMAIN fed
               PROVE  Quantity(orderQueue, id) + Quantity(hand, id) + Quantity(gone, id)
                        + Quantity(Placed(0), id) + Quantity(Placed(1), id)
                        + Quantity(Placed(2), id) = fed[id].qty
    BY DEF QuantityConserved
  <2>1. id \in Nat /\ id \in 1 .. Len(fed)
    BY DEF RoutingTypeOK
  <2>2. 0 \in Providers /\ 1 \in Providers /\ 2 \in Providers
    BY DEF Providers
  <2>3. /\ Quantity(orderQueue, id) = Held(orderQueue, id) /\ Quantity(hand, id) = Held(hand, id)
        /\ Quantity(gone, id) = Held(gone, id)
        /\ \A p \in Providers : Quantity(Placed(p), id) = Held(Placed(p), id)
    BY QuantityIsHeld, PlacedSequences DEF RoutingTypeOK
  <2> QED BY <2>1, <2>2, <2>3 DEF TotalInv, Total
<1> QED BY <1>1, TypeInit, BatchStep, TotalInit, TotalStep, RoutingAssumption, PTL DEF RoutingSpec

-----------------------------------------------------------------------------
(* Latency_Based. *)

\* What has been read of the queues' sizes.
SizesInv == DOMAIN sizes \subseteq {1, 2} /\ \A p \in DOMAIN sizes : sizes[p] \in Nat

LEMMA SizesInit == RoutingInit => SizesInv
  BY DEF RoutingInit, SizesInv

LEMMA SizesStep ==
    ASSUME RoutingTypeOK, SizesInv, [RoutingNext]_routingVars
    PROVE  SizesInv'
<1>1. CASE sizes' = sizes
  BY <1>1 DEF SizesInv
<1>2. ASSUME NEW p \in {1, 2}, LatencyRead(p) PROVE SizesInv'
  <2>1. Len(queue[p]) \in Nat
    BY DEF RoutingTypeOK, Providers
  <2>2. sizes' = [q \in DOMAIN sizes \cup {p} |-> IF q = p THEN Len(queue[p]) ELSE sizes[q]]
    BY <1>2 DEF LatencyRead
  <2>3. DOMAIN sizes' = DOMAIN sizes \cup {p}
    BY <2>2
  <2>4. ASSUME NEW q \in DOMAIN sizes' PROVE sizes'[q] \in Nat
    BY <2>1, <2>2, <2>3 DEF SizesInv
  <2> QED BY <2>3, <2>4 DEF SizesInv
<1>3. CASE LatencyPlace
  BY <1>3 DEF LatencyPlace, SizesInv
<1>4. ~ (sizes' = sizes) => LatencyPlace \/ \E p \in {1, 2} : LatencyRead(p)
  BY DEF RoutingNext, routingVars, schedulerVars, Feed, Receive, Schedule, Count, Take, RoundRobin,
         EqualizerWhole, EqualizerShare, EqualizerPastEnd, LatencyFast, LatencySlow, Liquidity,
         Execute, CountBatch, Pop, Post
<1> QED BY <1>1, <1>2, <1>3, <1>4

\* A difference below the gap is not read as one above it unless it wraps.
LEMMA DifferenceWithoutWrap ==
    ASSUME RoutingAssumption, NEW a \in Nat, NEW b \in Nat, b <= a, a < Gap
    PROVE  ~ LongerByGap(a, b)
<1>1. SizeRange \in Nat /\ Gap \in Nat \ {0} /\ Gap <= SizeRange
  BY DEF RoutingAssumption
<1>2. a - b \in 0 .. SizeRange - 1 /\ a - b < Gap /\ a - b = SizeRange * 0 + (a - b)
  BY <1>1
<1>3. (a - b) % SizeRange = a - b
  <2> DEFINE d == a - b
  <2> HIDE DEF d
  <2>1. SizeRange \in Nat \ {0} /\ d \in 0 .. SizeRange - 1 /\ d = SizeRange * 0 + d /\ d \in Int
    BY <1>1, <1>2 DEF d
  <2>2. d % SizeRange = d
    BY ONLY <2>1, RemainderUnique
  <2> QED BY <2>2 DEF d
<1> QED BY <1>1, <1>2, <1>3 DEF LongerByGap, Difference

\* While the scheduler compares, only its own decision makes a queue longer.
LEMMA LongerByPlacing ==
    ASSUME RoutingTypeOK, [RoutingNext]_routingVars, at = "comparing",
           Len(queue'[1]) > Len(queue[1])
    PROVE  LatencyPlace
<1>1. 1 \in Providers /\ queue[1] \in Seq(Orders) /\ Len(queue[1]) \in Nat
  BY DEF RoutingTypeOK, Providers
<1>2. queue' # queue
  BY <1>1
<1>3. ASSUME NEW p \in Providers, Execute(p) PROVE FALSE
  <2>1. CASE CountBatch(p) \/ Post(p)
    BY <1>2, <2>1 DEF CountBatch, Post
  <2>2. CASE Pop(p)
    <3>1. /\ queue[p] # <<>> /\ queue' = [queue EXCEPT ![p] = Tail(queue[p])]
          /\ queue \in [Providers -> Seq(Orders)]
      BY <2>2 DEF Pop, RoutingTypeOK
    <3>2. Len(Tail(queue[p])) = Len(queue[p]) - 1 /\ Len(queue[p]) \in Nat
      BY <3>1, PoppedSequence
    <3>3. Len(queue'[1]) <= Len(queue[1])
      <4>1. CASE p = 1
        BY <1>1, <3>1, <3>2, <4>1
      <4>2. CASE p # 1
        BY <1>1, <3>1, <4>2
      <4> QED BY <4>1, <4>2
    <3>4. Len(queue'[1]) \in Int
      <4>1. CASE p = 1
        BY <1>1, <3>1, <3>2, <4>1
      <4>2. CASE p # 1
        BY <1>1, <3>1, <4>2
      <4> QED BY <4>1, <4>2
    <3> QED BY <1>1, <3>3, <3>4
  <2> QED BY <1>3, <2>1, <2>2 DEF Execute
<1> QED
  BY <1>2, <1>3 DEF RoutingNext, routingVars, Feed, Receive, Schedule, Count, Take, RoundRobin,
         EqualizerWhole, EqualizerShare, EqualizerPastEnd, LatencyFast, LatencySlow, LatencyRead,
         Liquidity

(* With fewer than the gap waiting at the third provider, an order goes to the *)
(* second only when its queue is the longer one: for any number of orders that *)
(* a size_t can count (scheduler.cpp:86-97).                                   *)
THEOREM WrapPlacesWithTheLonger == RoutingSpec => WrapsToTheLonger
<1> DEFINE A == (at = "comparing" /\ Len(queue'[1]) > Len(queue[1]) /\ sizes[2] < Gap)
                    => sizes[1] > sizes[2]
<1>1. RoutingAssumption /\ RoutingTypeOK /\ SizesInv /\ [RoutingNext]_routingVars => [A]_routingVars
  <2> SUFFICES ASSUME RoutingAssumption, RoutingTypeOK, SizesInv, [RoutingNext]_routingVars,
                      at = "comparing", Len(queue'[1]) > Len(queue[1]), sizes[2] < Gap
               PROVE  sizes[1] > sizes[2]
    OBVIOUS
  <2>1. LatencyPlace
    BY LongerByPlacing
  <2>2. sizes[1] \in Nat /\ sizes[2] \in Nat
    BY <2>1 DEF LatencyPlace, SizesInv
  <2>3. LongerByGap(sizes[2], sizes[1])
    <3>1. queue \in [Providers -> Seq(Orders)] /\ 1 \in Providers
      BY DEF RoutingTypeOK, Providers
    <3>2. ASSUME ~ LongerByGap(sizes[2], sizes[1]) PROVE FALSE
      <4>1. queue' = [queue EXCEPT ![2] = Append(queue[2], Head(hand))]
        BY <2>1, <3>2 DEF LatencyPlace, PushTo
      <4>2. queue'[1] = queue[1] /\ Len(queue[1]) \in Nat
        BY <3>1, <4>1
      <4> QED BY <4>2
    <3> QED BY <3>2
  <2> QED BY <2>2, <2>3, DifferenceWithoutWrap
<1>2. RoutingSpec => [][A]_routingVars
  BY <1>1, TypeInit, BatchStep, SizesInit, SizesStep, RoutingAssumption, PTL DEF RoutingSpec
<1> QED BY <1>2 DEF WrapsToTheLonger
=============================================================================
