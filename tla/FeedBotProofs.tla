----------------------------- MODULE FeedBotProofs -----------------------------
(***************************************************************************)
(* What holds of the market maker for any number of threads, limit and     *)
(* clip; of the market-data session, alone and under the order-book bot,    *)
(* for every set of frames and every number of them: one operation of each  *)
(* kind at a time, and no silence without a reported error; and whose the   *)
(* ids of the order book are that CounterId has not reached.                *)
(***************************************************************************)
EXTENDS FeedBot, FiniteSetTheorems, TLAPS

-----------------------------------------------------------------------------
(* The market maker. *)

(* Threads whose order is decided and not yet counted. *)
Buying == {t \in Threads : MakerAt(t, "buying")}
Selling == {t \in Threads : MakerAt(t, "reread") \/ MakerAt(t, "selling")}

(* The inductive invariant: what is decided is counted in advance.  PositionInBand *)
(* alone is not inductive, since it says nothing of the orders in flight.          *)
Committed ==
    /\ position + Clip * Cardinality(Buying) <= HighestPosition
    /\ position - Clip * Cardinality(Selling) >= LowestPosition

BandInv == MakerTypeOK /\ Committed

LEMMA TimesGrows ==
    ASSUME NEW c \in Nat, NEW m \in Nat, NEW n \in Nat, m <= n
    PROVE  /\ c * m \in Nat /\ c * n \in Nat
           /\ c * m <= c * n
           /\ c * (n + 1) = c * n + c
<1>1. PICK d \in Nat : n = m + d
  <2>1. n - m \in Nat /\ n = m + (n - m)
    OBVIOUS
  <2> QED BY <2>1
<1>2. c * n = c * m + c * d /\ c * d \in Nat /\ c * m \in Nat
  BY <1>1
<1> QED BY <1>2

LEMMA CountBounded ==
    ASSUME NEW S \in SUBSET Threads
    PROVE  /\ IsFiniteSet(S)
           /\ Cardinality(S) \in Nat
           /\ Clip * Cardinality(S) \in 0 .. Slack
           /\ Clip * Cardinality(S) \in Nat
<1>1. /\ IsFiniteSet(S) /\ Cardinality(S) \in Nat /\ Cardinality(Threads) \in Nat
      /\ Cardinality(S) <= Cardinality(Threads)
  BY MakerAssumption, FS_Subset, FS_CardinalityType
<1> QED BY <1>1, MakerAssumption, TimesGrows DEF Slack

LEMMA CountOneMore ==
    ASSUME NEW S \in SUBSET Threads, NEW t \in Threads, t \notin S
    PROVE  Clip * Cardinality(S \cup {t}) = Clip * Cardinality(S) + Clip
<1>1. IsFiniteSet(S) /\ Cardinality(S) \in Nat
  BY CountBounded
<1>2. Cardinality(S \cup {t}) = Cardinality(S) + 1
  BY <1>1, FS_AddElement
<1> QED BY <1>1, <1>2, MakerAssumption, TimesGrows

LEMMA CountOneLess ==
    ASSUME NEW S \in SUBSET Threads, NEW t \in S
    PROVE  Clip * Cardinality(S \ {t}) = Clip * Cardinality(S) - Clip
<1>1. S \ {t} \in SUBSET Threads /\ t \in Threads /\ t \notin S \ {t}
      /\ S = (S \ {t}) \cup {t}
  OBVIOUS
<1>2. Clip * Cardinality(S) = Clip * Cardinality(S \ {t}) + Clip
  BY <1>1, CountOneMore
<1>3. Clip * Cardinality(S \ {t}) \in Nat /\ Clip \in Nat
  BY <1>1, CountBounded, MakerAssumption
<1> QED BY <1>2, <1>3

LEMMA QuantityClipped ==
    ASSUME NEW q \in MakerQuotes
    PROVE  BuyQuantity(q) \in 0 .. Clip /\ SellQuantity(q) \in 0 .. Clip
<1>1. q.bidQuantity \in Nat /\ q.askQuantity \in Nat
  BY MakerAssumption
<1> QED BY <1>1, MakerAssumption DEF BuyQuantity, SellQuantity, Clipped

LEMMA Bounds ==
    /\ Slack \in Nat
    /\ LowestPosition \in Int /\ LowestPosition <= 0 /\ LowestPosition <= PositionLimit - Slack
    /\ HighestPosition = PositionLimit - 1 + Slack
<1>1. Slack \in Nat
  BY MakerAssumption, CountBounded DEF Slack
<1>2. LowestPosition \in Int /\ LowestPosition <= 0 /\ LowestPosition <= PositionLimit - Slack
      /\ HighestPosition = PositionLimit - 1 + Slack
  BY <1>1, MakerAssumption DEF LowestPosition, HighestPosition
<1> QED BY <1>1, <1>2

LEMMA CommittedImpliesBand == BandInv => PositionInBand
<1> SUFFICES ASSUME BandInv PROVE PositionInBand
  OBVIOUS
<1>1. /\ Clip * Cardinality(Buying) \in Nat
      /\ Clip * Cardinality(Selling) \in Nat
  BY CountBounded DEF Buying, Selling
<1>2. position \in Int
  BY DEF BandInv, MakerTypeOK
<1> QED BY <1>1, <1>2, Bounds, MakerAssumption DEF BandInv, Committed, PositionInBand

LEMMA InitBandInv == MakerInit => BandInv
<1> SUFFICES ASSUME MakerInit PROVE BandInv
  OBVIOUS
<1>1. MakerTypeOK
  BY DEF MakerInit, MakerTypeOK
<1>2. Buying = {} /\ Selling = {} /\ position = 0
  <2>1. position = 0 /\ \A t \in Threads : maker[t] = None
    BY DEF MakerInit
  <2> QED BY <2>1 DEF Buying, Selling, MakerAt
<1>3. Clip * Cardinality({}) = 0
  BY FS_EmptySet, MakerAssumption
<1>4. 0 + 0 <= HighestPosition /\ 0 - 0 >= LowestPosition
  BY Bounds, MakerAssumption
<1> QED BY <1>1, <1>2, <1>3, <1>4 DEF BandInv, Committed

(* Steps that leave the position alone and decide nothing. *)
LEMMA NoDecisionBandInv ==
    ASSUME BandInv, UNCHANGED position, MakerTypeOK', Buying' = Buying, Selling' \subseteq Selling
    PROVE  BandInv'
<1>1. Selling \in SUBSET Threads /\ Selling' \in SUBSET Threads
  BY DEF Selling
<1>2. Cardinality(Selling') <= Cardinality(Selling) /\ Cardinality(Selling') \in Nat
      /\ Cardinality(Selling) \in Nat
  BY <1>1, CountBounded, FS_Subset
<1>3. Clip * Cardinality(Selling') <= Clip * Cardinality(Selling)
      /\ Clip * Cardinality(Selling') \in Nat /\ Clip * Cardinality(Selling) \in Nat
  BY <1>2, MakerAssumption, TimesGrows
<1>4. position \in Int
  BY DEF BandInv, MakerTypeOK
<1> QED BY <1>3, <1>4, Bounds DEF BandInv, Committed

LEMMA OtherMakers ==
    ASSUME BandInv, NEW t \in Threads, NEW v, maker' = [maker EXCEPT ![t] = v]
    PROVE  /\ maker'[t] = v
           /\ \A u \in Threads : u # t => maker'[u] = maker[u]
BY DEF BandInv, MakerTypeOK

LEMMA MakerCallBandInv ==
    ASSUME BandInv, NEW t \in Threads, NEW i \in MakerIds, NEW q \in MakerQuotes, MakerCall(t, i, q)
    PROVE  BandInv'
<1> DEFINE m == [at |-> "guard", id |-> i, quote |-> q]
<1>1. maker' = [maker EXCEPT ![t] = m] /\ maker[t] = None /\ UNCHANGED position
  BY DEF MakerCall
<1>2. m \in MakerCalls /\ m.at = "guard"
  BY DEF MakerCalls, MakerStages
<1>3. MakerTypeOK'
  BY <1>1, <1>2 DEF BandInv, MakerTypeOK
<1> HIDE DEF m
<1>4. maker'[t] = m /\ \A u \in Threads : u # t => maker'[u] = maker[u]
  BY <1>1, OtherMakers
<1>5. Buying' = Buying /\ Selling' = Selling
  BY <1>1, <1>2, <1>4 DEF Buying, Selling, MakerAt
<1> QED BY <1>1, <1>3, <1>5, NoDecisionBandInv

(* How a step of the strategy moves one thread to another stage, or ends it. *)
LEMMA MoveToFacts ==
    ASSUME BandInv, NEW t \in Threads, maker[t] # None, NEW to \in MakerStages, MoveTo(t, to)
    PROVE  /\ maker' \in [Threads -> MakerCalls \cup {None}]
           /\ maker'[t] \in MakerCalls /\ maker'[t].at = to
           /\ \A u \in Threads : u # t => maker'[u] = maker[u]
<1>1. maker[t] \in MakerCalls
  BY DEF BandInv, MakerTypeOK
<1> DEFINE m == [maker[t] EXCEPT !.at = to]
<1>2. m \in MakerCalls /\ m.at = to
  BY <1>1 DEF MakerCalls
<1>3. maker' = [maker EXCEPT ![t] = m]
  BY DEF MoveTo
<1> HIDE DEF m
<1> QED BY <1>2, <1>3 DEF BandInv, MakerTypeOK

LEMMA HoldFacts ==
    ASSUME BandInv, NEW t \in Threads, Hold(t)
    PROVE  /\ maker' \in [Threads -> MakerCalls \cup {None}]
           /\ maker'[t] = None
           /\ \A u \in Threads : u # t => maker'[u] = maker[u]
BY DEF Hold, BandInv, MakerTypeOK

LEMMA MakerGuardBandInv ==
    ASSUME BandInv, NEW t \in Threads, MakerGuard(t)
    PROVE  BandInv'
<1>1. /\ maker[t] # None /\ maker[t].at = "guard" /\ UNCHANGED position
      /\ Hold(t) \/ MoveTo(t, "read")
  BY DEF MakerGuard, MakerAt
<1>2. /\ maker' \in [Threads -> MakerCalls \cup {None}]
      /\ maker'[t] = None \/ maker'[t].at = "read"
      /\ \A u \in Threads : u # t => maker'[u] = maker[u]
  BY <1>1, HoldFacts, MoveToFacts DEF MakerStages
<1>3. MakerTypeOK'
  BY <1>1, <1>2 DEF BandInv, MakerTypeOK
<1>4. Buying' = Buying /\ Selling' = Selling
  BY <1>1, <1>2 DEF Buying, Selling, MakerAt
<1> QED BY <1>1, <1>3, <1>4, NoDecisionBandInv

(* A buy is decided below the limit: even if every other thread has one in       *)
(* flight, all of them together stay within the slack.                           *)
LEMMA MakerBuyBandInv ==
    ASSUME BandInv, NEW t \in Threads, MakerBuy(t)
    PROVE  BandInv'
<1>1. /\ maker[t] # None /\ maker[t].at = "read" /\ UNCHANGED position
      /\ position < PositionLimit /\ MoveTo(t, "buying")
  BY DEF MakerBuy, MakerAt, MayBuy
<1>2. /\ maker' \in [Threads -> MakerCalls \cup {None}]
      /\ maker'[t] \in MakerCalls /\ maker'[t].at = "buying"
      /\ \A u \in Threads : u # t => maker'[u] = maker[u]
  BY <1>1, MoveToFacts DEF MakerStages
<1>3. MakerTypeOK'
  BY <1>1, <1>2 DEF BandInv, MakerTypeOK
<1>4. Selling' = Selling /\ Buying' \in SUBSET Threads
  BY <1>1, <1>2 DEF Buying, Selling, MakerAt
<1>5. Clip * Cardinality(Buying') \in 0 .. Slack
  BY <1>4, CountBounded
<1>6. position \in Int
  BY DEF BandInv, MakerTypeOK
<1>7. Committed'
  <2>1. position' + Clip * Cardinality(Buying') <= HighestPosition'
    BY <1>1, <1>5, <1>6, Bounds, MakerAssumption DEF HighestPosition, Slack
  <2>2. position' - Clip * Cardinality(Selling') >= LowestPosition'
    BY <1>1, <1>4 DEF BandInv, Committed, LowestPosition, Slack
  <2> QED BY <2>1, <2>2 DEF Committed
<1> QED BY <1>3, <1>7 DEF BandInv

(* A sell is decided at or above the limit. *)
LEMMA MakerDoesNotBuyBandInv ==
    ASSUME BandInv, NEW t \in Threads, MakerDoesNotBuy(t)
    PROVE  BandInv'
<1>1. /\ maker[t] # None /\ maker[t].at = "read" /\ UNCHANGED position
      /\ ~(position < PositionLimit) /\ MoveTo(t, "reread")
  BY DEF MakerDoesNotBuy, MakerAt, MayBuy
<1>2. /\ maker' \in [Threads -> MakerCalls \cup {None}]
      /\ maker'[t] \in MakerCalls /\ maker'[t].at = "reread"
      /\ \A u \in Threads : u # t => maker'[u] = maker[u]
  BY <1>1, MoveToFacts DEF MakerStages
<1>3. MakerTypeOK'
  BY <1>1, <1>2 DEF BandInv, MakerTypeOK
<1>4. Buying' = Buying /\ Selling' \in SUBSET Threads
  BY <1>1, <1>2 DEF Buying, Selling, MakerAt
<1>5. Clip * Cardinality(Selling') \in 0 .. Slack
  BY <1>4, CountBounded
<1>6. position \in Int
  BY DEF BandInv, MakerTypeOK
<1>7. Committed'
  <2>1. position' - Clip * Cardinality(Selling') >= LowestPosition'
    BY <1>1, <1>5, <1>6, Bounds, MakerAssumption DEF LowestPosition, Slack
  <2>2. position' + Clip * Cardinality(Buying') <= HighestPosition'
    BY <1>1, <1>4 DEF BandInv, Committed, HighestPosition, Slack
  <2> QED BY <2>1, <2>2 DEF Committed
<1> QED BY <1>3, <1>7 DEF BandInv

LEMMA MakerSellBandInv ==
    ASSUME BandInv, NEW t \in Threads, MakerSell(t) \/ MakerDoesNotSell(t)
    PROVE  BandInv'
<1>1. /\ maker[t] # None /\ maker[t].at = "reread" /\ UNCHANGED position
      /\ Hold(t) \/ MoveTo(t, "selling")
  BY DEF MakerSell, MakerDoesNotSell, MakerAt
<1>2. /\ maker' \in [Threads -> MakerCalls \cup {None}]
      /\ maker'[t] = None \/ maker'[t].at = "selling"
      /\ \A u \in Threads : u # t => maker'[u] = maker[u]
  BY <1>1, HoldFacts, MoveToFacts DEF MakerStages
<1>3. MakerTypeOK'
  BY <1>1, <1>2 DEF BandInv, MakerTypeOK
<1>4. Buying' = Buying /\ Selling' \subseteq Selling
  BY <1>1, <1>2 DEF Buying, Selling, MakerAt
<1> QED BY <1>1, <1>3, <1>4, NoDecisionBandInv

(* What is counted at the end is at most what was set aside for it. *)
LEMMA MakerBoughtBandInv ==
    ASSUME BandInv, NEW t \in Threads, MakerBought(t)
    PROVE  BandInv'
<1> DEFINE n == BuyQuantity(maker[t].quote)
<1>1. /\ maker[t] # None /\ maker[t].at = "buying" /\ Hold(t) /\ position' = position + n
  BY DEF MakerBought, MakerAt
<1>2. /\ maker' \in [Threads -> MakerCalls \cup {None}]
      /\ maker'[t] = None
      /\ \A u \in Threads : u # t => maker'[u] = maker[u]
  BY <1>1, HoldFacts
<1>3. n \in 0 .. Clip
  <2>1. maker[t].quote \in MakerQuotes
    BY <1>1 DEF BandInv, MakerTypeOK, MakerCalls
  <2> QED BY <2>1, QuantityClipped
<1> HIDE DEF n
<1>4. position \in Int /\ Clip \in Nat
  BY MakerAssumption DEF BandInv, MakerTypeOK
<1>5. MakerTypeOK'
  BY <1>1, <1>2, <1>3, <1>4 DEF MakerTypeOK
<1>6. Selling' = Selling /\ Buying' = Buying \ {t} /\ t \in Buying
  BY <1>1, <1>2 DEF Buying, Selling, MakerAt
<1>7. Buying \in SUBSET Threads /\ Selling \in SUBSET Threads
  BY DEF Buying, Selling
<1>8. Clip * Cardinality(Buying') = Clip * Cardinality(Buying) - Clip
  BY <1>6, <1>7, CountOneLess
<1>9. Clip * Cardinality(Buying) \in Nat /\ Clip * Cardinality(Selling) \in Nat
  BY <1>7, CountBounded
<1>10. Committed'
  <2>1. /\ position + Clip * Cardinality(Buying) <= HighestPosition
        /\ position - Clip * Cardinality(Selling) >= LowestPosition
        /\ HighestPosition \in Int /\ LowestPosition \in Int
    BY Bounds, MakerAssumption DEF BandInv, Committed
  <2>2. /\ position' + Clip * Cardinality(Buying') <= HighestPosition
        /\ position' - Clip * Cardinality(Selling') >= LowestPosition
    BY <2>1, <1>1, <1>3, <1>4, <1>6, <1>8, <1>9
  <2> QED BY <2>2 DEF Committed, HighestPosition, LowestPosition, Slack
<1> QED BY <1>5, <1>10 DEF BandInv

LEMMA MakerSoldBandInv ==
    ASSUME BandInv, NEW t \in Threads, MakerSold(t)
    PROVE  BandInv'
<1> DEFINE n == SellQuantity(maker[t].quote)
<1>1. /\ maker[t] # None /\ maker[t].at = "selling" /\ Hold(t) /\ position' = position - n
  BY DEF MakerSold, MakerAt
<1>2. /\ maker' \in [Threads -> MakerCalls \cup {None}]
      /\ maker'[t] = None
      /\ \A u \in Threads : u # t => maker'[u] = maker[u]
  BY <1>1, HoldFacts
<1>3. n \in 0 .. Clip
  <2>1. maker[t].quote \in MakerQuotes
    BY <1>1 DEF BandInv, MakerTypeOK, MakerCalls
  <2> QED BY <2>1, QuantityClipped
<1> HIDE DEF n
<1>4. position \in Int /\ Clip \in Nat
  BY MakerAssumption DEF BandInv, MakerTypeOK
<1>5. MakerTypeOK'
  BY <1>1, <1>2, <1>3, <1>4 DEF MakerTypeOK
<1>6. Buying' = Buying /\ Selling' = Selling \ {t} /\ t \in Selling
  BY <1>1, <1>2 DEF Buying, Selling, MakerAt
<1>7. Buying \in SUBSET Threads /\ Selling \in SUBSET Threads
  BY DEF Buying, Selling
<1>8. Clip * Cardinality(Selling') = Clip * Cardinality(Selling) - Clip
  BY <1>6, <1>7, CountOneLess
<1>9. Clip * Cardinality(Buying) \in Nat /\ Clip * Cardinality(Selling) \in Nat
  BY <1>7, CountBounded
<1>10. Committed'
  <2>1. /\ position + Clip * Cardinality(Buying) <= HighestPosition
        /\ position - Clip * Cardinality(Selling) >= LowestPosition
        /\ HighestPosition \in Int /\ LowestPosition \in Int
    BY Bounds, MakerAssumption DEF BandInv, Committed
  <2>2. /\ position' + Clip * Cardinality(Buying') <= HighestPosition
        /\ position' - Clip * Cardinality(Selling') >= LowestPosition
    BY <2>1, <1>1, <1>3, <1>4, <1>6, <1>8, <1>9
  <2> QED BY <2>2 DEF Committed, HighestPosition, LowestPosition, Slack
<1> QED BY <1>5, <1>10 DEF BandInv

LEMMA NextBandInv == BandInv /\ [MakerNext]_allVars => BandInv'
<1> SUFFICES ASSUME BandInv, [MakerNext]_allVars PROVE BandInv'
  OBVIOUS
<1>1. ASSUME UNCHANGED makerVars PROVE BandInv'
  BY <1>1 DEF makerVars, BandInv, MakerTypeOK, Committed, Buying, Selling, MakerAt,
              HighestPosition, LowestPosition, Slack
<1>2. CASE UNCHANGED allVars
  BY <1>1, <1>2 DEF allVars
<1>3. CASE MakerNext
  <2>1. PICK t \in Threads :
            \/ \E i \in MakerIds, q \in MakerQuotes : MakerCall(t, i, q)
            \/ \E c \in UserCalls : DirectCall(t, c)
            \/ MakerStep(t)
            \/ BookStep(t)
    BY <1>3 DEF MakerNext
  <2>2. CASE \E i \in MakerIds, q \in MakerQuotes : MakerCall(t, i, q)
    BY <2>2, MakerCallBandInv
  <2>3. CASE \E c \in UserCalls : DirectCall(t, c)
    BY <2>3, <1>1 DEF DirectCall
  <2>4. CASE BookStep(t)
    BY <2>4, <1>1 DEF BookStep
  <2>5. CASE MakerStep(t)
    BY <2>5, MakerGuardBandInv, MakerBuyBandInv, MakerDoesNotBuyBandInv, MakerSellBandInv,
       MakerBoughtBandInv, MakerSoldBandInv DEF MakerStep
  <2> QED BY <2>1, <2>2, <2>3, <2>4, <2>5
<1> QED BY <1>2, <1>3

(* However many threads run the strategy at once, and however stale the position *)
(* each of them acts on, it leaves [0, PositionLimit) by less than one clip per   *)
(* thread.                                                                       *)
THEOREM PositionStaysInBand == MakerSpec => []PositionInBand
<1>1. MakerSpec => []BandInv
  BY InitBandInv, NextBandInv, PTL DEF MakerSpec
<1> QED BY <1>1, CommittedImpliesBand, PTL

(* The strategy uses the book through AddOrder only: with it the book is still an *)
(* OrderBook, so whatever is proved of OrderBook holds under the strategy.         *)
THEOREM MakerUsesOrderBook == MakerSpec => Spec
<1>1. MakerInit => Init
  BY DEF MakerInit
<1>2. MakerTypeOK /\ [MakerNext]_allVars => [Next]_vars
  <2> SUFFICES ASSUME MakerTypeOK, MakerNext PROVE [Next]_vars
    BY DEF allVars
  <2>1. PICK t \in Threads :
            \/ \E i \in MakerIds, q \in MakerQuotes : MakerCall(t, i, q)
            \/ \E c \in UserCalls : DirectCall(t, c)
            \/ MakerStep(t)
            \/ BookStep(t)
    BY DEF MakerNext
  <2>2. CASE \E i \in MakerIds, q \in MakerQuotes : MakerCall(t, i, q)
    BY <2>2 DEF MakerCall
  <2>3. CASE \E c \in UserCalls : DirectCall(t, c)
    BY <2>3, MakerAssumption DEF DirectCall, Next
  <2>4. CASE BookStep(t)
    BY <2>4 DEF BookStep, Next
  <2>5. CASE MakerBuy(t) \/ MakerSell(t)
    <3> DEFINE m == maker[t]
    <3>1. m \in MakerCalls /\ (Invoke(t, BuyOrder(m)) \/ Invoke(t, SellOrder(m)))
      BY <2>5 DEF MakerBuy, MakerSell, MakerAt, MakerTypeOK
    <3>2. BuyOrder(m) \in AddCalls /\ SellOrder(m) \in AddCalls
      <4>1. m.id \in MakerIds /\ m.quote \in MakerQuotes
        BY <3>1 DEF MakerCalls
      <4> HIDE DEF m
      <4> QED BY <4>1, MakerOrdersAssumption DEF BuyOrder, SellOrder
    <3>3. AddCalls \subseteq Calls
      BY DEF Calls
    <3> QED BY <3>1, <3>2, <3>3 DEF Next
  <2>6. CASE MakerGuard(t) \/ MakerDoesNotBuy(t) \/ MakerDoesNotSell(t)
             \/ MakerBought(t) \/ MakerSold(t)
    BY <2>6 DEF MakerGuard, MakerDoesNotBuy, MakerDoesNotSell, MakerBought, MakerSold
  <2> QED BY <2>1, <2>2, <2>3, <2>4, <2>5, <2>6 DEF MakerStep
<1>3. MakerSpec => []MakerTypeOK
  <2>1. BandInv => MakerTypeOK
    BY DEF BandInv
  <2> QED BY <2>1, InitBandInv, NextBandInv, PTL DEF MakerSpec
<1> QED BY <1>1, <1>2, <1>3, PTL DEF MakerSpec, Spec

-----------------------------------------------------------------------------
(* The session. *)

Early == {"new", "resolving", "connecting", "securing", "upgrading"}
Over == {"ended", "destroyed"}

\* What the phase of the chain says about the stream.  The write of the
\* credentials is the only operation before the session is open, and a write
\* outstanding afterwards is the subscription.
StreamInv ==
    /\ phase \in Early \cup {"authenticating", "open"} \cup Over
    /\ handling \in {"none", "on_read"}
    /\ reads \in {0, 1} /\ writes \in {0, 1}
    /\ reads = 1 => reading = TRUE
    /\ reads = 0 => reading = FALSE
    /\ phase \in Early \cup {"authenticating"} => reads = 0 /\ authenticated = FALSE /\ handling = "none"
    /\ phase \in Early => writes = 0
    /\ phase = "authenticating" => writes = 1
    /\ writes = 1 => phase = "authenticating" \/ authenticated = TRUE
    /\ phase = "open" => (reads = 1 <=> handling = "none")
    /\ phase \in Over => reads = 0 /\ handling = "none" /\ trouble # "none"
    /\ stopReading = TRUE => phase = "destroyed"

LEMMA StreamInvInit == SessionInit => StreamInv
  BY DEF SessionInit, StreamInv, Early, Over

LEMMA StreamInvStep == StreamInv /\ [SessionNext]_sessionVars => StreamInv'
<1> SUFFICES ASSUME StreamInv, [SessionNext]_sessionVars PROVE StreamInv'
  OBVIOUS
<1> USE DEF StreamInv, Early, Over, Idle
<1>1. CASE Start
  BY <1>1 DEF Start, streamVars
<1>2. CASE OnStep
  BY <1>2 DEF OnStep, streamVars, Following
<1>3. CASE OnStepError
  BY <1>3 DEF OnStepError, Report, streamVars, Following
<1>4. CASE OnHandshake
  BY <1>4 DEF OnHandshake, NoReadYet
<1>5. CASE NoCredentials
  BY <1>5 DEF NoCredentials, Report, streamVars
<1>6. CASE OnAuthWrite
  BY <1>6 DEF OnAuthWrite, DoRead
<1>7. CASE OnAuthWriteError
  BY <1>7 DEF OnAuthWriteError, Report
<1>8. CASE OnWrite
  BY <1>8 DEF OnWrite
<1>9. ASSUME NEW f \in Frames, OnReadThrows(f) PROVE StreamInv'
  BY <1>9 DEF OnReadThrows, Receive, ReadCompletes, ClearsFlag
<1>10. CASE OnReadError
  BY <1>10 DEF OnReadError, ReadCompletes, ClearsFlag, Report
<1>11. CASE Destroy
  BY <1>11 DEF Destroy, streamVars
<1>12. ASSUME NEW f \in Frames, OnRead(f) PROVE StreamInv'
  <2>1. PICK first : /\ writes' = IF Authenticates(first) THEN writes + 1 ELSE writes
                     /\ authenticated' = (authenticated \/ Authenticates(first))
    BY <1>12 DEF OnRead
  <2>2. handling' = "on_read" /\ reads = 1 /\ reads' = 0 /\ reading' = FALSE
        /\ UNCHANGED <<phase, trouble, stopReading>>
    BY <1>12 DEF OnRead, Receive, ReadCompletes, ClearsFlag
  <2>3. phase = "open"
    BY <2>2
  <2>4. CASE Authenticates(first)
    <3>1. authenticated' = TRUE
      BY <2>1, <2>4, Zenon
    <3>2. authenticated # TRUE
      BY <2>4, Zenon DEF Authenticates
    <3>3. writes = 0
      BY <2>3, <3>2
    <3>4. writes' = writes + 1
      BY <2>1, <2>4, Zenon
    <3> QED BY <2>2, <2>3, <3>1, <3>3, <3>4
  <2>5. CASE ~Authenticates(first)
    BY <2>1, <2>2, <2>3, <2>5
  <2> QED BY <2>4, <2>5
<1>13. CASE HandlerReturns
  BY <1>13 DEF HandlerReturns, ReadsNext, DoRead, chainVars
<1>14. CASE UNCHANGED sessionVars
  BY <1>14 DEF sessionVars, chainVars, streamVars
<1> QED
  BY <1>1, <1>2, <1>3, <1>4, <1>5, <1>6, <1>7, <1>8, <1>9, <1>10, <1>11, <1>12, <1>13, <1>14
     DEF SessionNext, Chain

LEMMA SessionStreamInv == SessionSpec => []StreamInv
  BY StreamInvInit, StreamInvStep, PTL DEF SessionSpec

\* The Boost.Beast stream is never asked for two reads or two writes at a time
\* (Websocket.cpp:111-186).
THEOREM SessionOneOperation == SessionSpec => []OneOperationEach
<1>1. StreamInv => OneOperationEach
  BY DEF StreamInv, OneOperationEach
<1> QED BY <1>1, SessionStreamInv, PTL

\* A session that hears nothing more has said why (Websocket.cpp:197-242).
THEOREM SessionNotDeaf == SessionSpec => []DeafOnlyAfterTrouble
<1>1. StreamInv => DeafOnlyAfterTrouble
  BY DEF StreamInv, DeafOnlyAfterTrouble, Over
<1> QED BY <1>1, SessionStreamInv, PTL

-----------------------------------------------------------------------------
(* What processMessage is given. *)

\* No text is left over from a frame, the session is authenticated exactly when a
\* frame has said so, and the arrays due have been handed over one by one.
HandedInv ==
    /\ taken \in Seq(Frames)
    /\ handed \in Seq({First(f) : f \in Frames})
    /\ buffer = <<>>
    /\ authenticated \in BOOLEAN
    /\ authenticated = TRUE <=> \E j \in DOMAIN taken : SaysSo(taken[j])
    /\ HandedInOrder

LEMMA HandedInvInit == SessionInit => HandedInv
<1> SUFFICES ASSUME SessionInit PROVE HandedInv
  OBVIOUS
<1>1. taken = <<>> /\ handed = <<>> /\ buffer = <<>> /\ authenticated = FALSE
  BY DEF SessionInit
<1>2. Due = {}
  BY <1>1 DEF Due
<1>3. HandedInOrder
  BY <1>1, <1>2, FS_EmptySet DEF HandedInOrder
<1>4. authenticated = TRUE <=> \E j \in DOMAIN taken : SaysSo(taken[j])
  BY <1>1
<1>5. \A S : <<>> \in Seq(S)
  OBVIOUS
<1>6. taken \in Seq(Frames) /\ handed \in Seq({First(f) : f \in Frames})
  BY <1>1, <1>5, Zenon
<1> QED BY <1>1, <1>3, <1>4, <1>6 DEF HandedInv

\* A part of the frames' positions is finite.
LEMMA DueIsFinite ==
    ASSUME taken \in Seq(Frames)
    PROVE  /\ IsFiniteSet(Due)
           /\ \A i \in Due : /\ DueUpTo(i) \in 1 .. Cardinality(Due)
<1>1. IsFiniteSet(1 .. Len(taken))
  BY FS_Interval
<1>2. Due \subseteq 1 .. Len(taken)
  BY DEF Due
<1>3. IsFiniteSet(Due)
  BY <1>1, <1>2, FS_Subset
<1> SUFFICES ASSUME NEW i \in Due PROVE DueUpTo(i) \in 1 .. Cardinality(Due)
  BY <1>3
<1> DEFINE upTo == {j \in Due : j <= i}
<1>4. i \in upTo
  BY <1>2
<1>5. IsFiniteSet(upTo) /\ Cardinality(upTo) <= Cardinality(Due)
  BY <1>3, FS_Subset
<1>6. Cardinality(upTo) \in Nat /\ Cardinality(Due) \in Nat /\ Cardinality(upTo) # 0
  BY <1>3, <1>4, <1>5, FS_CardinalityType, FS_EmptySet
<1> QED BY <1>5, <1>6 DEF DueUpTo

\* The arrays due so far stay what they are when one more frame is read.
LEMMA OneMoreFrame ==
    ASSUME taken \in Seq(Frames), NEW f \in Frames, taken' = Append(taken, f)
    PROVE  /\ Due' = IF IsArray(f) /\ \E j \in DOMAIN taken : SaysSo(taken[j])
                     THEN Due \cup {Len(taken) + 1} ELSE Due
           /\ \A i \in Due : DueUpTo(i)' = DueUpTo(i)
           /\ Len(taken) + 1 \notin Due
           /\ DueUpTo(Len(taken))' = Cardinality(Due')
<1> DEFINE n == Len(taken)
<1>1. /\ DOMAIN taken = 1 .. n /\ n \in Nat
      /\ DOMAIN taken' = 1 .. n + 1
      /\ \A i \in 1 .. n : taken'[i] = taken[i]
      /\ taken'[n + 1] = f
  OBVIOUS
<1> HIDE DEF n
<1>2. \A i \in 1 .. n : i \in Due' <=> i \in Due
  BY <1>1 DEF Due
<1>3. n + 1 \in Due' <=> IsArray(f) /\ \E j \in 1 .. n : SaysSo(taken[j])
  BY <1>1 DEF Due
<1>4. Due \subseteq 1 .. n /\ Due' \subseteq 1 .. n + 1
  BY <1>1 DEF Due
<1>5. ASSUME NEW i \in Due PROVE DueUpTo(i)' = DueUpTo(i)
  <2>1. \A j : j \in Due' /\ j <= i <=> j \in Due /\ j <= i
    <3> TAKE j
    <3>1. i \in 1 .. n
      BY <1>4
    <3>2. j \in Due' => j \in Int /\ j >= 1
      BY <1>1, <1>4
    <3>3. j \in Due' /\ j <= i => j \in 1 .. n
      BY <1>1, <3>1, <3>2
    <3> QED BY <1>2, <1>4, <3>3
  <2>2. {j \in Due' : j <= i} = {j \in Due : j <= i}
    BY <2>1
  <2> QED BY <2>2 DEF DueUpTo
<1>6. {j \in Due' : j <= n + 1} = Due'
  <2>1. \A j \in Due' : j <= n + 1
    BY <1>1, <1>4
  <2> QED BY <2>1
<1>7. Due' = IF IsArray(f) /\ \E j \in 1 .. n : SaysSo(taken[j]) THEN Due \cup {n + 1} ELSE Due
  <2>1. \A j \in 1 .. n + 1 : j \in 1 .. n \/ j = n + 1
    BY <1>1
  <2>2. \A j : j \in Due' <=> j \in Due \/ (j = n + 1 /\ n + 1 \in Due')
    BY <1>2, <1>4, <2>1, Zenon
  <2> QED BY <1>3, <2>2
<1>8. n + 1 \notin Due
  BY <1>1, <1>4
<1>9. DueUpTo(Len(taken))' = Cardinality(Due')
  <2>1. Len(taken') = n + 1
    BY DEF n
  <2> QED BY <1>6, <2>1 DEF DueUpTo
<1> QED BY <1>1, <1>5, <1>7, <1>8, <1>9 DEF n

\* The session is authenticated once a frame has said so.
LEMMA AuthenticatedByFrames ==
    ASSUME taken \in Seq(Frames), NEW f \in Frames, taken' = Append(taken, f),
           authenticated = TRUE <=> \E j \in DOMAIN taken : SaysSo(taken[j]),
           authenticated' = (authenticated \/ Authenticates(f))
    PROVE  authenticated' = TRUE <=> \E j \in DOMAIN taken' : SaysSo(taken'[j])
<1> DEFINE n == Len(taken)
<1>1. /\ DOMAIN taken = 1 .. n /\ n \in Nat
      /\ DOMAIN taken' = 1 .. n + 1
      /\ \A i \in 1 .. n : taken'[i] = taken[i]
      /\ taken'[n + 1] = f
  OBVIOUS
<1>2. 1 .. n + 1 = 1 .. n \cup {n + 1}
  BY <1>1
<1> HIDE DEF n
<1>3. (\E j \in DOMAIN taken' : SaysSo(taken'[j]))
        <=> SaysSo(f) \/ \E j \in DOMAIN taken : SaysSo(taken[j])
  BY <1>1, <1>2
<1>4. authenticated' = TRUE <=> authenticated = TRUE \/ SaysSo(f)
  BY DEF Authenticates, SaysSo
<1> QED BY <1>3, <1>4

\* A frame is read and given to nobody: it was not due, and does not authenticate.
LEMMA FramePassedBy ==
    ASSUME HandedInv, NEW f \in Frames, taken' = Append(taken, f), handed' = handed,
           buffer' = <<>>, ~HandsOver(f),
           authenticated' = (authenticated \/ Authenticates(f))
    PROVE  HandedInv'
<1>1. taken \in Seq(Frames) /\ taken' \in Seq(Frames)
  BY DEF HandedInv
<1>2. authenticated = TRUE <=> \E j \in DOMAIN taken : SaysSo(taken[j])
  BY DEF HandedInv
<1>3. ~(IsArray(f) /\ authenticated = TRUE)
  BY DEF HandsOver
<1>4. Due' = Due /\ \A i \in Due : DueUpTo(i)' = DueUpTo(i)
  BY <1>1, <1>2, <1>3, OneMoreFrame
<1>5. \A i \in Due : i \in DOMAIN taken /\ taken'[i] = taken[i]
  BY <1>1 DEF Due
<1>6. HandedInOrder'
  BY <1>4, <1>5 DEF HandedInv, HandedInOrder
<1>7. authenticated' = TRUE <=> \E j \in DOMAIN taken' : SaysSo(taken'[j])
  BY <1>1, <1>2, AuthenticatedByFrames
<1> QED BY <1>1, <1>6, <1>7 DEF HandedInv

\* A frame that is due is the last of the frames due, and its message the last one
\* given to processMessage.
LEMMA FrameHandedOver ==
    ASSUME HandedInv, NEW f \in Frames, taken' = Append(taken, f), HandsOver(f),
           handed' = Append(handed, First(f)), buffer' = <<>>,
           authenticated' = (authenticated \/ Authenticates(f))
    PROVE  HandedInv'
<1>1. taken \in Seq(Frames) /\ taken' \in Seq(Frames)
  BY DEF HandedInv
<1>2. authenticated = TRUE <=> \E j \in DOMAIN taken : SaysSo(taken[j])
  BY DEF HandedInv
<1>3. IsArray(f) /\ authenticated = TRUE
  BY DEF HandsOver
<1> DEFINE n == Len(taken) + 1
<1>4. /\ Due' = Due \cup {n} /\ n \notin Due
      /\ \A i \in Due : DueUpTo(i)' = DueUpTo(i)
      /\ DueUpTo(Len(taken))' = Cardinality(Due')
  BY <1>1, <1>2, <1>3, OneMoreFrame
<1>5. /\ \A i \in Due : i \in DOMAIN taken /\ taken'[i] = taken[i]
      /\ taken'[n] = f /\ Len(taken') = n
  BY <1>1 DEF Due
<1> HIDE DEF n
<1>6. Cardinality(Due') = Cardinality(Due) + 1 /\ Cardinality(Due) \in Nat
  BY <1>1, <1>4, DueIsFinite, FS_AddElement, FS_CardinalityType
<1>7. /\ Len(handed) = Cardinality(Due) /\ handed \in Seq({First(g) : g \in Frames})
      /\ \A i \in Due : handed[DueUpTo(i)] = First(taken[i])
  BY DEF HandedInv, HandedInOrder
<1>8. /\ handed' \in Seq({First(g) : g \in Frames})
      /\ Len(handed') = Len(handed) + 1
      /\ handed'[Len(handed) + 1] = First(f)
      /\ \A i \in 1 .. Len(handed) : handed'[i] = handed[i]
  BY <1>7
<1>9. \A i \in Due : (handed[DueUpTo(i)])' = First(taken[i])'
  <2> TAKE i \in Due
  <2>1. DueUpTo(i) \in 1 .. Len(handed)
    BY <1>1, <1>7, DueIsFinite
  <2> QED BY <1>4, <1>5, <1>7, <1>8, <2>1 DEF First
<1>10. ASSUME NEW i \in Due' PROVE (handed[DueUpTo(i)])' = First(taken[i])'
  <2>1. CASE i \in Due
    BY <1>9, <2>1
  <2>2. CASE i = n
    <3>1. i = Len(taken')
      BY <1>5, <2>2
    <3>2. DueUpTo(i)' = Len(handed) + 1
      BY <1>4, <1>6, <1>7, <3>1
    <3> QED BY <1>5, <1>8, <2>2, <3>2 DEF First
  <2> QED BY <1>4, <2>1, <2>2
<1>11. HandedInOrder'
  BY <1>6, <1>7, <1>8, <1>4, <1>10 DEF HandedInOrder
<1>12. authenticated' = TRUE <=> \E j \in DOMAIN taken' : SaysSo(taken'[j])
  BY <1>1, <1>2, AuthenticatedByFrames
<1> QED BY <1>1, <1>8, <1>11, <1>12 DEF HandedInv

LEMMA HandedInvStep == HandedInv /\ [SessionNext]_sessionVars => HandedInv'
<1> SUFFICES ASSUME HandedInv, [SessionNext]_sessionVars PROVE HandedInv'
  OBVIOUS
<1>1. ASSUME UNCHANGED <<taken, handed, buffer, authenticated>> PROVE HandedInv'
  <2>1. Due' = Due /\ \A i \in Due : DueUpTo(i)' = DueUpTo(i)
    BY <1>1 DEF Due, DueUpTo
  <2>2. HandedInOrder'
    BY <1>1, <2>1 DEF HandedInv, HandedInOrder
  <2> QED BY <1>1, <2>2 DEF HandedInv
<1>2. \A f : Append(<<>>, f) = <<f>> /\ Head(<<f>>) = f
  OBVIOUS
<1>3. ASSUME NEW f \in Frames, OnRead(f) PROVE HandedInv'
  <2>1. /\ taken' = Append(taken, f) /\ buffer' = <<>>
        /\ authenticated' = (authenticated \/ Authenticates(f))
        /\ handed' = IF HandsOver(f) THEN Append(handed, First(f)) ELSE handed
    BY <1>2, <1>3 DEF HandedInv, OnRead, Receive, Consumed
  <2> QED BY <2>1, FramePassedBy, FrameHandedOver
<1>4. ASSUME NEW f \in Frames, OnReadThrows(f) PROVE HandedInv'
  <2>1. /\ taken' = Append(taken, f) /\ buffer' = <<>> /\ handed' = handed
        /\ authenticated' = authenticated /\ Throws(f)
    BY <1>2, <1>4 DEF HandedInv, OnReadThrows, Receive, Consumed
  <2>2. ~HandsOver(f) /\ ~Authenticates(f)
    BY <2>1 DEF Throws, HandsOver, Authenticates, SaysAuthenticated
  <2>3. authenticated' = (authenticated \/ Authenticates(f))
    BY <2>1, <2>2 DEF HandedInv
  <2> QED BY <2>1, <2>2, <2>3, FramePassedBy
<1>5. [SessionNext]_sessionVars =>
            \/ \E f \in Frames : OnRead(f) \/ OnReadThrows(f)
            \/ UNCHANGED <<taken, handed, buffer, authenticated>>
  BY DEF SessionNext, Chain, Start, OnStep, OnStepError, OnHandshake, NoCredentials, OnAuthWrite,
         OnAuthWriteError, OnWrite, OnReadError, Destroy, HandlerReturns, sessionVars, streamVars,
         historyVars
<1> QED BY <1>1, <1>3, <1>4, <1>5

\* Every array behind the authentication reaches processMessage, in order and
\* once, however the stream, its writes and its failures fall
\* (Websocket.cpp:197-242).
THEOREM ArraysReachTheBot == SessionSpec => []HandedInOrder
<1>1. HandedInv => HandedInOrder
  BY DEF HandedInv
<1> QED BY <1>1, HandedInvInit, HandedInvStep, PTL DEF SessionSpec

-----------------------------------------------------------------------------

\* The bot adds no step to its session: under the bot, with the order book at
\* work inside processMessage, the session is still the session of
\* Websocket.cpp.
THEOREM BotImplementsSession == FeedSpec => SessionSpec
<1>1. FeedInit => SessionInit
  BY DEF FeedInit
<1>2. [FeedNext]_feedVars => [SessionNext]_sessionVars
  <2> SUFFICES ASSUME [FeedNext]_feedVars PROVE [SessionNext]_sessionVars
    OBVIOUS
  <2>1. CASE Chain
    BY <2>1 DEF SessionNext
  <2>2. ASSUME NEW f \in Frames, FeedReads(f) PROVE SessionNext
    BY <2>2 DEF FeedReads, SessionNext
  <2>3. CASE FeedHandles
    BY <2>3 DEF FeedHandles
  <2>4. CASE FeedReturns
    BY <2>4 DEF FeedReturns, SessionNext
  <2>5. CASE UNCHANGED feedVars
    BY <2>5 DEF feedVars
  <2> QED BY <2>1, <2>2, <2>3, <2>4, <2>5 DEF FeedNext
<1> QED BY <1>1, <1>2, PTL DEF FeedSpec, SessionSpec

\* With it the three invariants hold of the running bot.
THEOREM BotSessionSafe ==
    FeedSpec => [](OneOperationEach /\ DeafOnlyAfterTrouble /\ HandedInOrder)
  BY BotImplementsSession, SessionOneOperation, SessionNotDeaf, ArraysReachTheBot, PTL

-----------------------------------------------------------------------------
(* Ids of the order book. *)

\* A call of the strategy that was given the counter as it stands.
WithCounter(at) == [at |-> at, id |-> counter, quote |-> MakerQuote]

\* The order the thread has asked for is the bot's, whose id has been handed out,
\* or the strategy's.
AskedFor ==
    \/ maker[Feed] = None /\ call[Feed].id \in Int /\ call[Feed].id < counter
    \/ maker[Feed] = WithCounter("buying") /\ call[Feed] = BuyOrder(maker[Feed])
    \/ maker[Feed] = WithCounter("selling") /\ call[Feed] = SellOrder(maker[Feed])

IsRecord(o) ==
    o = [type |-> o.type, side |-> o.side, price |-> o.price, remaining |-> o.remaining]

\* An order that AheadOnlyTheMaker allows under id i when the counter is n.
Allowed(i, o, n) ==
    i >= n =>
        LET m == [id |-> i, quote |-> MakerQuote]
        IN  /\ i <= n + 1
            /\ i = n + 1 => o.side = "Sell"
            /\ o.price = IF o.side = "Buy" THEN BuyOrder(m).price ELSE SellOrder(m).price

OrdersOK ==
    \A i \in DOMAIN orders : i \in Int /\ IsRecord(orders[i]) /\ Allowed(i, orders[i], counter)

CounterInv ==
    /\ counter \in Int
    /\ Feed \in DOMAIN pc /\ Feed \in DOMAIN call /\ Feed \in DOMAIN maker
    /\ maker[Feed] # None => \E at : maker[Feed] = WithCounter(at)
    /\ pc[Feed] # "idle" => AskedFor
    /\ OrdersOK

\* A counter that moves on meets the strategy's orders ahead of it, and passes them.
LEMMA AllowedAfterNext ==
    ASSUME NEW i \in Int, NEW o, NEW n \in Int, Allowed(i, o, n)
    PROVE  Allowed(i, o, n + 1)
BY DEF Allowed

\* Matching and cancelling add no order and change none but for what it still wants.
LEMMA OrdersRemain ==
    ASSUME OrdersOK, counter' = counter, DOMAIN orders' \subseteq DOMAIN orders,
           \A i \in DOMAIN orders' :
                /\ IsRecord(orders'[i])
                /\ orders'[i].side = orders[i].side /\ orders'[i].price = orders[i].price
    PROVE  OrdersOK'
BY DEF OrdersOK, Allowed, BuyOrder, SellOrder

LEMMA FilledRecord ==
    ASSUME NEW o, IsRecord(o), NEW q
    PROVE  /\ IsRecord(Fill(o, q))
           /\ Fill(o, q).side = o.side /\ Fill(o, q).price = o.price
<1> DEFINE kind == o.type
           side == o.side
           price == o.price
           wants == o.remaining
<1>1. o = [type |-> kind, side |-> side, price |-> price, remaining |-> wants]
  BY DEF IsRecord
<1> HIDE DEF kind, side, price, wants
<1> QED BY <1>1 DEF Fill, IsRecord

LEMMA MatchingOrders ==
    ASSUME OrdersOK, counter' = counter, MatchTrade(Feed)
    PROVE  OrdersOK'
<1>1. PICK b, a : orders' = WithoutFilled(Filled(b, a), {b, a})
  BY DEF MatchTrade
<1> DEFINE q == TradeQuantity(b, a)
<1>2. Filled(b, a) = [orders EXCEPT ![b] = Fill(orders[b], q), ![a] = Fill(orders[a], q)]
  BY DEF Filled
<1> HIDE DEF q
<1>3. DOMAIN Filled(b, a) = DOMAIN orders
  BY <1>2
<1>4. \A i \in DOMAIN orders :
            Filled(b, a)[i] = orders[i] \/ Filled(b, a)[i] = Fill(orders[i], q)
  BY <1>2
<1>5. \A i \in DOMAIN orders :
            /\ IsRecord(Filled(b, a)[i])
            /\ Filled(b, a)[i].side = orders[i].side /\ Filled(b, a)[i].price = orders[i].price
  BY <1>4, FilledRecord DEF OrdersOK
<1>6. /\ DOMAIN orders' \subseteq DOMAIN orders
      /\ \A i \in DOMAIN orders' : orders'[i] = Filled(b, a)[i]
  BY <1>1, <1>3 DEF WithoutFilled, Restrict
<1> QED BY <1>5, <1>6, OrdersRemain

\* What enters the index is what the thread has asked for.
LEMMA AddingOrders ==
    ASSUME CounterInv, counter' = counter, AddOrder(Feed)
    PROVE  OrdersOK'
<1> DEFINE c == call[Feed]
           o == [type |-> c.type, side |-> c.side, price |-> c.price, remaining |-> c.quantity]
<1>1. /\ orders' = [i \in DOMAIN orders \cup {c.id} |-> IF i = c.id THEN o ELSE orders[i]]
      /\ pc[Feed] = "waiting"
  BY DEF AddOrder, Enters
<1>2. IsRecord(o) /\ o.side = c.side /\ o.price = c.price
  BY DEF IsRecord
<1>3. AskedFor
  BY <1>1 DEF CounterInv
<1>4. c.id \in Int /\ Allowed(c.id, o, counter)
  <2>1. CASE maker[Feed] = None /\ c.id \in Int /\ c.id < counter
    BY <2>1 DEF Allowed, CounterInv
  <2>2. CASE maker[Feed] = WithCounter("buying") /\ c = BuyOrder(maker[Feed])
    <3>1. /\ c.id = counter /\ c.side = "Buy"
          /\ c.price = ToPrice(MakerQuote.bid + HalfThreshold)
      BY <2>2 DEF BuyOrder, WithCounter
    <3> QED BY <3>1, <1>2 DEF Allowed, BuyOrder, CounterInv
  <2>3. CASE maker[Feed] = WithCounter("selling") /\ c = SellOrder(maker[Feed])
    <3>1. /\ c.id = counter + 1 /\ c.side = "Sell"
          /\ c.price = ToPrice(MakerQuote.ask - HalfThreshold)
      BY <2>3 DEF SellOrder, WithCounter
    <3> QED BY <3>1, <1>2 DEF Allowed, SellOrder, CounterInv
  <2> QED BY <2>1, <2>2, <2>3, <1>3 DEF AskedFor
<1> HIDE DEF c, o
<1>5. /\ DOMAIN orders' = DOMAIN orders \cup {c.id}
      /\ \A i \in DOMAIN orders' : orders'[i] = IF i = c.id THEN o ELSE orders[i]
  BY <1>1
<1>6. \A i \in DOMAIN orders' : Allowed(i, orders'[i], counter) => Allowed(i, orders[i], counter)'
  BY DEF Allowed, BuyOrder, SellOrder
<1> QED BY <1>2, <1>4, <1>5, <1>6 DEF CounterInv, OrdersOK

LEMMA CancellingOrders ==
    ASSUME OrdersOK, counter' = counter, CancelOrder(Feed)
    PROVE  OrdersOK'
<1>1. /\ DOMAIN orders' \subseteq DOMAIN orders
      /\ \A i \in DOMAIN orders' : orders'[i] = orders[i]
  BY DEF CancelOrder, Restrict
<1> QED BY <1>1, OrdersRemain DEF OrdersOK

\* A step of the order book lets the thread go on with its call, or ends it.
LEMMA BookKeepsCall ==
    ASSUME CounterInv, BookStep(Feed)
    PROVE  /\ Feed \in DOMAIN pc' /\ Feed \in DOMAIN call'
           /\ pc'[Feed] # "idle" => pc[Feed] # "idle" /\ call'[Feed] = call[Feed]
           /\ maker' = maker
<1> USE DEF CounterInv, Enters, Relock, Return
<1> SUFFICES /\ Feed \in DOMAIN pc' /\ Feed \in DOMAIN call'
             /\ pc'[Feed] # "idle" => pc[Feed] # "idle" /\ call'[Feed] = call[Feed]
  BY DEF BookStep, makerVars
<1>1. CASE AddDuplicate(Feed)
  BY <1>1 DEF AddDuplicate
<1>2. CASE AddFillAndKill(Feed)
  BY <1>2 DEF AddFillAndKill
<1>3. CASE AddOrder(Feed)
  BY <1>3 DEF AddOrder
<1>4. CASE CancelUnknown(Feed)
  BY <1>4 DEF CancelUnknown
<1>5. CASE CancelOrder(Feed)
  BY <1>5 DEF CancelOrder
<1>6. CASE ModifyUnknown(Feed)
  BY <1>6 DEF ModifyUnknown
<1>7. CASE ModifyKnown(Feed)
  BY <1>7 DEF ModifyKnown
<1>8. CASE MatchTrade(Feed)
  BY <1>8 DEF MatchTrade
<1>9. CASE MatchSpin(Feed)
  BY <1>9 DEF MatchSpin, vars
<1>10. CASE MatchDone(Feed)
  BY <1>10 DEF MatchDone
<1> QED
  BY <1>1, <1>2, <1>3, <1>4, <1>5, <1>6, <1>7, <1>8, <1>9, <1>10
     DEF BookStep, EnterCriticalSection, Match

LEMMA BookKeepsOrders ==
    ASSUME CounterInv, counter' = counter, BookStep(Feed)
    PROVE  OrdersOK'
<1>1. OrdersOK
  BY DEF CounterInv
<1>2. CASE AddOrder(Feed)
  BY <1>2, AddingOrders
<1>3. CASE CancelOrder(Feed)
  BY <1>1, <1>3, CancellingOrders
<1>4. CASE MatchTrade(Feed)
  BY <1>1, <1>4, MatchingOrders
<1>5. ASSUME orders' = orders PROVE OrdersOK'
  BY <1>1, <1>5 DEF OrdersOK, Allowed, BuyOrder, SellOrder
<1>6. BookStep(Feed) => \/ AddOrder(Feed) \/ CancelOrder(Feed) \/ MatchTrade(Feed)
                        \/ orders' = orders
  BY DEF BookStep, EnterCriticalSection, Match, AddDuplicate, AddFillAndKill, CancelUnknown,
         ModifyUnknown, ModifyKnown, MatchSpin, MatchDone, book, vars
<1> QED BY <1>2, <1>3, <1>4, <1>5, <1>6

LEMMA BookCounterInv ==
    ASSUME CounterInv, counter' = counter, BookStep(Feed)
    PROVE  CounterInv'
<1>1. OrdersOK'
  BY BookKeepsOrders
<1>2. pc'[Feed] # "idle" => AskedFor'
  BY BookKeepsCall DEF CounterInv, AskedFor, WithCounter, BuyOrder, SellOrder
<1> QED BY <1>1, <1>2, BookKeepsCall DEF CounterInv, WithCounter

\* The strategy asks for its orders with the counter it was given.
LEMMA MakerCounterInv ==
    ASSUME CounterInv, counter' = counter, MakerStep(Feed)
    PROVE  CounterInv'
<1>1. orders' = orders
  BY DEF MakerStep, MakerGuard, MakerBuy, MakerDoesNotBuy, MakerSell, MakerDoesNotSell,
         MakerBought, MakerSold, Invoke, vars, book
<1>2. OrdersOK'
  BY <1>1 DEF CounterInv, OrdersOK, Allowed, BuyOrder, SellOrder
<1>3. PICK at : maker[Feed] = WithCounter(at)
  BY DEF CounterInv, MakerStep, MakerGuard, MakerBuy, MakerDoesNotBuy, MakerSell,
         MakerDoesNotSell, MakerBought, MakerSold, MakerAt
<1>4. ASSUME NEW stage2, MoveTo(Feed, stage2)
      PROVE  Feed \in DOMAIN maker' /\ maker'[Feed] = WithCounter(stage2)
  BY <1>3, <1>4 DEF MoveTo, WithCounter, CounterInv
<1>5. ASSUME Hold(Feed)
      PROVE  Feed \in DOMAIN maker' /\ maker'[Feed] = None
  BY <1>5 DEF Hold, CounterInv
<1>6. \A stage2 : WithCounter(stage2)' = WithCounter(stage2)
  BY DEF WithCounter
<1>7. ASSUME UNCHANGED vars, pc[Feed] = "idle",
             Hold(Feed) \/ MoveTo(Feed, "read") \/ MoveTo(Feed, "reread")
      PROVE  CounterInv'
  BY <1>2, <1>4, <1>5, <1>6, <1>7 DEF CounterInv, vars
<1>8. MakerAt(Feed, "guard") \/ MakerAt(Feed, "read") \/ MakerAt(Feed, "reread") => pc[Feed] = "idle"
  BY <1>3 DEF MakerAt, CounterInv, AskedFor, WithCounter
<1>9. CASE MakerGuard(Feed)
  BY <1>9, <1>8, <1>7 DEF MakerGuard
<1>10. CASE MakerDoesNotBuy(Feed)
  BY <1>10, <1>8, <1>7 DEF MakerDoesNotBuy
<1>11. CASE MakerDoesNotSell(Feed)
  BY <1>11, <1>8, <1>7 DEF MakerDoesNotSell
<1>12. CASE MakerBought(Feed)
  BY <1>12, <1>7 DEF MakerBought
<1>13. CASE MakerSold(Feed)
  BY <1>13, <1>7 DEF MakerSold
<1>14. CASE MakerBuy(Feed)
  <2>1. maker'[Feed] = WithCounter("buying")' /\ Feed \in DOMAIN maker'
    BY <1>14, <1>4, <1>6 DEF MakerBuy
  <2>2. BuyOrder(maker[Feed]) = BuyOrder(WithCounter("buying"))
    BY <1>3 DEF BuyOrder, WithCounter
  <2>3. call'[Feed] = BuyOrder(maker[Feed]) /\ Feed \in DOMAIN pc' /\ Feed \in DOMAIN call'
    BY <1>14 DEF MakerBuy, Invoke, CounterInv
  <2>4. call'[Feed] = BuyOrder(maker'[Feed])
    BY <2>1, <2>2, <2>3, <1>6
  <2> QED BY <1>2, <2>1, <2>3, <2>4 DEF CounterInv, AskedFor, BuyOrder
<1>15. CASE MakerSell(Feed)
  <2>1. maker'[Feed] = WithCounter("selling")' /\ Feed \in DOMAIN maker'
    BY <1>15, <1>4, <1>6 DEF MakerSell
  <2>2. SellOrder(maker[Feed]) = SellOrder(WithCounter("selling"))
    BY <1>3 DEF SellOrder, WithCounter
  <2>3. call'[Feed] = SellOrder(maker[Feed]) /\ Feed \in DOMAIN pc' /\ Feed \in DOMAIN call'
    BY <1>15 DEF MakerSell, Invoke, CounterInv
  <2>4. call'[Feed] = SellOrder(maker'[Feed])
    BY <2>1, <2>2, <2>3, <1>6
  <2> QED BY <1>2, <2>1, <2>3, <2>4 DEF CounterInv, AskedFor, SellOrder
<1> QED BY <1>9, <1>10, <1>11, <1>12, <1>13, <1>14, <1>15 DEF MakerStep

\* The bot asks for an order of its own, and hands its id out.
LEMMA BotOrderCounterInv ==
    ASSUME CounterInv, FeedFree, NEW side, NEW price, NEW quantity,
           Invoke(Feed, NewOrder(side, price, quantity)), counter' = NextId, UNCHANGED makerVars
    PROVE  CounterInv'
<1>1. /\ counter' = counter + 1 /\ counter \in Int
      /\ maker' = maker /\ maker[Feed] = None /\ orders' = orders
      /\ call'[Feed].id = counter /\ Feed \in DOMAIN pc' /\ Feed \in DOMAIN call'
  BY DEF CounterInv, FeedFree, Invoke, NewOrder, NextId, makerVars, book
<1>2. AskedFor'
  BY <1>1 DEF AskedFor
<1>3. \A i \in DOMAIN orders : Allowed(i, orders[i], counter + 1)
  BY <1>1, AllowedAfterNext DEF CounterInv, OrdersOK
<1>4. OrdersOK'
  BY <1>1, <1>3 DEF CounterInv, OrdersOK, Allowed, BuyOrder, SellOrder
<1> QED BY <1>1, <1>2, <1>4 DEF CounterInv

LEMMA SameCounterInv == CounterInv /\ UNCHANGED <<allVars, counter>> => CounterInv'
<1> SUFFICES ASSUME CounterInv, UNCHANGED <<allVars, counter>> PROVE CounterInv'
  OBVIOUS
<1>1. orders' = orders /\ pc' = pc /\ call' = call /\ maker' = maker /\ counter' = counter
  BY DEF allVars, vars, makerVars
<1>2. OrdersOK'
  BY <1>1 DEF CounterInv, OrdersOK, Allowed, BuyOrder, SellOrder
<1> QED BY <1>1, <1>2 DEF CounterInv, AskedFor, WithCounter, BuyOrder, SellOrder

LEMMA CounterInvInit == FeedInit => CounterInv
<1> SUFFICES ASSUME FeedInit PROVE CounterInv
  OBVIOUS
<1>1. /\ counter = 0 /\ maker = [t \in Threads |-> None] /\ pc = [t \in Threads |-> "idle"]
      /\ call = [t \in Threads |-> None] /\ orders = [i \in {} |-> <<>>] /\ Feed \in Threads
  BY BotAssumption DEF FeedInit, BotInit, MakerInit, Init
<1> QED BY <1>1 DEF CounterInv, OrdersOK

LEMMA CounterInvStep == CounterInv /\ [FeedNext]_feedVars => CounterInv'
<1> SUFFICES ASSUME CounterInv, [FeedNext]_feedVars PROVE CounterInv'
  OBVIOUS
<1>1. ASSUME UNCHANGED systemVars PROVE CounterInv'
  BY <1>1, SameCounterInv DEF systemVars, botVars
<1>2. CASE Chain /\ UNCHANGED systemVars
  BY <1>1, <1>2
<1>3. ASSUME NEW f \in Frames, FeedReads(f) PROVE CounterInv'
  BY <1>1, <1>3, SameCounterInv DEF FeedReads, OnQuote
<1>4. CASE FeedReturns
  BY <1>1, <1>4 DEF FeedReturns
<1>5. CASE UNCHANGED feedVars
  BY <1>1, <1>5 DEF feedVars
<1>6. CASE AddAtAsk
  BY <1>6, BotOrderCounterInv, SameCounterInv DEF AddAtAsk
<1>7. CASE AddAtBid
  BY <1>7, BotOrderCounterInv, SameCounterInv DEF AddAtBid
<1>8. CASE RunStrategy
  <2>1. /\ counter' = counter /\ pc' = pc /\ call' = call /\ orders' = orders
        /\ maker' = [maker EXCEPT ![Feed] = WithCounter("guard")] /\ pc[Feed] = "idle"
    BY <1>8 DEF RunStrategy, MakerCall, WithCounter, vars
  <2>2. Feed \in DOMAIN maker' /\ maker'[Feed] = WithCounter("guard")'
    BY <2>1 DEF CounterInv, WithCounter
  <2>3. OrdersOK'
    BY <2>1 DEF CounterInv, OrdersOK, Allowed, BuyOrder, SellOrder
  <2> QED BY <2>1, <2>2, <2>3 DEF CounterInv
<1>9. CASE Inside
  BY <1>9, MakerCounterInv, BookCounterInv DEF Inside, botVars
<1> QED BY <1>2, <1>3, <1>4, <1>5, <1>6, <1>7, <1>8, <1>9 DEF FeedNext, FeedHandles

\* An id CounterId has not handed out is in the order book only as an order of
\* the strategy, at the strategy's price and at most one id further on
\* (OrderBook-Bot.cpp:97-133, order_book.cpp:217-263).
THEOREM AheadIsTheMakers == FeedSpec => []AheadOnlyTheMaker
<1>1. CounterInv => AheadOnlyTheMaker
  BY DEF CounterInv, OrdersOK, Allowed, AheadOnlyTheMaker
<1> QED BY <1>1, CounterInvInit, CounterInvStep, PTL DEF FeedSpec
=============================================================================
