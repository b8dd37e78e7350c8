------------------------- MODULE ComputingServerProofs -------------------------
(***************************************************************************)
(* What holds of the programs of the computing server: of the candle bots   *)
(* for candles of any size, any periods, bars and histories, and runs of    *)
(* any length; of the back-tester for any prices and any number of days; of *)
(* the tasks of CCI for any number of values and threads; and so of the     *)
(* server, whichever of them and the indicators it is built to run.         *)
(***************************************************************************)
EXTENDS ComputingServer, IndicatorProofs

-----------------------------------------------------------------------------
(* The extremes of a candle exist. *)

LEMMA AggregatedIsCandle ==
    ASSUME NEW w \in Seq(Candle), Len(w) > 0
    PROVE  Aggregated(w) \in Candle
<1>1. /\ Len(w) \in Nat /\ DOMAIN w = 1 .. Len(w)
      /\ \A i \in DOMAIN w : w[i] \in Candle
  BY LenProperties, ElementOfSeq
<1>5. \A i \in DOMAIN w : w[i].high \in Nat /\ w[i].low \in Nat /\ w[i].close \in Nat
  BY <1>1 DEF Candle
<1>2. Highest(w) \in Nat
  <2>1. PICK n \in Nat : Len(w) = n + 1
    <3>1. Len(w) - 1 \in Nat /\ Len(w) = Len(w) - 1 + 1
      BY <1>1
    <3> QED BY <3>1
  <2> DEFINE f == [i \in 1 .. n + 1 |-> w[i].high]
  <2>2. f \in [1 .. n + 1 -> Nat]
    BY <1>1, <1>5, <2>1
  <2>3. PICK i \in 1 .. n + 1 : \A j \in 1 .. n + 1 : f[j] <= f[i]
    <3> HIDE DEF f
    <3> QED BY <2>2, HasGreatest DEF GreatestUpTo
  <2>4. /\ w[i].high \in {w[j].high : j \in DOMAIN w}
        /\ \A j \in DOMAIN w : w[j].high <= w[i].high
    BY <1>1, <2>1, <2>3
  <2>5. Highest(w) \in {w[j].high : j \in DOMAIN w}
    BY <2>4 DEF Highest
  <2> QED BY <1>5, <2>5
<1>3. Lowest(w) \in Nat
  <2> DEFINE T == {w[j].low : j \in DOMAIN w}
  <2>1. T \in SUBSET Nat /\ T # {}
    BY <1>1, <1>5
  <2>2. PICK x \in T : \A y \in T : x <= y
    <3> HIDE DEF T
    <3> QED BY <2>1, LeastOfSet
  <2>3. x \in T /\ \A j \in DOMAIN w : w[j].low >= x
    BY <1>1, <2>1, <2>2
  <2>4. Lowest(w) \in T
    BY <2>3 DEF Lowest
  <2> QED BY <2>1, <2>4
<1>4. Last(w).close \in Nat
  BY <1>1, <1>5 DEF Last
<1> QED BY <1>2, <1>3, <1>4 DEF Aggregated, Candle

-----------------------------------------------------------------------------
(* Types. *)

LEMMA TwoAndOne ==
    ASSUME NEW a, NEW b, NEW c
    PROVE  Append(<<a, b>>, c) = <<a, b, c>>
<1>1. <<a, b>> \in Seq({a, b, c}) /\ Len(<<a, b>>) = 2
  OBVIOUS
<1>2. /\ Append(<<a, b>>, c) \in Seq({a, b, c}) /\ <<a, b, c>> \in Seq({a, b, c})
      /\ Len(Append(<<a, b>>, c)) = 3 /\ Len(<<a, b, c>>) = 3
      /\ \A i \in 1 .. 3 : Append(<<a, b>>, c)[i] = <<a, b, c>>[i]
  BY <1>1
<1> QED BY <1>2, SeqEqual

\* EMA is never asked with too little data: SMA, asked before it, has thrown.
LEMMA NoOverrun ==
    ASSUME BotTypeOK
    PROVE  FirstTrouble(strategy) # "overruns"
<1> DEFINE bad == {k \in DOMAIN Asked[strategy] :
                     TooLittle(Asked[strategy][k]) \/ Overruns(Asked[strategy][k])}
           first == CHOOSE k \in bad : \A j \in bad : k <= j
<1>1. strategy \in AllStrategies
  BY BotAssumption DEF BotTypeOK
<1>2. /\ DOMAIN Asked[strategy] \subseteq 1 .. 3
      /\ \A k \in DOMAIN Asked[strategy] :
           Asked[strategy][k] = "EMA" =>
             k = 2 /\ 1 \in DOMAIN Asked[strategy] /\ Asked[strategy][1] = "SMA"
  <2>1. CASE strategy = "TrendFollowing"
    <3>1. Asked[strategy] = Append(<<"SMA", "EMA">>, "ADX")
      BY <1>1, <2>1 DEF AllStrategies, Asked, Class, BOT_Trend_Following, SmaFirst
    <3>2. Append(<<"SMA", "EMA">>, "ADX") = <<"SMA", "EMA", "ADX">>
      BY TwoAndOne
    <3>3. Asked[strategy] = <<"SMA", "EMA", "ADX">>
      BY <3>1, <3>2
    <3> QED BY <3>3
  <2>2. CASE strategy = "TestBot"
    <3>1. Asked[strategy] = <<"SMA", "EMA">>
      BY <1>1, <2>2 DEF AllStrategies, Asked, Class, TestBOT, SmaFirst
    <3> QED BY <3>1
  <2>3. CASE strategy = "MeanReversion"
    <3>1. Asked[strategy] = <<"RSI", "Bands">>
      BY <1>1, <2>3 DEF AllStrategies, Asked, Class, Mean_Reversion
    <3> QED BY <3>1
  <2>4. CASE strategy = "Reversal"
    <3>1. Asked[strategy] = <<"Stochastic">>
      BY <1>1, <2>4 DEF AllStrategies, Asked, Class, Reversal_Fibonacci_Retracement
    <3> QED BY <3>1
  <2>5. CASE strategy = "VolatilityBreakout"
    <3>1. Asked[strategy] = <<"ATR", "VWAP">>
      BY <1>1, <2>5 DEF AllStrategies, Asked, Class, Volatility_Breakout
    <3> QED BY <3>1
  <2> QED BY <1>1, <2>1, <2>2, <2>3, <2>4, <2>5 DEF AllStrategies
<1>3. SUFFICES ASSUME bad # {}, ~ TooLittle(Asked[strategy][first])
               PROVE  FALSE
  BY DEF FirstTrouble
<1>4. first \in bad /\ \A j \in bad : first <= j
  <2>1. bad \in SUBSET Nat
    BY <1>2
  <2>2. \E k \in bad : \A j \in bad : k <= j
    <3> HIDE DEF bad
    <3> QED BY <1>3, <2>1, LeastOfSet
  <2> HIDE DEF bad
  <2> QED BY <2>2
<1>5. Overruns(Asked[strategy][first]) /\ first \in DOMAIN Asked[strategy]
  BY <1>3, <1>4
<1>6. /\ Asked[strategy][first] = "EMA" /\ first = 2
      /\ 1 \in DOMAIN Asked[strategy] /\ Asked[strategy][1] = "SMA"
      /\ Len(history) < Period["EMA"]
  BY <1>2, <1>5 DEF Overruns
<1>7. Len(history) < Period["SMA"]
  <2>1. Len(history) \in Nat /\ Period["EMA"] \in Nat /\ Period["SMA"] \in Nat
    BY BotAssumption DEF BotTypeOK
  <2> QED BY <1>6, <2>1, BotAssumption
<1>8. TooLittle("SMA")
  BY <1>7 DEF TooLittle
<1>9. 1 \in bad
  BY <1>6, <1>8
<1> QED BY <1>4, <1>6, <1>9

LEMMA OutcomesOfDecide ==
    ASSUME BotTypeOK
    PROVE  Outcomes \subseteq {"loop", Order} /\ Order \in {"buy", "sell"}
<1>1. Decisions \subseteq {"loop", Order}
  BY DEF Decisions
<1> QED BY <1>1, NoOverrun DEF Outcomes, Order

LEMMA TypeInit == BotInit => BotTypeOK
<1> SUFFICES ASSUME BotInit
             PROVE  BotTypeOK
  OBVIOUS
<1>1. history \in Seq(Candle) /\ window \in Seq(Candle) /\ taken \in Seq(Candle)
  BY EmptySeq DEF BotInit
<1>2. running \in BOOLEAN /\ stopped \in BOOLEAN /\ positionOpen \in BOOLEAN
  BY Zenon DEF BotInit
<1>3. /\ strategy \in Strategies /\ stage = "built" /\ redis = "none" /\ body = "none"
      /\ loaded \in Nat /\ missed \in Nat /\ late \in Nat /\ shares \in Int
  BY DEF BotInit
<1> QED BY <1>1, <1>2, <1>3 DEF BotTypeOK

\* What the services answer.
LEMMA BarsAreCandles == Bars \cup {NoBar} \subseteq Candle
BY BotAssumption DEF NoBar, Candle

LEMMA TypeStep ==
    ASSUME BotTypeOK, [BotNext]_botVars
    PROVE  BotTypeOK'
<1> USE DEF BotTypeOK, dataVars, brokerVars
<1>1. CASE UNCHANGED botVars
  BY <1>1 DEF botVars
<1>2. ASSUME NEW h \in Histories, NEW connects \in BOOLEAN, Initialize(h, connects)
      PROVE  BotTypeOK'
  <2>1. h \in Seq(Candle) /\ Len(h) \in Nat
    BY BotAssumption, LenProperties
  <2>2. redis' \in {"none", "open", "freed"} /\ stage' \in {"ready", "crashed"}
    BY <1>2 DEF Initialize, AfterConnect
  <2> QED BY <1>2, <2>1, <2>2 DEF Initialize, AfterConnect
<1>3. CASE RunBegins
  BY <1>3 DEF RunBegins
<1>4. CASE Iterate
  <2>1. stage' \in {"clock", "bar"}
    BY <1>4 DEF Iterate
  <2> QED BY <1>4, <2>1 DEF Iterate
<1>5. CASE Return
  BY <1>5 DEF Return
<1>6. CASE AskClock
  <2>1. stage' \in {"bar", "loop", "crashed"}
    BY <1>6 DEF AskClock, UsesBody
  <2> QED BY <1>6, <2>1 DEF AskClock, UsesBody
<1>7. CASE MissBar
  BY <1>7 DEF MissBar
<1>8. ASSUME NEW b \in Bars \cup {NoBar}, TakeBar(b)
      PROVE  BotTypeOK'
  <2> DEFINE w == Append(window, b)
  <2>1. b \in Candle
    BY BarsAreCandles
  <2>2. w \in Seq(Candle) /\ Len(w) > 0 /\ Append(taken, b) \in Seq(Candle)
    <3>1. w \in Seq(Candle) /\ Append(taken, b) \in Seq(Candle)
          /\ Len(w) = Len(window) + 1 /\ Len(window) \in Nat
      BY <2>1
    <3> QED BY <3>1
  <2>3. Aggregated(w) \in Candle
    <3> HIDE DEF w
    <3> QED BY <2>2, AggregatedIsCandle
  <2>4. Append(history, Aggregated(w)) \in Seq(Candle)
    <3> HIDE DEF w
    <3> QED BY <2>3
  <2>5. history' \in Seq(Candle) /\ window' \in Seq(Candle) /\ taken' \in Seq(Candle)
    BY <1>8, <2>2, <2>4, EmptySeq DEF TakeBar, Cleared
  <2>6. stage' \in {"decide", "loop", "crashed"}
    BY <1>8 DEF TakeBar, AfterPublish
  <2> QED BY <1>8, <2>5, <2>6 DEF TakeBar
<1>9. CASE Decide
  <2>1. stage' \in {"loop", "buy", "sell"}
    BY <1>9, OutcomesOfDecide DEF Decide
  <2> QED BY <1>9, <2>1 DEF Decide
<1>10. ASSUME NEW executed \in BOOLEAN, Post(executed)
       PROVE  BotTypeOK'
  <2>1. shares' \in Int /\ missed' \in Nat /\ late' \in Nat
    BY <1>10 DEF Post
  <2>2. positionOpen' \in BOOLEAN
    BY <1>10 DEF Post, Believed
  <2> QED BY <1>10, <2>1, <2>2 DEF Post
<1>11. CASE Stop
  BY <1>11 DEF Stop
<1>12. CASE Join
  <2>1. stage' \in {"joined", "crashed"}
    BY <1>12 DEF Join, AfterPublish
  <2> QED BY <1>12, <2>1 DEF Join
<1> QED BY <1>1, <1>2, <1>3, <1>4, <1>5, <1>6, <1>7, <1>8, <1>9, <1>10, <1>11, <1>12
        DEF BotNext, BotThread

(* Every history is of candles, every counter a number, whatever the services     *)
(* answer (Mean-Reversion-Strategy.cpp:62-173).                                    *)
THEOREM BotTypeCorrect == BotSpec => []BotTypeOK
BY TypeInit, TypeStep, PTL DEF BotSpec

-----------------------------------------------------------------------------
(* Bars and candles. *)

LEMMA AppendElements ==
    ASSUME NEW S, NEW s \in Seq(S), NEW e \in S
    PROVE  /\ Append(s, e) \in Seq(S)
           /\ Len(s) \in Nat
           /\ Len(Append(s, e)) = Len(s) + 1
           /\ \A i \in 1 .. Len(s) : Append(s, e)[i] = s[i]
           /\ Append(s, e)[Len(s) + 1] = e
OBVIOUS

\* The part of a sequence that ends before an appended element is what it was.
LEMMA PartBeforeAppended ==
    ASSUME NEW S, NEW s \in Seq(S), NEW e \in S,
           NEW i \in Nat \ {0}, NEW j \in Nat, j <= Len(s)
    PROVE  SubSeq(Append(s, e), i, j) = SubSeq(s, i, j)
<1> DEFINE t == Append(s, e)
<1>1. /\ t \in Seq(S) /\ Len(s) \in Nat /\ Len(t) = Len(s) + 1
      /\ \A k \in 1 .. Len(s) : t[k] = s[k] /\ s[k] \in S
  OBVIOUS
<1> HIDE DEF t
<1>2. /\ \A k \in i .. j : k \in 1 .. Len(s)
      /\ \A k \in 1 .. j - i + 1 : i + k - 1 \in i .. j
      /\ i \in Int /\ j \in Int
  BY <1>1
<1>3. (\A k \in i .. j : t[k] \in S) /\ (\A k \in i .. j : s[k] \in S)
  BY <1>1, <1>2
<1>4. /\ SubSeq(t, i, j) \in Seq(S) /\ SubSeq(s, i, j) \in Seq(S)
      /\ Len(SubSeq(t, i, j)) = IF i <= j THEN j - i + 1 ELSE 0
      /\ Len(SubSeq(s, i, j)) = IF i <= j THEN j - i + 1 ELSE 0
      /\ \A k \in 1 .. j - i + 1 : SubSeq(t, i, j)[k] = t[i + k - 1]
      /\ \A k \in 1 .. j - i + 1 : SubSeq(s, i, j)[k] = s[i + k - 1]
  BY <1>2, <1>3, SubSeqProperties
<1>5. /\ \A k \in 1 .. j - i + 1 : t[i + k - 1] = s[i + k - 1]
      /\ 1 .. Len(SubSeq(s, i, j)) \subseteq 1 .. j - i + 1
  BY <1>1, <1>2, <1>4
<1>6. SubSeq(t, i, j) = SubSeq(s, i, j)
  BY <1>4, <1>5, SeqEqual
<1> QED BY <1>6 DEF t

\* The part that ends with it is one longer.
LEMMA PartWithAppended ==
    ASSUME NEW S, NEW s \in Seq(S), NEW e \in S,
           NEW i \in 1 .. Len(s) + 1
    PROVE  SubSeq(Append(s, e), i, Len(s) + 1) = Append(SubSeq(s, i, Len(s)), e)
<1> DEFINE t == Append(s, e)
           n == Len(s)
           u == SubSeq(s, i, n)
           v == SubSeq(t, i, n + 1)
<1>1. /\ t \in Seq(S) /\ n \in Nat /\ Len(t) = n + 1
      /\ \A k \in 1 .. n : t[k] = s[k] /\ s[k] \in S
      /\ t[n + 1] = e
  OBVIOUS
<1> HIDE DEF t, n
<1>2. /\ \A k \in i .. n : k \in 1 .. n
      /\ \A k \in i .. n + 1 : k \in 1 .. n \/ k = n + 1
      /\ i \in Int /\ n \in Int /\ n + 1 \in Int /\ i <= n + 1
  BY <1>1 DEF n
<1>3. (\A k \in i .. n + 1 : t[k] \in S) /\ (\A k \in i .. n : s[k] \in S)
  <2>1. \A k \in 1 .. n + 1 : t[k] \in S
    <3>1. \A k \in 1 .. n + 1 : k \in 1 .. n \/ k = n + 1
      BY <1>1
    <3> QED BY <1>1, <3>1
  <2>2. \A k \in i .. n + 1 : k \in 1 .. n + 1
    BY <1>2
  <2> QED BY <1>1, <1>2, <2>1, <2>2
<1>4. /\ u \in Seq(S) /\ Len(u) = (IF i <= n THEN n - i + 1 ELSE 0)
      /\ \A k \in 1 .. n - i + 1 : u[k] = s[i + k - 1]
  BY <1>2, <1>3, SubSeqProperties
<1>5. /\ v \in Seq(S) /\ Len(v) = (IF i <= n + 1 THEN n + 1 - i + 1 ELSE 0)
      /\ \A k \in 1 .. n + 1 - i + 1 : v[k] = t[i + k - 1]
  BY <1>2, <1>3, SubSeqProperties
<1> HIDE DEF u, v
<1>6. Len(u) = n - i + 1 /\ Len(v) = n - i + 2 /\ n - i + 1 \in Nat
  BY <1>2, <1>4, <1>5
<1>7. /\ Append(u, e) \in Seq(S) /\ Len(Append(u, e)) = n - i + 2
      /\ \A k \in 1 .. n - i + 1 : Append(u, e)[k] = u[k]
      /\ Append(u, e)[n - i + 2] = e
  <2>1. /\ Append(u, e) \in Seq(S) /\ Len(Append(u, e)) = Len(u) + 1
        /\ \A k \in 1 .. Len(u) : Append(u, e)[k] = u[k]
        /\ Append(u, e)[Len(u) + 1] = e
    BY <1>4, AppendElements
  <2>2. Len(u) + 1 = n - i + 2
    BY <1>2, <1>6
  <2> QED BY <1>6, <2>1, <2>2
<1>8. ASSUME NEW k \in 1 .. n - i + 2
      PROVE  Append(u, e)[k] = v[k]
  <2>1. v[k] = t[i + k - 1]
    BY <1>2, <1>5, <1>6
  <2>2. CASE k = n - i + 2
    <3>1. i + k - 1 = n + 1
      BY <1>2, <2>2
    <3> QED BY <1>1, <1>7, <2>1, <2>2, <3>1
  <2>3. CASE k # n - i + 2
    <3>1. k \in 1 .. n - i + 1 /\ i + k - 1 \in 1 .. n
      BY <1>2, <2>3
    <3> QED BY <1>1, <1>4, <1>7, <2>1, <3>1
  <2> QED BY <2>2, <2>3
<1>9. Append(u, e) = v
  BY <1>5, <1>6, <1>7, <1>8, SeqEqual
<1> QED BY <1>9 DEF u, v, t, n

LEMMA NextMultiple ==
    ASSUME NEW n \in Nat, NEW c \in Nat
    PROVE  n * c \in Nat /\ n * (c + 1) = n * c + n
OBVIOUS

LEMMA MultiplesGrow ==
    ASSUME NEW n \in Nat, NEW k \in Nat, NEW c \in Nat, k <= c
    PROVE  n * k \in Nat /\ n * c \in Nat /\ n * k <= n * c
<1>1. PICK d \in Nat : c = k + d
  <2>1. c - k \in Nat /\ c = k + (c - k)
    OBVIOUS
  <2> QED BY <2>1
<1>2. n * c = n * k + n * d /\ n * d \in Nat /\ n * k \in Nat
  BY <1>1
<1> QED BY <1>2

\* Nothing has been taken before the bot is initialised.
CandleInv ==
    /\ BotTypeOK
    /\ EveryBarInOneCandle
    /\ stage = "built" => taken = <<>> /\ window = <<>>

LEMMA CandleInit == BotInit => CandleInv
<1> SUFFICES ASSUME BotInit
             PROVE  CandleInv
  OBVIOUS
<1>1. BotTypeOK
  BY TypeInit
<1>2. CandleSize[strategy] \in Nat \ {0}
  BY <1>1, BotAssumption DEF BotTypeOK
<1>3. Candles = 0 /\ Len(window) = 0 /\ Len(taken) = 0
  BY DEF BotInit, Candles
<1>4. SubSeq(taken, CandleSize[strategy] * Candles + 1, Len(taken)) = <<>>
  BY <1>2, <1>3, SubSeqEmpty
<1>5. EveryBarInOneCandle
  BY <1>2, <1>3, <1>4 DEF EveryBarInOneCandle, BotInit
<1> QED BY <1>1, <1>5 DEF CandleInv, BotInit

LEMMA CandlesUnchanged ==
    ASSUME EveryBarInOneCandle, UNCHANGED <<strategy, history, window, loaded, taken>>
    PROVE  EveryBarInOneCandle'
BY DEF EveryBarInOneCandle, Candles

LEMMA CandlesLoaded ==
    ASSUME CandleInv, NEW h \in Histories, NEW connects \in BOOLEAN, Initialize(h, connects)
    PROVE  EveryBarInOneCandle'
<1>1. CandleSize[strategy] \in Nat \ {0} /\ strategy' = strategy
  BY BotAssumption DEF CandleInv, BotTypeOK, Initialize, AfterConnect
<1>2. taken' = <<>> /\ window' = <<>>
  BY DEF CandleInv, Initialize
<1>3. Candles' = 0
  <2>1. Len(h) \in Nat
    BY BotAssumption
  <2> QED BY <2>1 DEF Initialize, Candles
<1>4. SubSeq(taken, CandleSize[strategy] * Candles + 1, Len(taken))' = <<>>
  BY <1>1, <1>2, <1>3, SubSeqEmpty
<1> QED BY <1>1, <1>2, <1>3, <1>4 DEF EveryBarInOneCandle

LEMMA CandlesTaken ==
    ASSUME CandleInv, NEW b \in Bars \cup {NoBar}, TakeBar(b)
    PROVE  EveryBarInOneCandle'
<1>1. /\ CandleSize[strategy] \in Nat \ {0} /\ b \in Candle
      /\ history \in Seq(Candle) /\ window \in Seq(Candle) /\ taken \in Seq(Candle)
      /\ loaded \in Nat /\ Len(history) \in Nat /\ Len(taken) \in Nat /\ Len(window) \in Nat
  BY BotAssumption, BarsAreCandles DEF CandleInv, BotTypeOK
<1>n. PICK n \in Nat \ {0} : n = CandleSize[strategy]
  BY <1>1
<1>c. PICK c \in Nat : c = Candles
  <2>1. Candles \in Int /\ Candles >= 0
    BY <1>1 DEF CandleInv, EveryBarInOneCandle, Candles
  <2> QED BY <2>1
<1>p. PICK p \in Nat : p = n * c
  BY NextMultiple
<1> DEFINE w == Append(window, b)
           t == Append(taken, b)
<1>2. /\ Len(window) < n
      /\ Len(taken) = p + Len(window)
      /\ window = SubSeq(taken, p + 1, Len(taken))
      /\ \A k \in 1 .. c :
            history[loaded + k] = Aggregated(SubSeq(taken, n * (k - 1) + 1, n * k))
  BY <1>n, <1>c, <1>p DEF CandleInv, EveryBarInOneCandle
<1>3. n * (c + 1) = p + n
  BY <1>p, NextMultiple
<1>10. Len(history) = loaded + c
  BY <1>1, <1>c DEF Candles
<1>4. taken' = t /\ strategy' = strategy /\ loaded' = loaded /\ Len(t) = Len(taken) + 1
  BY <1>1 DEF TakeBar
<1>5. w = SubSeq(t, p + 1, Len(taken) + 1) /\ Len(w) = Len(window) + 1
      /\ w \in Seq(Candle) /\ Len(w) > 0
  <2>1. p + 1 \in 1 .. Len(taken) + 1
    BY <1>1, <1>2
  <2>2. SubSeq(t, p + 1, Len(taken) + 1) = Append(SubSeq(taken, p + 1, Len(taken)), b)
    BY <1>1, <2>1, PartWithAppended
  <2>3. Len(w) = Len(window) + 1 /\ w \in Seq(Candle) /\ Len(w) > 0
    BY <1>1, AppendElements
  <2> QED BY <1>2, <2>2, <2>3
<1>6. ASSUME NEW k \in 1 .. c
      PROVE  SubSeq(t, n * (k - 1) + 1, n * k) = SubSeq(taken, n * (k - 1) + 1, n * k)
  <2>1. k \in Nat /\ k - 1 \in Nat /\ k <= c /\ k - 1 <= c
    OBVIOUS
  <2>2. n * (k - 1) \in Nat /\ n * k \in Nat /\ n * k <= p
    BY <1>p, <2>1, MultiplesGrow
  <2>3. PICK i \in Nat : i = n * (k - 1)
    BY <2>2
  <2>4. PICK j \in Nat : j = n * k
    BY <2>2
  <2>5. i + 1 \in Nat \ {0} /\ j <= Len(taken)
    BY <1>1, <1>2, <2>2, <2>4
  <2>6. SubSeq(t, i + 1, j) = SubSeq(taken, i + 1, j)
    BY <1>1, <2>5, PartBeforeAppended
  <2> QED BY <2>3, <2>4, <2>6
<1>7. CASE Len(w) = n
  <2>1. window' = <<>> /\ history' = Append(history, Aggregated(w))
    BY <1>n, <1>7 DEF TakeBar, Cleared
  <2>2. Aggregated(w) \in Candle
    <3> HIDE DEF w
    <3> QED BY <1>5, AggregatedIsCandle
  <2>3. /\ history' \in Seq(Candle) /\ Len(history') = Len(history) + 1
        /\ \A i \in 1 .. Len(history) : history'[i] = history[i]
        /\ history'[Len(history) + 1] = Aggregated(w)
    <3> HIDE DEF w
    <3> QED BY <1>1, <2>1, <2>2, AppendElements
  <2> HIDE DEF t, w
  <2>4. Candles' = c + 1
    BY <1>1, <1>4, <1>10, <2>3 DEF Candles
  <2>5. PICK q \in Nat : q = n * (c + 1)
    BY NextMultiple
  <2>6. Len(t) = q /\ Len(taken) + 1 = q /\ Len(window') = 0
    <3>1. Len(window') = 0
      BY <2>1
    <3>2. q = p + n
      BY <1>3, <2>5
    <3> QED BY <1>1, <1>2, <1>4, <1>5, <1>7, <3>1, <3>2
  <2>7. SubSeq(t, q + 1, Len(t)) = <<>>
    <3>1. q + 1 \in Int /\ Len(t) \in Int /\ Len(t) < q + 1
      BY <2>6
    <3> QED BY <3>1, SubSeqEmpty
  <2>8. ASSUME NEW k \in 1 .. c + 1
        PROVE  history'[loaded + k] = Aggregated(SubSeq(t, n * (k - 1) + 1, n * k))
    <3>1. CASE k = c + 1
      <4>1. history'[loaded + k] = Aggregated(w)
        BY <1>1, <1>10, <2>3, <3>1
      <4>2. k - 1 = c
        BY <3>1
      <4>3. n * (k - 1) = p /\ n * k = Len(taken) + 1
        BY <1>p, <2>5, <2>6, <3>1, <4>2
      <4> QED BY <1>5, <4>1, <4>3
    <3>2. CASE k # c + 1
      <4>1. k \in 1 .. c /\ loaded + k \in 1 .. Len(history)
        BY <1>1, <1>10, <3>2
      <4> QED BY <1>2, <1>6, <2>3, <4>1
    <3> QED BY <3>1, <3>2
  <2>9. /\ Candles' >= 0 /\ Len(window') < n
        /\ Len(t) = q + Len(window')
        /\ window' = SubSeq(t, q + 1, Len(t))
    BY <2>1, <2>4, <2>6, <2>7
  <2> QED BY <1>4, <1>n, <2>4, <2>5, <2>8, <2>9 DEF EveryBarInOneCandle
<1>8. CASE Len(w) # n
  <2>1. window' = w /\ history' = history
    BY <1>n, <1>8 DEF TakeBar
  <2> HIDE DEF t, w
  <2>2. Candles' = c
    BY <1>4, <1>c, <2>1 DEF Candles
  <2>3. \A k \in 1 .. c :
           history'[loaded + k] = Aggregated(SubSeq(t, n * (k - 1) + 1, n * k))
    BY <1>2, <1>6, <2>1
  <2>4. Candles' >= 0 /\ Len(window') < n /\ Len(t) = p + Len(window')
    <3>1. Len(window') = Len(window) + 1 /\ Len(window') # n
      BY <1>5, <1>8, <2>1
    <3>2. Len(t) = p + Len(window) + 1
      BY <1>1, <1>2, <1>4
    <3>3. Candles' >= 0
      BY <2>2
    <3> QED BY <1>1, <1>2, <3>1, <3>2, <3>3
  <2>5. window' = SubSeq(t, p + 1, Len(t))
    BY <1>4, <1>5, <2>1
  <2> QED BY <1>4, <1>n, <1>p, <2>2, <2>3, <2>4, <2>5 DEF EveryBarInOneCandle
<1> QED BY <1>7, <1>8

LEMMA CandleStep ==
    ASSUME CandleInv, [BotNext]_botVars
    PROVE  CandleInv'
<1>1. BotTypeOK'
  BY TypeStep DEF CandleInv
<1>2. CASE UNCHANGED botVars
  <2>1. UNCHANGED <<strategy, history, window, loaded, taken, stage>>
    BY <1>2 DEF botVars, dataVars
  <2> QED BY <1>1, <2>1, CandlesUnchanged DEF CandleInv
<1>3. ASSUME NEW h \in Histories, NEW connects \in BOOLEAN, Initialize(h, connects)
      PROVE  CandleInv'
  <2>1. stage' # "built"
    BY <1>3 DEF Initialize
  <2> QED BY <1>1, <1>3, <2>1, CandlesLoaded DEF CandleInv
<1>4. ASSUME NEW b \in Bars \cup {NoBar}, TakeBar(b)
      PROVE  CandleInv'
  <2>1. stage' # "built"
    BY <1>4 DEF TakeBar, AfterPublish
  <2> QED BY <1>1, <1>4, <2>1, CandlesTaken DEF CandleInv
<1>5. CASE RunBegins \/ Iterate \/ Return \/ AskClock \/ MissBar \/ Decide
           \/ (\E executed \in BOOLEAN : Post(executed)) \/ Stop \/ Join
  <2>1. UNCHANGED <<strategy, history, window, loaded, taken>>
    BY <1>5 DEF RunBegins, Iterate, Return, AskClock, MissBar, Decide, Post, Stop, Join, dataVars
  <2>2. stage' # "built"
    <3>1. CASE Decide
      BY <3>1, OutcomesOfDecide DEF Decide, CandleInv
    <3>2. CASE ~ Decide
      BY <1>5, <3>2 DEF RunBegins, Iterate, Return, AskClock, MissBar, Post, Stop, Join,
                        AfterPublish, UsesBody
    <3> QED BY <3>1, <3>2
  <2> QED BY <1>1, <2>1, <2>2, CandlesUnchanged DEF CandleInv
<1> QED BY <1>2, <1>3, <1>4, <1>5 DEF BotNext, BotThread

(* Whatever answers fail and whatever exceptions are thrown, every bar is in one    *)
(* candle, in order, or waits in the window (Mean-Reversion-Strategy.cpp:156-170).  *)
THEOREM EveryBarIsKept == BotSpec => []EveryBarInOneCandle
<1>1. CandleInv => EveryBarInOneCandle
  BY DEF CandleInv
<1> QED BY <1>1, CandleInit, CandleStep, PTL DEF BotSpec

-----------------------------------------------------------------------------
(* How the program ends. *)

CrashInv == BotTypeOK /\ CrashesOnlyOnFreedMemory

LEMMA CrashStep ==
    ASSUME CrashInv, [BotNext]_botVars
    PROVE  CrashInv'
<1> USE DEF CrashesOnlyOnFreedMemory, dataVars, brokerVars
<1>1. BotTypeOK' /\ BotTypeOK
  BY TypeStep DEF CrashInv
<1>2. SUFFICES CrashesOnlyOnFreedMemory'
  BY <1>1 DEF CrashInv
<1>3. CASE UNCHANGED botVars
  BY <1>3 DEF botVars, CrashInv
<1>4. ASSUME NEW h \in Histories, NEW connects \in BOOLEAN, Initialize(h, connects)
      PROVE  CrashesOnlyOnFreedMemory'
  BY <1>4 DEF Initialize, AfterConnect
<1>5. CASE AskClock
  BY <1>5 DEF AskClock, UsesBody
<1>6. ASSUME NEW b \in Bars \cup {NoBar}, TakeBar(b)
      PROVE  CrashesOnlyOnFreedMemory'
  BY <1>6 DEF TakeBar, AfterPublish
<1>7. CASE Decide
  <2>1. stage' # "crashed"
    BY <1>1, <1>7, OutcomesOfDecide DEF Decide
  <2> QED BY <2>1
<1>8. CASE Join
  BY <1>8 DEF Join, AfterPublish
<1>9. CASE RunBegins \/ Iterate \/ Return \/ MissBar
           \/ (\E executed \in BOOLEAN : Post(executed)) \/ Stop
  <2>1. stage' # "crashed"
    BY <1>9 DEF RunBegins, Iterate, Return, MissBar, Post, Stop
  <2> QED BY <2>1
<1> QED BY <1>3, <1>4, <1>5, <1>6, <1>7, <1>8, <1>9 DEF BotNext, BotThread

(* However little data there is, EMA never writes past its values: a bot that ends  *)
(* by undefined behaviour has used a freed connection or a freed request body       *)
(* (EMA.cpp:23; RedisDBManager.cpp:22; APIClient.hpp:54).                            *)
THEOREM EmaIsGuarded == BotSpec => []CrashesOnlyOnFreedMemory
<1>1. BotInit => CrashInv
  BY TypeInit DEF CrashInv, CrashesOnlyOnFreedMemory, BotInit
<1>2. CrashInv => CrashesOnlyOnFreedMemory
  BY DEF CrashInv
<1> QED BY <1>1, <1>2, CrashStep, PTL DEF BotSpec

-----------------------------------------------------------------------------
(* The position. *)

(* An order goes out only against the position the bot believes it has: without     *)
(* that the distance could grow by two.                                              *)
PositionInv ==
    /\ BotTypeOK
    /\ OffByMissedOrders
    /\ stage = "buy" => positionOpen = FALSE
    /\ stage = "sell" => positionOpen = TRUE

LEMMA PositionStep ==
    ASSUME PositionInv, [BotNext]_botVars
    PROVE  PositionInv'
<1> USE DEF dataVars, brokerVars
<1>1. BotTypeOK' /\ BotTypeOK
  BY TypeStep DEF PositionInv
<1>2. CASE UNCHANGED <<positionOpen, shares, missed>> /\ stage' \notin {"buy", "sell"}
  BY <1>1, <1>2 DEF PositionInv, OffByMissedOrders
<1>3. CASE UNCHANGED botVars \/ Stop
  <2>1. UNCHANGED <<positionOpen, shares, missed, stage>>
    BY <1>3 DEF botVars, Stop
  <2> QED BY <1>1, <2>1 DEF PositionInv, OffByMissedOrders
<1>4. CASE Decide
  <2>1. UNCHANGED <<positionOpen, shares, missed>> /\ stage' \in {"loop", Order}
    BY <1>1, <1>4, OutcomesOfDecide DEF Decide
  <2>2. (stage' = "buy" => positionOpen = FALSE) /\ (stage' = "sell" => positionOpen = TRUE)
    <3>1. positionOpen = TRUE \/ positionOpen = FALSE
      BY <1>1, Zenon DEF BotTypeOK
    <3>2. CASE positionOpen = TRUE
      BY <2>1, <3>2 DEF Order
    <3>3. CASE positionOpen = FALSE
      BY <2>1, <3>3 DEF Order
    <3> QED BY <3>1, <3>2, <3>3
  <2> QED BY <1>1, <2>1, <2>2 DEF PositionInv, OffByMissedOrders
<1>5. ASSUME NEW executed \in BOOLEAN, Post(executed)
      PROVE  PositionInv'
  <2> DEFINE held == IF positionOpen THEN 1 ELSE 0
             held1 == IF positionOpen' THEN 1 ELSE 0
  <2>1. /\ shares \in Int /\ missed \in Nat /\ shares' \in Int /\ missed' \in Nat
    BY <1>1 DEF BotTypeOK
  <2>2. stage' = "loop"
    BY <1>5 DEF Post
  <2>3. Magnitude(shares - held) <= missed
    BY DEF PositionInv, OffByMissedOrders
  <2>4. CASE stage = "buy"
    <3>1. held = 0 /\ held1 = 1
      BY <1>5, <2>4 DEF PositionInv, Post, Believed
    <3>2. CASE executed
      <4>1. shares' = shares + 1 /\ missed' = missed
        BY <1>5, <2>1, <2>4, <3>2 DEF Post
      <4> QED BY <1>1, <2>1, <2>2, <2>3, <3>1, <4>1 DEF PositionInv, OffByMissedOrders, Magnitude
    <3>3. CASE ~ executed
      <4>1. shares' = shares /\ missed' = missed + 1
        BY <1>5, <2>1, <2>4, <3>3 DEF Post
      <4> QED BY <1>1, <2>1, <2>2, <2>3, <3>1, <4>1 DEF PositionInv, OffByMissedOrders, Magnitude
    <3> QED BY <3>2, <3>3
  <2>5. CASE stage = "sell"
    <3>1. held = 1 /\ held1 = 0
      BY <1>5, <2>5 DEF PositionInv, Post, Believed
    <3>2. CASE executed
      <4>1. shares' = shares - 1 /\ missed' = missed
        BY <1>5, <2>1, <2>5, <3>2 DEF Post
      <4> QED BY <1>1, <2>1, <2>2, <2>3, <3>1, <4>1 DEF PositionInv, OffByMissedOrders, Magnitude
    <3>3. CASE ~ executed
      <4>1. shares' = shares /\ missed' = missed + 1
        BY <1>5, <2>1, <2>5, <3>3 DEF Post
      <4> QED BY <1>1, <2>1, <2>2, <2>3, <3>1, <4>1 DEF PositionInv, OffByMissedOrders, Magnitude
    <3> QED BY <3>2, <3>3
  <2> QED BY <1>5, <2>4, <2>5 DEF Post
<1>6. ASSUME NEW h \in Histories, NEW connects \in BOOLEAN, Initialize(h, connects)
      PROVE  PositionInv'
  BY <1>2, <1>6 DEF Initialize
<1>7. ASSUME NEW b \in Bars \cup {NoBar}, TakeBar(b)
      PROVE  PositionInv'
  BY <1>2, <1>7 DEF TakeBar, AfterPublish
<1>8. CASE RunBegins \/ Iterate \/ Return \/ AskClock \/ MissBar \/ Join
  BY <1>2, <1>8 DEF RunBegins, Iterate, Return, AskClock, MissBar, Join, AfterPublish, UsesBody
<1> QED BY <1>3, <1>4, <1>5, <1>6, <1>7, <1>8 DEF BotNext, BotThread

(* The broker's position is off by at most the orders it did not execute            *)
(* (Mean-Reversion-Strategy.cpp:193-210).                                            *)
THEOREM PositionOffByMissed == BotSpec => []OffByMissedOrders
<1>1. BotInit => PositionInv
  <2> SUFFICES ASSUME BotInit
               PROVE  PositionInv
    OBVIOUS
  <2>1. shares = 0 /\ missed = 0 /\ positionOpen = FALSE /\ stage = "built"
    BY DEF BotInit
  <2>2. OffByMissedOrders
    BY <2>1 DEF OffByMissedOrders, Magnitude
  <2> QED BY <2>1, <2>2, TypeInit DEF PositionInv
<1>2. PositionInv => OffByMissedOrders
  BY DEF PositionInv
<1> QED BY <1>1, <1>2, PositionStep, PTL DEF BotSpec

-----------------------------------------------------------------------------
(* After stop. *)

(* An order counted as late leaves the thread at the test of the flag it can no      *)
(* longer pass.                                                                       *)
LateInv ==
    /\ BotTypeOK
    /\ \/ late = 0
       \/ late = 1 /\ running = FALSE /\ stage \in {"loop", "returned", "joined", "crashed"}

LEMMA LateStep ==
    ASSUME LateInv, [BotNext]_botVars
    PROVE  LateInv'
<1> USE DEF dataVars, brokerVars
<1>1. BotTypeOK' /\ BotTypeOK
  BY TypeStep DEF LateInv
<1>2. CASE late = 0 /\ late' = late
  BY <1>1, <1>2 DEF LateInv
<1>3. ASSUME NEW executed \in BOOLEAN, Post(executed)
      PROVE  LateInv'
  <2>1. late = 0 /\ stage' = "loop" /\ running' = running
    BY <1>3 DEF LateInv, Post
  <2>2. running = TRUE \/ running = FALSE
    BY <1>1, Zenon DEF BotTypeOK
  <2>3. CASE running = TRUE
    <3>1. late' = 0
      BY <1>3, <2>1, <2>3 DEF Post
    <3> QED BY <1>1, <3>1 DEF LateInv
  <2>4. CASE running = FALSE
    <3>1. late' = 1
      BY <1>3, <2>1, <2>4 DEF Post
    <3> QED BY <1>1, <2>1, <2>4, <3>1 DEF LateInv
  <2> QED BY <2>2, <2>3, <2>4
<1>4. CASE late = 1 /\ running = FALSE /\ stage \in {"loop", "returned", "joined", "crashed"}
  <2>1. CASE UNCHANGED botVars
    BY <1>1, <1>4, <2>1 DEF LateInv, botVars
  <2>2. CASE Return
    BY <1>1, <1>4, <2>2 DEF LateInv, Return
  <2>3. CASE Stop
    BY <1>1, <1>4, <2>3 DEF LateInv, Stop
  <2>4. CASE Join
    BY <1>1, <1>4, <2>4 DEF LateInv, Join, AfterPublish
  <2>5. ~ Iterate
    BY <1>4 DEF Iterate, GoesOn
  <2>6. ~ (AskClock \/ MissBar \/ Decide \/ RunBegins
           \/ (\E b \in Bars \cup {NoBar} : TakeBar(b))
           \/ (\E h \in Histories, connects \in BOOLEAN : Initialize(h, connects)))
    BY <1>4 DEF AskClock, MissBar, Decide, RunBegins, TakeBar, Initialize
  <2> QED BY <1>3, <2>1, <2>2, <2>3, <2>4, <2>5, <2>6 DEF BotNext, BotThread
<1>5. ASSUME ~ (\E executed \in BOOLEAN : Post(executed))
      PROVE  late' = late
  BY <1>5 DEF BotNext, BotThread, botVars, Initialize, RunBegins, Iterate, Return, AskClock,
              MissBar, TakeBar, Decide, Stop, Join
<1> QED BY <1>2, <1>3, <1>4, <1>5 DEF LateInv

(* The loop tests the flag before every order: one that was on its way when stop     *)
(* was called is the last (Mean-Reversion-Strategy.cpp:105, 128-132).                 *)
THEOREM OneOrderAfterStop == BotSpec => []AtMostOneOrderAfterStop
<1>1. BotInit => LateInv
  BY TypeInit DEF LateInv, BotInit
<1>2. LateInv => AtMostOneOrderAfterStop
  BY DEF LateInv, AtMostOneOrderAfterStop
<1> QED BY <1>1, <1>2, LateStep, PTL DEF BotSpec

-----------------------------------------------------------------------------
(* Orders at a price. *)

LEMMA SilentStep ==
    ASSUME BotTypeOK, SilentAtRealPrices, [BotNext]_botVars
    PROVE  SilentAtRealPrices'
<1> USE DEF dataVars, brokerVars
<1>1. CASE stage' \notin {"buy", "sell"}
  BY <1>1 DEF SilentAtRealPrices
<1>2. CASE UNCHANGED botVars \/ Stop
  <2>1. UNCHANGED <<stage, strategy, history>>
    BY <1>2 DEF botVars, Stop
  <2> QED BY <2>1 DEF SilentAtRealPrices
<1>3. CASE Decide
  <2>1. strategy' = strategy /\ history' = history
    BY <1>3 DEF Decide
  <2>2. CASE strategy = "VolatilityBreakout"
    <3>1. Test = {}
      BY <2>2 DEF Test, VolatilityTest, VwapIsVector
    <3>2. stage' = "loop"
      BY <1>3, <3>1, NoOverrun DEF Decide, Outcomes, Decisions
    <3> QED BY <1>1, <3>2
  <2>3. CASE strategy = "Reversal" /\ Last(history).close # 0
    <3>1. Test = {FALSE}
      BY <2>3 DEF Test, ReversalTest, AtItsOwnFraction, Both
    <3>2. stage' = "loop"
      BY <1>3, <3>1, NoOverrun DEF Decide, Outcomes, Decisions
    <3> QED BY <1>1, <3>2
  <2>4. CASE strategy # "VolatilityBreakout" /\ ~ (strategy = "Reversal" /\ Last(history).close # 0)
    BY <2>1, <2>4 DEF SilentAtRealPrices
  <2> QED BY <2>2, <2>3, <2>4
<1>4. CASE (\E executed \in BOOLEAN : Post(executed)) \/ RunBegins \/ Iterate \/ Return
           \/ AskClock \/ MissBar \/ Join \/ (\E b \in Bars \cup {NoBar} : TakeBar(b))
           \/ (\E h \in Histories, connects \in BOOLEAN : Initialize(h, connects))
  <2>1. stage' \notin {"buy", "sell"}
    BY <1>4 DEF Post, RunBegins, Iterate, Return, AskClock, MissBar, Join, TakeBar, Initialize,
                AfterPublish, UsesBody
  <2> QED BY <1>1, <2>1
<1> QED BY <1>2, <1>3, <1>4 DEF BotNext, BotThread

(* Two of the strategies never order at a real price: whatever the candles, the      *)
(* periods and the answers (Reversal-Strategy-Fibonacci-Retracement.cpp:175-203;     *)
(* Volatility-Breakout-Strategy.cpp:178).                                             *)
THEOREM SilentStrategies == BotSpec => []SilentAtRealPrices
<1>1. BotInit => BotTypeOK /\ SilentAtRealPrices
  BY TypeInit DEF SilentAtRealPrices, BotInit
<1>2. BotTypeOK /\ SilentAtRealPrices /\ [BotNext]_botVars => (BotTypeOK /\ SilentAtRealPrices)'
  BY TypeStep, SilentStep
<1> QED BY <1>1, <1>2, PTL DEF BotSpec

-----------------------------------------------------------------------------
(* The back-tester. *)

DayRecords == [close : Prices]
Actions == {"none", "buy", "sell"}

TesterTypeOK ==
    /\ phase \in {"built", "loaded", "running", "thrown", "drawing", "shown", "no chart", "killed"}
    /\ days \in Seq(DayRecords) /\ marks \in Seq(Actions)
    /\ phase = "built" => marks = <<>>
    /\ Amount \in Nat /\ Holding \in Nat /\ holds \in BOOLEAN
    /\ entry \in Nat /\ exact \in Int
    /\ labels \in Nat /\ at \in Nat

\* What the conversions have lost.
Lost == exact - TicksPerUnit * Amount
Trades == Made("buy") \cup Made("sell")

MoneyInv ==
    /\ 0 <= Lost /\ Lost <= (TicksPerUnit - 1) * Cardinality(Trades)
    /\ holds => TicksPerUnit * Amount < entry
    /\ ~holds => Holding = 0
    /\ Cardinality(Made("buy")) = Cardinality(Made("sell")) + (IF holds THEN 1 ELSE 0)

Drawn == {"drawing", "shown", "no chart", "killed"}

\* The labels so far stand at the multiples of the step below the number of days.
LabelInv ==
    /\ phase \notin Drawn => labels = 0 /\ at = 0
    /\ phase \in Drawn =>
        /\ at = labels * Step
        /\ labels > 0 => (labels - 1) * Step < Len(days)
    /\ phase = "shown" => at >= Len(days)
    /\ phase = "killed" => labels = MaxLabels

TesterInv == TesterTypeOK /\ MoneyInv /\ LabelInv

LEMMA TesterConstants ==
    /\ TicksPerUnit \in Nat \ {0} /\ Labels \in Nat \ {0} /\ MaxLabels >= 2 * Labels
    /\ Cash \in Nat /\ \A price \in Prices : price \in Nat \ {0}
BY TesterAssumption

LEMMA MadeIsFinite ==
    ASSUME marks \in Seq(Actions), NEW action
    PROVE  /\ IsFiniteSet(Made(action)) /\ Cardinality(Made(action)) \in Nat
           /\ IsFiniteSet(Trades) /\ Cardinality(Trades) \in Nat
           /\ Len(marks) + 1 \notin Made(action) /\ Len(marks) + 1 \notin Trades
<1>1. Len(marks) \in Nat /\ DOMAIN marks = 1 .. Len(marks)
  OBVIOUS
<1>2. IsFiniteSet(1 .. Len(marks))
  BY <1>1, FS_Interval
<1>3. Made(action) \subseteq 1 .. Len(marks) /\ Trades \subseteq 1 .. Len(marks)
  BY <1>1 DEF Made, Trades
<1>4. Len(marks) + 1 \notin 1 .. Len(marks)
  BY <1>1
<1> QED BY <1>2, <1>3, <1>4, FS_Subset, FS_CardinalityType

LEMMA MadeAfter ==
    ASSUME marks \in Seq(Actions), NEW new \in Actions, marks' = Append(marks, new), NEW action
    PROVE  Made(action)' = IF new = action THEN Made(action) \cup {Len(marks) + 1} ELSE Made(action)
<1>1. /\ Len(marks) \in Nat /\ DOMAIN marks = 1 .. Len(marks)
      /\ DOMAIN marks' = 1 .. Len(marks) + 1
      /\ \A i \in 1 .. Len(marks) : marks'[i] = marks[i]
      /\ marks'[Len(marks) + 1] = new
  <2>1. marks' \in Seq(Actions) /\ Len(marks') = Len(marks) + 1 /\ Len(marks) \in Nat
    OBVIOUS
  <2> QED BY <2>1
<1>2. \A i : i \in 1 .. Len(marks) + 1 <=> i \in 1 .. Len(marks) \/ i = Len(marks) + 1
  BY <1>1
<1>3. Len(marks) + 1 \notin 1 .. Len(marks)
  BY <1>1
<1> QED BY <1>1, <1>2, <1>3 DEF Made

\* A day without a trade leaves the marks of the trades as they are, a trade adds one.
LEMMA TradesAfter ==
    ASSUME marks \in Seq(Actions), NEW new \in Actions, marks' = Append(marks, new)
    PROVE  /\ \A action \in {"buy", "sell"} :
                Cardinality(Made(action))' = Cardinality(Made(action)) + (IF new = action THEN 1 ELSE 0)
           /\ Cardinality(Trades)' = Cardinality(Trades) + (IF new = "none" THEN 0 ELSE 1)
<1> DEFINE m == Len(marks) + 1
<1>1. \A action : /\ IsFiniteSet(Made(action)) /\ Cardinality(Made(action)) \in Nat
                  /\ m \notin Made(action)
  BY MadeIsFinite
<1>2. IsFiniteSet(Trades) /\ Cardinality(Trades) \in Nat /\ m \notin Trades
  BY MadeIsFinite
<1>3. \A action : Made(action)' = IF new = action THEN Made(action) \cup {m} ELSE Made(action)
  BY MadeAfter
<1> HIDE DEF m
<1>4. \A action : Cardinality(Made(action))' = Cardinality(Made(action)) + (IF new = action THEN 1 ELSE 0)
  <2> SUFFICES ASSUME NEW action
               PROVE  Cardinality(Made(action))'
                          = Cardinality(Made(action)) + (IF new = action THEN 1 ELSE 0)
    OBVIOUS
  <2>1. Cardinality(Made(action) \cup {m}) = Cardinality(Made(action)) + 1
    BY <1>1, FS_AddElement
  <2>2. Cardinality(Made(action)) \in Nat
    BY <1>1
  <2>3. CASE new = action
    BY <1>3, <2>1, <2>3
  <2>4. CASE new # action
    BY <1>3, <2>2, <2>4
  <2> QED BY <2>3, <2>4
<1>5. Trades' = IF new = "none" THEN Trades ELSE Trades \cup {m}
  BY <1>3 DEF Trades, Actions
<1>6. Cardinality(Trades \cup {m}) = Cardinality(Trades) + 1
  BY <1>2, FS_AddElement
<1> QED BY <1>2, <1>4, <1>5, <1>6

LEMMA TesterInitial == TesterInit => TesterInv
<1> SUFFICES ASSUME TesterInit PROVE TesterInv
  OBVIOUS
<1>1. Made("buy") = {} /\ Made("sell") = {} /\ Trades = {}
  BY DEF Made, Trades, TesterInit
<1>2. Cardinality(Made("buy")) = 0 /\ Cardinality(Made("sell")) = 0 /\ Cardinality(Trades) = 0
  BY <1>1, FS_EmptySet
<1>3. TesterTypeOK
  <2>1. Cash * TicksPerUnit \in Int /\ Cash \in Nat
    BY TesterConstants
  <2>2. exact \in Int /\ Amount \in Nat /\ Holding \in Nat /\ entry \in Nat
    BY <2>1 DEF TesterInit
  <2>3. labels \in Nat /\ at \in Nat /\ holds \in BOOLEAN /\ days = <<>> /\ marks = <<>>
        /\ phase = "built"
    BY DEF TesterInit
  <2>4. days \in Seq(DayRecords) /\ marks \in Seq(Actions)
    BY <2>3
  <2> QED BY <2>2, <2>3, <2>4 DEF TesterTypeOK
<1>4. Lost = 0
  BY TesterConstants DEF Lost, TesterInit
<1>5. MoneyInv
  BY <1>2, <1>4, TesterConstants DEF MoneyInv, TesterInit
<1>6. LabelInv
  BY DEF LabelInv, TesterInit, Drawn
<1> QED BY <1>3, <1>5, <1>6 DEF TesterInv

\* Nothing is traded: the money is as it was.
LEMMA MoneyStays ==
    ASSUME MoneyInv, UNCHANGED moneyVars,
           Cardinality(Trades)' = Cardinality(Trades),
           Cardinality(Made("buy"))' = Cardinality(Made("buy")),
           Cardinality(Made("sell"))' = Cardinality(Made("sell"))
    PROVE  MoneyInv'
BY DEF MoneyInv, moneyVars, Lost

\* One more trade may lose one unit of money less a tick.
LEMMA OneMoreLoss ==
    ASSUME NEW T \in Nat \ {0}, NEW n \in Nat, NEW x \in Int, NEW r \in 0 .. T - 1,
           0 <= x, x <= (T - 1) * n
    PROVE  0 <= x + r /\ x + r <= (T - 1) * (n + 1)
<1>1. (T - 1) * (n + 1) = (T - 1) * n + (T - 1) /\ (T - 1) * n \in Int
  OBVIOUS
<1> QED BY <1>1

LEMMA MoneyBuy ==
    ASSUME TesterTypeOK, MoneyInv, ~holds, NEW price \in Prices, Buy(price),
           Cardinality(Trades)' = Cardinality(Trades) + 1,
           Cardinality(Made("buy"))' = Cardinality(Made("buy")) + 1,
           Cardinality(Made("sell"))' = Cardinality(Made("sell"))
    PROVE  /\ Amount' \in Nat /\ Holding' \in Nat /\ holds' \in BOOLEAN
           /\ entry' \in Nat /\ exact' \in Int /\ MoneyInv'
<1> DEFINE T == TicksPerUnit
           a == Amount * T
           n == a \div price
           r == a - price * n
<1>1. T \in Nat \ {0} /\ price \in Nat \ {0} /\ a \in Nat /\ exact \in Int /\ Amount \in Nat
  <2>1. T \in Nat \ {0} /\ price \in Nat \ {0} /\ exact \in Int /\ Amount \in Nat
    BY TesterConstants DEF TesterTypeOK
  <2>2. a \in Nat
    BY <2>1
  <2> QED BY <2>1, <2>2
<1>2. Holding = 0
  BY DEF MoneyInv
<1> HIDE DEF T, a
<1>3. n \in Nat /\ a % price \in 0 .. price - 1 /\ a - price * n = a % price /\ price * n \in Nat
  BY <1>1, Quotient
<1>4. r \in Nat /\ r < price
  BY <1>1, <1>3
<1>5. /\ Holding' = n /\ Amount' = r \div T
      /\ exact' = exact - price * n /\ entry' = price /\ holds' = TRUE
  <2>1. n \in Nat /\ Holding' = 0 + n
    BY <1>2, <1>3 DEF Buy, a, T
  <2> QED BY <1>2, <2>1 DEF Buy, a, T
<1> HIDE DEF n, r
<1>6. r \div T \in Nat /\ r % T \in 0 .. T - 1 /\ r - T * (r \div T) = r % T /\ T * (r \div T) \in Nat
      /\ T * (r \div T) <= r
  BY <1>1, <1>4, Quotient
<1>7. exact' \in Int
  BY <1>1, <1>3, <1>5
<1>8. Lost' = Lost + (r % T) /\ Lost \in Int
  <2>1. Lost = exact - a
    BY <1>1 DEF Lost, a, T
  <2>2. Lost' = exact' - T * Amount'
    BY DEF Lost, T
  <2>3. T * Amount' = r - (r % T)
    BY <1>4, <1>5, <1>6
  <2>4. r = a - price * n /\ r % T \in Int
    BY <1>6 DEF r
  <2>5. exact \in Int /\ a \in Int /\ price * n \in Int /\ exact' = exact - price * n
    BY <1>1, <1>3, <1>5 DEF n
  <2> QED BY ONLY <2>1, <2>2, <2>3, <2>4, <2>5
<1>9. 0 <= Lost' /\ Lost' <= (TicksPerUnit - 1) * Cardinality(Trades)'
  <2>1. Cardinality(Trades) \in Nat
    BY MadeIsFinite DEF TesterTypeOK
  <2>2. 0 <= Lost /\ Lost <= (T - 1) * Cardinality(Trades)
    BY DEF MoneyInv, T
  <2>3. 0 <= Lost + (r % T) /\ Lost + (r % T) <= (T - 1) * (Cardinality(Trades) + 1)
    BY <1>1, <1>6, <1>8, <2>1, <2>2, OneMoreLoss
  <2> QED BY <1>8, <2>3 DEF T
<1>10. TicksPerUnit * Amount' < entry'
  <2>1. T * (r \div T) < price
    BY <1>1, <1>4, <1>6
  <2> QED BY <1>5, <2>1 DEF T
<1>11. Cardinality(Made("buy"))' = Cardinality(Made("sell"))' + (IF holds' THEN 1 ELSE 0)
  <2>1. Cardinality(Made("buy")) = Cardinality(Made("sell")) + 0
    BY DEF MoneyInv
  <2>2. Cardinality(Made("buy")) \in Nat /\ Cardinality(Made("sell")) \in Nat
    BY MadeIsFinite DEF TesterTypeOK
  <2> QED BY <1>5, <2>1, <2>2
<1>12. MoneyInv'
  BY <1>5, <1>9, <1>10, <1>11 DEF MoneyInv
<1> QED BY <1>1, <1>3, <1>5, <1>6, <1>7, <1>12 DEF n

LEMMA MoneySell ==
    ASSUME TesterTypeOK, MoneyInv, holds, NEW price \in Prices, Sell(price),
           Cardinality(Trades)' = Cardinality(Trades) + 1,
           Cardinality(Made("buy"))' = Cardinality(Made("buy")),
           Cardinality(Made("sell"))' = Cardinality(Made("sell")) + 1
    PROVE  /\ Amount' \in Nat /\ Holding' \in Nat /\ holds' \in BOOLEAN
           /\ entry' \in Nat /\ exact' \in Int /\ MoneyInv'
<1> DEFINE T == TicksPerUnit
           a == Amount * T
           p == price * Holding
           s == a + p
<1>1. /\ T \in Nat \ {0} /\ a \in Nat /\ p \in Nat /\ s \in Nat /\ exact \in Int /\ Amount \in Nat
      /\ entry \in Nat
  <2>1. /\ T \in Nat \ {0} /\ Amount \in Nat /\ Holding \in Nat /\ price \in Nat /\ exact \in Int
        /\ entry \in Nat
    BY TesterConstants DEF TesterTypeOK
  <2>2. a \in Nat /\ p \in Nat
    BY <2>1
  <2> QED BY <2>1, <2>2
<1>2. /\ Amount' = s \div T /\ exact' = exact + p
      /\ Holding' = 0 /\ holds' = FALSE /\ entry' = entry
  BY DEF Sell, AfterSale
<1> HIDE DEF T, a, p
<1>3. s \div T \in Nat /\ s % T \in 0 .. T - 1 /\ s - T * (s \div T) = s % T /\ T * (s \div T) \in Nat
  BY <1>1, Quotient
<1>4. Lost' = Lost + (s % T) /\ Lost \in Int
  <2>1. Lost = exact - a
    BY <1>1 DEF Lost, a, T
  <2>2. Lost' = exact' - T * Amount'
    BY DEF Lost, T
  <2>3. T * Amount' = s - (s % T) /\ s % T \in Int
    BY <1>1, <1>2, <1>3
  <2>4. exact \in Int /\ a \in Int /\ p \in Int /\ exact' = exact + p /\ s = a + p
    BY <1>1, <1>2
  <2> QED BY ONLY <2>1, <2>2, <2>3, <2>4
<1>5. 0 <= Lost' /\ Lost' <= (TicksPerUnit - 1) * Cardinality(Trades)'
  <2>1. Cardinality(Trades) \in Nat
    BY MadeIsFinite DEF TesterTypeOK
  <2>2. 0 <= Lost /\ Lost <= (T - 1) * Cardinality(Trades)
    BY DEF MoneyInv, T
  <2>3. 0 <= Lost + (s % T) /\ Lost + (s % T) <= (T - 1) * (Cardinality(Trades) + 1)
    BY <1>1, <1>3, <1>4, <2>1, <2>2, OneMoreLoss
  <2> QED BY <1>4, <2>3 DEF T
<1>6. Cardinality(Made("buy"))' = Cardinality(Made("sell"))' + (IF holds' THEN 1 ELSE 0)
  <2>1. Cardinality(Made("buy")) = Cardinality(Made("sell")) + 1
    BY DEF MoneyInv
  <2>2. Cardinality(Made("buy")) \in Nat /\ Cardinality(Made("sell")) \in Nat
    BY MadeIsFinite DEF TesterTypeOK
  <2> QED BY <1>2, <2>1, <2>2
<1>7. MoneyInv'
  BY <1>2, <1>5, <1>6 DEF MoneyInv
<1>8. exact' \in Int
  BY <1>1, <1>2
<1> QED BY <1>1, <1>2, <1>3, <1>7, <1>8

\* A step that leaves the trades and the chart alone.
LEMMA TesterPhase ==
    ASSUME TesterInv, UNCHANGED moneyVars, marks' = marks \/ (Made("buy") = {} /\ Made("sell") = {}
                                              /\ Made("buy")' = {} /\ Made("sell")' = {}),
           TesterTypeOK', LabelInv'
    PROVE  TesterInv'
<1>1. Made("buy")' = Made("buy") /\ Made("sell")' = Made("sell")
  BY DEF Made
<1>2. Trades' = Trades
  BY <1>1 DEF Trades
<1>3. MoneyInv'
  BY <1>1, <1>2, MoneyStays DEF TesterInv
<1> QED BY <1>3 DEF TesterInv

LEMMA TesterLoad ==
    ASSUME TesterInv, NEW past \in Pasts, LoadPast(past)
    PROVE  TesterInv'
<1>1. /\ phase = "built" /\ phase' = "loaded"
      /\ days' = [i \in DOMAIN past |-> [close |-> past[i]]]
      /\ marks' = [i \in DOMAIN past |-> "none"]
      /\ marks = <<>> /\ UNCHANGED <<moneyVars, chartVars>>
  BY DEF LoadPast, TesterInv, TesterTypeOK
<1>2. past \in Seq(Prices)
  BY TesterAssumption
<1>3. days' \in Seq(DayRecords) /\ marks' \in Seq(Actions)
  <2>1. DOMAIN past = 1 .. Len(past) /\ Len(past) \in Nat /\ \A i \in 1 .. Len(past) : past[i] \in Prices
    BY <1>2
  <2>2. \A i \in 1 .. Len(past) : [close |-> past[i]] \in DayRecords
    BY <2>1 DEF DayRecords
  <2> QED BY <1>1, <2>1, <2>2 DEF Actions
<1>4. /\ Made("buy") = {} /\ Made("sell") = {} /\ Made("buy")' = {} /\ Made("sell")' = {}
  BY <1>1 DEF Made
<1>5. TesterTypeOK'
  BY <1>1, <1>3 DEF TesterInv, TesterTypeOK, moneyVars, chartVars
<1>6. LabelInv'
  BY <1>1 DEF TesterInv, LabelInv, Drawn, chartVars
<1> QED BY <1>1, <1>4, <1>5, <1>6, TesterPhase

LEMMA TesterDay ==
    ASSUME TesterInv, NEW price \in Prices, Day(price)
    PROVE  TesterInv'
<1>1. PICK action \in Actions :
        /\ phase = "running" /\ UNCHANGED <<phase, labels, at>>
        /\ days' = Append(days, [close |-> price])
        /\ marks' = Append(marks, action)
        /\ action = "buy" => ~holds /\ Buy(price)
        /\ action = "sell" => holds /\ Sell(price)
        /\ action = "none" => UNCHANGED moneyVars
  <2> DEFINE h == Append(days, [close |-> price])
             action == IF ~holds /\ Rises(h) THEN "buy"
                       ELSE IF holds /\ Falls(h) THEN "sell" ELSE "none"
  <2>1. /\ phase = "running" /\ UNCHANGED <<phase, labels, at>>
        /\ days' = Append(days, [close |-> price])
        /\ marks' = Append(marks, action)
        /\ \/ action = "buy" /\ Buy(price)
           \/ action = "sell" /\ Sell(price)
           \/ action = "none" /\ UNCHANGED moneyVars
    BY DEF Day, chartVars
  <2>2. /\ action \in Actions
        /\ action = "buy" => ~holds
        /\ action = "sell" => holds
    BY DEF Actions
  <2> HIDE DEF action
  <2> QED BY <2>1, <2>2 DEF Actions
<1>2. /\ TesterTypeOK /\ MoneyInv /\ LabelInv /\ days \in Seq(DayRecords) /\ marks \in Seq(Actions)
      /\ labels = 0 /\ at = 0
  BY <1>1 DEF TesterInv, TesterTypeOK, LabelInv, Drawn
<1>3. days' \in Seq(DayRecords) /\ marks' \in Seq(Actions)
  <2>1. [close |-> price] \in DayRecords
    BY DEF DayRecords
  <2> QED BY <1>1, <1>2, <2>1
<1>4. /\ \A new \in {"buy", "sell"} :
            Cardinality(Made(new))' = Cardinality(Made(new)) + (IF action = new THEN 1 ELSE 0)
      /\ Cardinality(Trades)' = Cardinality(Trades) + (IF action = "none" THEN 0 ELSE 1)
      /\ Cardinality(Made("buy")) \in Nat /\ Cardinality(Made("sell")) \in Nat
      /\ Cardinality(Trades) \in Nat
  BY <1>1, <1>2, TradesAfter, MadeIsFinite
<1>5. /\ Amount' \in Nat /\ Holding' \in Nat /\ holds' \in BOOLEAN
      /\ entry' \in Nat /\ exact' \in Int /\ MoneyInv'
  <2>1. CASE action = "buy"
    BY <1>1, <1>2, <1>4, <2>1, MoneyBuy
  <2>2. CASE action = "sell"
    BY <1>1, <1>2, <1>4, <2>2, MoneySell
  <2>3. CASE action = "none"
    BY <1>1, <1>2, <1>4, <2>3, MoneyStays DEF moneyVars, TesterTypeOK
  <2> QED BY <2>1, <2>2, <2>3 DEF Actions
<1>6. TesterTypeOK'
  BY <1>1, <1>2, <1>3, <1>5 DEF TesterTypeOK
<1>7. LabelInv'
  BY <1>1, <1>2 DEF LabelInv, Drawn
<1> QED BY <1>5, <1>6, <1>7 DEF TesterInv

LEMMA StepOfDays ==
    ASSUME days \in Seq(DayRecords)
    PROVE  /\ Len(days) \in Nat /\ Step \in Nat
           /\ Labels * Step <= Len(days) /\ Len(days) < Labels * Step + Labels
           /\ Labels * Step \in Nat
<1>1. Len(days) \in Nat /\ Labels \in Nat \ {0}
  BY TesterConstants
<1>2. /\ Step \in Nat /\ Len(days) % Labels \in 0 .. Labels - 1
      /\ Len(days) - Labels * Step = Len(days) % Labels /\ Labels * Step \in Nat
      /\ Labels * Step <= Len(days)
  BY <1>1, Quotient DEF Step
<1> QED BY <1>1, <1>2

LEMMA TesterLabel ==
    ASSUME TesterInv, PutLabel
    PROVE  TesterInv'
<1>1. /\ phase = "drawing" /\ at < Len(days) /\ labels' = labels + 1 /\ at' = at + Step
      /\ UNCHANGED <<phase, days, marks, moneyVars>>
      /\ labels \in Nat /\ at \in Nat /\ at = labels * Step
      /\ days \in Seq(DayRecords) /\ Step \in Nat
  BY StepOfDays DEF PutLabel, TesterInv, TesterTypeOK, LabelInv, Drawn
<1>2. TesterTypeOK'
  BY <1>1 DEF TesterInv, TesterTypeOK, moneyVars
<1>3. Step' = Step
  BY <1>1 DEF Step
<1>4. (labels + 1) * Step = labels * Step + Step /\ labels + 1 - 1 = labels
  BY <1>1
<1>5. LabelInv'
  BY <1>1, <1>3, <1>4 DEF LabelInv, Drawn
<1> QED BY <1>1, <1>2, <1>5, TesterPhase

LEMMA TesterStep == TesterInv /\ [TesterNext]_testerVars => TesterInv'
<1> SUFFICES ASSUME TesterInv, [TesterNext]_testerVars PROVE TesterInv'
  OBVIOUS
<1>1. ASSUME NEW past \in Pasts, LoadPast(past) PROVE TesterInv'
  BY <1>1, TesterLoad
<1>2. ASSUME NEW price \in Prices, Day(price) PROVE TesterInv'
  BY <1>2, TesterDay
<1>3. CASE PutLabel
  BY <1>3, TesterLabel
<1>4. ASSUME UNCHANGED <<days, marks, moneyVars, chartVars>>,
             phase' \in {"built", "loaded", "running", "thrown", "drawing", "shown", "no chart", "killed"},
             phase' = "built" => phase = "built",
             phase' = phase \/ phase = "drawing" \/ (phase \notin Drawn /\ phase' \notin Drawn)
                \/ (phase = "running" /\ phase' = "drawing"),
             phase = "drawing" => phase' \in Drawn,
             phase' = "shown" => phase = "shown" \/ at >= Len(days),
             phase' = "killed" => phase = "killed" \/ labels = MaxLabels
      PROVE  TesterInv'
  <2>1. TesterTypeOK'
    BY <1>4 DEF TesterInv, TesterTypeOK, moneyVars, chartVars
  <2>2. Step' = Step /\ Step \in Nat /\ 0 * Step = 0
    <3>1. Step \in Nat
      BY StepOfDays DEF TesterInv, TesterTypeOK
    <3>2. Step' = Step
      BY <1>4 DEF Step
    <3> QED BY <3>1, <3>2
  <2>3. LabelInv'
    <3>1. LabelInv
      BY DEF TesterInv
    <3>2. CASE phase' = phase \/ phase = "drawing"
      BY <1>4, <2>2, <3>1, <3>2 DEF LabelInv, Drawn, chartVars
    <3>3. CASE phase \notin Drawn /\ phase' \notin Drawn
      BY <1>4, <3>1, <3>3 DEF LabelInv, Drawn, chartVars
    <3>4. CASE phase = "running" /\ phase' = "drawing"
      BY <1>4, <2>2, <3>1, <3>4 DEF LabelInv, Drawn, chartVars
    <3> QED BY <1>4, <3>2, <3>3, <3>4
  <2> QED BY <1>4, <2>1, <2>3, TesterPhase
<1>5. CASE Fetch
  BY <1>4, <1>5 DEF Fetch, Drawn
<1>6. CASE LastDay
  BY <1>4, <1>6 DEF LastDay, Drawn
<1>7. CASE OutOfMemory
  BY <1>4, <1>7 DEF OutOfMemory, Drawn
<1>8. CASE Show
  BY <1>4, <1>8 DEF Show, Drawn
<1>9. CASE PlotFails
  BY <1>4, <1>9 DEF PlotFails, Drawn
<1>10. CASE UNCHANGED testerVars
  <2>1. UNCHANGED <<days, marks, moneyVars, chartVars>> /\ phase' = phase
    BY <1>10 DEF testerVars
  <2>2. phase \in {"built", "loaded", "running", "thrown", "drawing", "shown", "no chart", "killed"}
    BY DEF TesterInv, TesterTypeOK
  <2> QED BY <1>4, <2>1, <2>2 DEF Drawn
<1> QED BY <1>1, <1>2, <1>3, <1>5, <1>6, <1>7, <1>8, <1>9, <1>10 DEF TesterNext

(* For any prices, any money and any number of days: what the conversions to   *)
(* int lose is bounded by the number of trades, and money and shares are never *)
(* below zero (bot.cpp:137-150 of Backtesting-Bot).                            *)
THEOREM MoneyIsAccounted == TesterSpec => []MoneyAccounted
<1>1. TesterInv => MoneyAccounted
  <2> SUFFICES ASSUME TesterInv PROVE MoneyAccounted
    OBVIOUS
  <2>1. Amount >= 0 /\ Holding >= 0
    <3>1. Amount \in Nat /\ Holding \in Nat
      BY DEF TesterInv, TesterTypeOK
    <3> QED BY <3>1
  <2>2. MoneyInv
    BY DEF TesterInv
  <2> QED BY <2>1, <2>2 DEF MoneyInv, MoneyAccounted, Lost, Trades
<1> QED BY <1>1, TesterInitial, TesterStep, PTL DEF TesterSpec

\* With a step of at least 1 the labels end before there are twice as many.
LEMMA NotSoMany ==
    ASSUME NEW n \in Nat, NEW s \in Nat, NEW k \in Nat \ {0}, NEW m \in Nat \ {0}, s >= 1,
           (k - 1) * s < n, n < m * s + m
    PROVE  k <= 2 * m - 1
<1> SUFFICES ASSUME k >= 2 * m PROVE FALSE
  OBVIOUS
<1>1. 2 * m - 1 \in Nat /\ k - 1 \in Nat /\ (2 * m - 1) * s <= (k - 1) * s
  <2>1. CASE k = 2 * m
    BY <2>1
  <2>2. CASE k # 2 * m
    <3>1. 2 * m - 1 \in Nat /\ k - 1 \in Nat /\ 2 * m - 1 < k - 1
      BY <2>2
    <3>2. /\ (2 * m - 1) * s \in Nat /\ (k - 1) * s \in Nat
          /\ (2 * m - 1) * s + s <= (k - 1) * s
      BY <3>1, MultipleBetween
    <3> QED BY <3>1, <3>2
  <2> QED BY <2>1, <2>2
<1>2. (2 * m - 1) * s = m * s + (m - 1) * s /\ (m - 1) * s \in Nat /\ m * s \in Nat
  OBVIOUS
<1>3. (m - 1) * s >= m - 1
  <2>1. CASE m = 1
    BY <1>2, <2>1
  <2>2. CASE m # 1
    <3>1. m - 1 \in Nat \ {0} /\ s \in Int /\ s >= 1
      BY <2>2
    <3> QED BY <3>1, MultipleGrows
  <2> QED BY <2>1, <2>2
<1>4. (k - 1) * s \in Int
  BY <1>1
<1> QED BY <1>1, <1>2, <1>3, <1>4

LEMMA LabelsOfShown ==
    ASSUME TesterInv, phase = "shown", days # <<>>
    PROVE  labels \in Labels .. 2 * Labels - 1
<1> DEFINE n == Len(days)
           s == Step
           k == labels
           m == Labels
<1>1. /\ n \in Nat /\ s \in Nat /\ m * s <= n /\ n < m * s + m /\ m * s \in Nat
      /\ k \in Nat /\ m \in Nat \ {0} /\ k * s >= n /\ (k > 0 => (k - 1) * s < n)
  BY StepOfDays, TesterConstants DEF TesterInv, TesterTypeOK, LabelInv, Drawn
<1>2. n > 0
  <2>1. days \in Seq(DayRecords)
    BY DEF TesterInv, TesterTypeOK
  <2> QED BY <2>1, EmptySeq
<1> HIDE DEF n, s, k, m
<1>3. s >= 1 /\ k >= 1
  <2>1. s # 0
    BY <1>1, <1>2
  <2>2. k # 0
    BY <1>1, <1>2
  <2> QED BY <1>1, <2>1, <2>2
<1>4. k >= m
  <2> SUFFICES ASSUME k < m PROVE FALSE
    BY <1>1
  <2>1. k * s \in Nat /\ m * s \in Nat /\ k * s + s <= m * s
    BY <1>1, MultipleBetween
  <2> QED BY <1>1, <1>3, <2>1
<1>5. k <= 2 * m - 1
  BY <1>1, <1>3, NotSoMany
<1>6. k \in m .. 2 * m - 1
  BY <1>1, <1>4, <1>5
<1> QED BY <1>6 DEF k, m

LEMMA DaysOfKilled ==
    ASSUME TesterInv, phase = "killed"
    PROVE  Len(days) \in 1 .. Labels - 1
<1> DEFINE n == Len(days)
           s == Step
           k == labels
           m == Labels
<1>1. /\ n \in Nat /\ s \in Nat /\ m * s <= n /\ n < m * s + m /\ m * s \in Nat
      /\ k \in Nat /\ m \in Nat \ {0} /\ (k > 0 => (k - 1) * s < n) /\ k = MaxLabels
      /\ MaxLabels >= 2 * m
  BY StepOfDays, TesterConstants DEF TesterInv, TesterTypeOK, LabelInv, Drawn
<1> HIDE DEF n, s, k, m
<1>2. k >= 2 * m /\ k >= 1
  BY <1>1
<1>3. (k - 1) * s < n /\ (k - 1) * s \in Nat
  BY <1>1, <1>2
<1>4. n >= 1
  BY <1>1, <1>3
<1>5. s = 0
  <2> SUFFICES ASSUME s >= 1 PROVE FALSE
    BY <1>1
  <2>1. k <= 2 * m - 1
    BY <1>1, <1>2, <1>3, NotSoMany
  <2> QED BY <1>1, <1>2, <2>1
<1>6. m * s = 0
  BY <1>1, <1>5
<1>7. n \in 1 .. m - 1
  BY <1>1, <1>4, <1>6
<1> QED BY <1>7 DEF n, m

(* For any number of days and of labels: a chart that is shown has at least    *)
(* the labels it is meant to have and fewer than twice as many, and only with  *)
(* fewer days than labels do they take all the memory (bot.cpp:189-195 of      *)
(* Backtesting-Bot).                                                           *)
THEOREM LabelsAreFitted == TesterSpec => []LabelsFit
<1>1. TesterInv => LabelsFit
  BY LabelsOfShown, DaysOfKilled DEF LabelsFit
<1> QED BY <1>1, TesterInitial, TesterStep, PTL DEF TesterSpec

-----------------------------------------------------------------------------
(* The tasks of CCI. *)

Tasks == 0 .. launched - 1
Ended == {"joining", "returned"}

CciTypeOK ==
    /\ form \in {"signal", "series"}
    /\ excess \in Nat /\ longer \in Nat /\ numThreads \in Nat /\ launched \in Nat
    /\ step \in {"called", "launching", "joining", "unwinding", "returned", "thrown", "crashed"}
    /\ DOMAIN next = Tasks /\ DOMAIN last = Tasks
    /\ \A i \in Tasks : next[i] \in Nat /\ last[i] \in Nat
    /\ cciValues \in [0 .. excess - 1 -> Nat]

\* How far task i has got: it has computed what fits from its start on, and it stops
\* at its end or where the data ends.
Progress(i) ==
    /\ Start(i) <= next[i] /\ next[i] <= last[i] /\ last[i] <= End(i)
    /\ next[i] = Start(i) \/ Fits(next[i] - 1)
    /\ last[i] = End(i) \/ (last[i] = next[i] /\ ~Fits(next[i]))

WrittenBy(i, k) == Start(i) <= k /\ k < next[i]

\* The tasks write what lies between their start and where they are, and nothing else.
CciInv ==
    /\ CciTypeOK
    /\ step = "called" => launched = 0
    /\ numThreads = 0 => step \in {"called", "crashed"} /\ launched = 0
    /\ launched <= numThreads /\ (excess < numThreads => launched = 0)
    /\ \A i \in Tasks : Progress(i)
    /\ \A k \in 0 .. excess - 1 :
        cciValues[k] = IF \E i \in Tasks : WrittenBy(i, k) THEN 1 ELSE 0
    /\ step \in Ended => ~More
    /\ step \in {"returned", "thrown", "crashed"} => AllJoined
    /\ step = "crashed" => numThreads = 0 \/ (form = "signal" /\ excess = 0)

\* The chunks, of any number of values for any number of threads.
LEMMA ChunkSize ==
    ASSUME excess \in Nat, numThreads \in Nat \ {0}
    PROVE  /\ chunkSize \in Nat
           /\ numThreads * chunkSize <= excess
           /\ excess < numThreads => chunkSize = 0
           /\ excess >= numThreads => chunkSize >= 1
<1> DEFINE e == excess
           n == numThreads
           c == e \div n
           r == e % n
<1>1. e \in Nat /\ n \in Nat \ {0}
  OBVIOUS
<1> HIDE DEF e, n
<1>2. c \in Int /\ r \in 0 .. n - 1 /\ e = n * c + r
  BY <1>1, DivMod
<1> HIDE DEF c, r
<1>3. c >= 0
  <2>1. ASSUME c < 0 PROVE FALSE
    <3>1. -c >= 1 /\ -c \in Int
      BY <1>2, <2>1
    <3>2. n * (-c) >= n /\ n * (-c) \in Int
      BY <1>1, <3>1, MultipleGrows
    <3>3. n * c = -(n * (-c))
      BY <1>1, <1>2
    <3> QED BY <1>1, <1>2, <3>2, <3>3
  <2> QED BY <1>2, <2>1
<1>4. n * c \in Int
  BY <1>1, <1>2
<1>5. n * c <= e
  BY <1>1, <1>2, <1>4
<1>6. e < n => c = 0
  <2> SUFFICES ASSUME e < n, c >= 1 PROVE FALSE
    BY <1>2, <1>3
  <2>1. n * c >= n
    BY <1>1, <1>2, MultipleGrows
  <2> QED BY <1>1, <1>4, <1>5, <2>1
<1>7. e >= n => c >= 1
  <2> SUFFICES ASSUME e >= n, c = 0 PROVE FALSE
    BY <1>2, <1>3
  <2> QED BY <1>1, <1>2
<1> QED BY <1>2, <1>3, <1>5, <1>6, <1>7 DEF chunkSize, c, e, n

\* One after the other, up to the number of the values.
LEMMA Chunks ==
    ASSUME excess \in Nat, numThreads \in Nat \ {0}
    PROVE  /\ \A i \in 0 .. numThreads - 1 : Start(i) \in Nat /\ End(i) \in Nat
                                             /\ Start(i) <= End(i) /\ End(i) <= excess
           /\ \A i, j \in 0 .. numThreads - 1 : i < j => End(i) <= Start(j)
           /\ excess >= numThreads => \A i \in 0 .. numThreads - 1 : Start(i) < End(i)
<1> DEFINE e == excess
           n == numThreads
           c == chunkSize
<1>1. /\ e \in Nat /\ n \in Nat \ {0} /\ c \in Nat
      /\ n * c <= e /\ (e >= n => c >= 1)
      /\ \A i : Start(i) = i * c /\ End(i) = IF i = n - 1 THEN e ELSE Start(i) + c
  BY ChunkSize DEF Start, End
<1> HIDE DEF e, n, c
<1>2. ASSUME NEW i \in 0 .. n - 1
      PROVE  i * c \in Nat /\ i * c + c <= e
  <2>1. i * c \in Nat /\ n * c \in Nat /\ i * c + c <= n * c
    BY <1>1, MultipleBetween
  <2> QED BY <1>1, <2>1
<1>3. \A i \in 0 .. n - 1 : /\ Start(i) \in Nat /\ End(i) \in Nat
                            /\ Start(i) <= End(i) /\ End(i) <= e
  BY <1>1, <1>2
<1>4. ASSUME NEW i \in 0 .. n - 1, NEW j \in 0 .. n - 1, i < j
      PROVE  End(i) <= Start(j)
  <2>1. i # n - 1
    BY <1>1, <1>4
  <2>2. i * c + c <= j * c
    BY <1>1, <1>4, MultipleBetween
  <2> QED BY <1>1, <2>1, <2>2
<1>5. ASSUME e >= n, NEW i \in 0 .. n - 1 PROVE Start(i) < End(i)
  BY <1>1, <1>2, <1>5
<1> QED BY <1>3, <1>4, <1>5 DEF e, n

\* Every value is in one of them.
LEMMA ChunksCover ==
    ASSUME excess \in Nat, numThreads \in Nat \ {0}, excess >= numThreads,
           NEW k \in 0 .. excess - 1
    PROVE  \E i \in 0 .. numThreads - 1 : Start(i) <= k /\ k < End(i)
<1> DEFINE n == numThreads
           c == chunkSize
<1>1. /\ n \in Nat \ {0} /\ c \in Nat \ {0}
      /\ Start(n - 1) = (n - 1) * c /\ End(n - 1) = excess
      /\ \A i : i # n - 1 => Start(i) = i * c /\ End(i) = i * c + c
  BY ChunkSize DEF Start, End
<1> HIDE DEF n, c
<1>2. (n - 1) * c \in Nat
  BY <1>1
<1>3. CASE k >= (n - 1) * c
  <2>1. Start(n - 1) <= k /\ k < End(n - 1) /\ n - 1 \in 0 .. n - 1
    BY <1>1, <1>2, <1>3
  <2> QED BY <2>1 DEF n
<1>4. CASE k < (n - 1) * c
  <2> DEFINE i == k \div c
             r == k % c
  <2>1. i \in Int /\ r \in 0 .. c - 1 /\ k = c * i + r
    BY <1>1, DivMod
  <2> HIDE DEF i, r
  <2>2. i >= 0
    <3> SUFFICES ASSUME i < 0 PROVE FALSE
      BY <2>1
    <3>1. -i >= 1 /\ -i \in Int
      BY <2>1
    <3>2. c * (-i) >= c /\ c * (-i) \in Int
      BY <1>1, <3>1, MultipleGrows
    <3>3. c * i = -(c * (-i))
      BY <1>1, <2>1
    <3> QED BY <1>1, <2>1, <3>2, <3>3
  <2>3. c * i = i * c /\ i * c \in Int
    BY <1>1, <2>1
  <2>4. i < n - 1
    <3> SUFFICES ASSUME i >= n - 1 PROVE FALSE
      BY <1>1, <2>1
    <3>1. i * c >= (n - 1) * c
      <4>1. CASE i = n - 1
        BY <1>2, <4>1
      <4>2. CASE i # n - 1
        <5>1. (n - 1) \in Nat /\ i \in Nat /\ n - 1 < i
          BY <1>1, <2>1, <2>2, <4>2
        <5>2. (n - 1) * c + c <= i * c
          BY <1>1, <5>1, MultipleBetween
        <5> QED BY <1>1, <1>2, <2>3, <5>2
      <4> QED BY <4>1, <4>2
    <3> QED BY <1>1, <1>2, <1>4, <2>1, <2>3, <3>1
  <2>5. Start(i) <= k /\ k < End(i) /\ i \in 0 .. n - 1
    BY <1>1, <2>1, <2>2, <2>3, <2>4
  <2> QED BY <2>5 DEF n
<1> QED BY <1>2, <1>3, <1>4

LEMMA CciInitial == CciAssumption /\ CciInit => CciInv
<1> SUFFICES ASSUME CciAssumption, CciInit PROVE CciInv
  OBVIOUS
<1>1. /\ excess \in Nat /\ longer \in Nat /\ numThreads \in Nat
      /\ Tasks = {} /\ DOMAIN next = {} /\ DOMAIN last = {}
      /\ cciValues = [k \in 0 .. excess - 1 |-> 0]
  BY DEF CciAssumption, CciInit, Tasks
<1>2. CciTypeOK
  BY <1>1 DEF CciTypeOK, CciInit
<1> QED BY <1>1, <1>2 DEF CciInv, CciInit, Ended

\* The steps that only end a phase.
LEMMA CciPhase ==
    ASSUME CciInv, UNCHANGED <<form, excess, longer, numThreads, launched, next, last, cciValues>>,
           step' \in {"called", "launching", "joining", "unwinding", "returned", "thrown", "crashed"},
           step' = "called" => step = "called",
           numThreads = 0 => step' \in {"called", "crashed"},
           step' \in Ended => ~More,
           step' \in {"returned", "thrown", "crashed"} => AllJoined,
           step' = "crashed" => numThreads = 0 \/ (form = "signal" /\ excess = 0)
    PROVE  CciInv'
<1>1. CciTypeOK'
  BY DEF CciInv, CciTypeOK, Tasks
<1>2. \A i \in Tasks' : Progress(i)'
  BY DEF CciInv, Tasks, Progress, Start, End, chunkSize, Fits
<1>3. \A k \in 0 .. excess' - 1 :
          cciValues'[k] = IF \E i \in Tasks' : WrittenBy(i, k)' THEN 1 ELSE 0
  BY DEF CciInv, Tasks, WrittenBy, Start, chunkSize
<1>4. (step' \in Ended => ~More') /\ (step' \in {"returned", "thrown", "crashed"} => AllJoined')
  BY DEF More, AllJoined, Running, Start, End, chunkSize
<1> QED BY <1>1, <1>2, <1>3, <1>4 DEF CciInv, Ended

LEMMA CciLaunched ==
    ASSUME CciInv, Launch
    PROVE  CciInv'
<1>1. /\ excess \in Nat /\ numThreads \in Nat \ {0} /\ launched \in 0 .. numThreads - 1
      /\ step = "launching" /\ Start(launched) < End(launched)
      /\ launched' = launched + 1
      /\ next' = [i \in 0 .. launched |-> IF i = launched THEN Start(i) ELSE next[i]]
      /\ last' = [i \in 0 .. launched |-> IF i = launched THEN End(i) ELSE last[i]]
      /\ UNCHANGED <<form, excess, longer, numThreads, step, cciValues>>
  BY DEF CciInv, CciTypeOK, Launch, More
<1>2. /\ Tasks' = 0 .. launched /\ \A i \in Tasks' : i \in Tasks \/ i = launched
      /\ \A i \in Tasks : i # launched /\ i \in Tasks'
      /\ launched \in Tasks'
  BY <1>1 DEF Tasks
<1>3. /\ \A i : Start(i)' = Start(i) /\ End(i)' = End(i)
      /\ \A k : Fits(k)' = Fits(k)
  BY <1>1 DEF Start, End, chunkSize, Fits
<1>4. Start(launched) \in Nat /\ End(launched) \in Nat
  BY <1>1, Chunks
<1>5. /\ \A i \in Tasks : next'[i] = next[i] /\ last'[i] = last[i]
      /\ next'[launched] = Start(launched) /\ last'[launched] = End(launched)
  BY <1>1, <1>2
<1>6. CciTypeOK'
  BY <1>1, <1>2, <1>4, <1>5 DEF CciInv, CciTypeOK
<1>7. ASSUME NEW i \in Tasks' PROVE Progress(i)'
  <2>1. CASE i \in Tasks
    <3>1. Progress(i)
      BY <2>1 DEF CciInv
    <3> QED BY <1>3, <1>5, <2>1, <3>1 DEF Progress
  <2>2. CASE i = launched
    BY <1>1, <1>3, <1>4, <1>5, <2>2 DEF Progress
  <2> QED BY <1>2, <2>1, <2>2
<1>8. ASSUME NEW k \in 0 .. excess - 1
      PROVE  cciValues'[k] = IF \E i \in Tasks' : WrittenBy(i, k)' THEN 1 ELSE 0
  <2>1. cciValues[k] = IF \E i \in Tasks : WrittenBy(i, k) THEN 1 ELSE 0
    BY DEF CciInv
  <2>2. \A i \in Tasks : WrittenBy(i, k)' <=> WrittenBy(i, k)
    BY <1>3, <1>5 DEF WrittenBy
  <2>3. ASSUME NEW i, i = launched PROVE ~ WrittenBy(i, k)'
    <3>1. Start(i)' = Start(launched) /\ next'[i] = Start(launched)
      BY <1>3, <1>5, <2>3
    <3> QED BY <1>4, <3>1 DEF WrittenBy
  <2>4. (\E i \in Tasks' : WrittenBy(i, k)') <=> \E i \in Tasks : WrittenBy(i, k)
    BY <1>2, <2>2, <2>3
  <2> QED BY <1>1, <2>1, <2>4
<1>9. ~ (excess < numThreads)
  <2> SUFFICES ASSUME excess < numThreads PROVE FALSE
    OBVIOUS
  <2>1. chunkSize = 0 /\ launched = 0
    BY <1>1, ChunkSize DEF CciInv
  <2>2. Start(0) = 0 /\ End(0) = IF 0 = numThreads - 1 THEN excess ELSE 0
    BY <2>1 DEF Start, End
  <2> QED BY <1>1, <2>1, <2>2
<1> QED BY <1>1, <1>6, <1>7, <1>8, <1>9 DEF CciInv, Ended

\* A task at its position: no other task has been there.
LEMMA CciAlone ==
    ASSUME CciInv, NEW i \in Tasks, Running(i)
    PROVE  /\ next[i] \in 0 .. excess - 1
           /\ last[i] = End(i)
           /\ \A j \in Tasks : ~ WrittenBy(j, next[i])
           /\ excess \in Nat /\ numThreads \in Nat \ {0} /\ i \in 0 .. numThreads - 1
<1>1. /\ excess \in Nat /\ numThreads \in Nat \ {0}
      /\ \A j \in Tasks : j \in 0 .. numThreads - 1 /\ next[j] \in Nat /\ last[j] \in Nat
  BY DEF CciInv, CciTypeOK, Tasks
<1>2. \A j \in Tasks : Start(j) <= next[j] /\ next[j] <= last[j] /\ last[j] <= End(j)
  BY DEF CciInv, Progress
<1>3. \A j \in Tasks : Start(j) \in Nat /\ End(j) \in Nat /\ End(j) <= excess
  BY <1>1, Chunks
<1>4. next[i] < last[i]
  BY DEF Running
<1>5. last[i] = End(i)
  <2>1. last[i] # next[i]
    BY <1>1, <1>4
  <2> QED BY <2>1 DEF CciInv, Progress
<1>6. ASSUME NEW j \in Tasks, WrittenBy(j, next[i]) PROVE FALSE
  <2>1. Start(j) <= next[i] /\ next[i] < next[j]
    BY <1>6 DEF WrittenBy
  <2>2. CASE j < i
    <3>1. End(j) <= Start(i)
      BY <1>1, <2>2, Chunks
    <3> QED BY <1>1, <1>2, <1>3, <2>1, <3>1
  <2>3. CASE j > i
    <3>1. End(i) <= Start(j)
      <4>1. i < j
        BY <1>1, <2>3
      <4> QED BY <1>1, <4>1, Chunks
    <3> QED BY <1>1, <1>3, <1>4, <1>5, <2>1, <3>1
  <2>4. CASE j = i
    BY <1>1, <2>1, <2>4
  <2> QED BY <1>1, <2>2, <2>3, <2>4
<1>7. next[i] \in 0 .. excess - 1
  BY <1>1, <1>2, <1>3, <1>4
<1> QED BY <1>1, <1>5, <1>6, <1>7

LEMMA CciComputed ==
    ASSUME CciInv, NEW i \in Tasks, Compute(i)
    PROVE  CciInv'
<1>1. /\ Running(i) /\ Fits(next[i])
      /\ cciValues' = [cciValues EXCEPT ![next[i]] = cciValues[next[i]] + 1]
      /\ next' = [next EXCEPT ![i] = next[i] + 1]
      /\ UNCHANGED <<form, excess, longer, numThreads, step, launched, last>>
  BY DEF Compute
<1>2. /\ next[i] \in 0 .. excess - 1 /\ last[i] = End(i)
      /\ \A j \in Tasks : ~ WrittenBy(j, next[i])
  BY <1>1, CciAlone
<1>3. /\ CciTypeOK /\ next[i] \in Nat /\ last[i] \in Nat /\ Start(i) \in Nat
      /\ cciValues \in [0 .. excess - 1 -> Nat] /\ excess \in Nat
  <2>1. Start(i) \in Nat
    BY <1>1, CciAlone, Chunks
  <2> QED BY <2>1 DEF CciInv, CciTypeOK
<1>4. /\ Tasks' = Tasks /\ \A j : Start(j)' = Start(j) /\ End(j)' = End(j)
      /\ \A k : Fits(k)' = Fits(k)
  BY <1>1 DEF Tasks, Start, End, chunkSize, Fits
<1>5. next'[i] = next[i] + 1 /\ \A j \in Tasks : j # i => next'[j] = next[j]
  BY <1>1, <1>3 DEF CciTypeOK
<1>6. CciTypeOK'
  <2>1. DOMAIN next' = Tasks /\ \A j \in Tasks : next'[j] \in Nat
    BY <1>1, <1>3, <1>5 DEF CciTypeOK
  <2>2. cciValues' \in [0 .. excess - 1 -> Nat]
    <3>1. cciValues[next[i]] + 1 \in Nat
      BY <1>2, <1>3
    <3> QED BY <1>1, <1>3, <3>1
  <2> QED BY <1>1, <1>3, <1>4, <2>1, <2>2 DEF CciTypeOK
<1>7. ASSUME NEW j \in Tasks PROVE Progress(j)'
  <2>1. Progress(j)
    BY DEF CciInv
  <2>2. CASE j # i
    BY <1>1, <1>4, <1>5, <2>1, <2>2 DEF Progress
  <2>3. CASE j = i
    <3>1. next[i] < last[i] /\ Start(i) <= next[i] /\ last[i] <= End(i)
      BY <1>1, <2>1, <2>3 DEF Running, Progress
    <3>2. Start(i) <= next[i] + 1 /\ next[i] + 1 <= last[i] /\ next[i] + 1 - 1 = next[i]
      BY <1>3, <3>1
    <3> QED BY <1>1, <1>2, <1>4, <1>5, <2>3, <3>1, <3>2 DEF Progress
  <2> QED BY <2>2, <2>3
<1>8. ASSUME NEW k \in 0 .. excess - 1
      PROVE  cciValues'[k] = IF \E j \in Tasks : WrittenBy(j, k)' THEN 1 ELSE 0
  <2>1. cciValues[k] = IF \E j \in Tasks : WrittenBy(j, k) THEN 1 ELSE 0
    BY DEF CciInv
  <2>2. \A j \in Tasks : j # i => (WrittenBy(j, k)' <=> WrittenBy(j, k))
    BY <1>4, <1>5 DEF WrittenBy
  <2>3. CASE k = next[i]
    <3>1. cciValues[k] = 0
      BY <1>2, <2>1, <2>3
    <3>2. cciValues'[k] = 1
      BY <1>1, <1>2, <1>3, <2>3, <3>1
    <3>3. WrittenBy(i, k)'
      <4>1. Start(i) <= next[i]
        BY DEF CciInv, Progress
      <4> QED BY <1>3, <1>4, <1>5, <2>3, <4>1 DEF WrittenBy
    <3> QED BY <3>2, <3>3
  <2>4. CASE k # next[i]
    <3>1. cciValues'[k] = cciValues[k]
      BY <1>1, <1>3, <2>4
    <3>2. WrittenBy(i, k)' <=> WrittenBy(i, k)
      <4>1. k < next[i] + 1 <=> k < next[i]
        BY <1>3, <2>4
      <4> QED BY <1>4, <1>5, <4>1 DEF WrittenBy
    <3>3. (\E j \in Tasks : WrittenBy(j, k)') <=> \E j \in Tasks : WrittenBy(j, k)
      BY <2>2, <3>2
    <3> QED BY <2>1, <3>1, <3>3
  <2> QED BY <2>3, <2>4
<1>9. ~ AllJoined
  BY <1>1 DEF AllJoined, Tasks
<1>10. step' \in Ended => ~More'
  BY <1>1, <1>4 DEF CciInv, More
<1> QED BY <1>1, <1>4, <1>6, <1>7, <1>8, <1>9, <1>10 DEF CciInv

LEMMA CciStopped ==
    ASSUME CciInv, NEW i \in Tasks, PastTheData(i)
    PROVE  CciInv'
<1>1. /\ Running(i) /\ ~Fits(next[i])
      /\ last' = [last EXCEPT ![i] = next[i]]
      /\ UNCHANGED <<form, excess, longer, numThreads, step, launched, next, cciValues>>
  BY DEF PastTheData
<1>2. /\ CciTypeOK /\ next[i] \in Nat /\ End(i) \in Nat /\ last[i] \in Nat
  <2>1. End(i) \in Nat
    BY <1>1, CciAlone, Chunks
  <2> QED BY <2>1 DEF CciInv, CciTypeOK
<1>3. /\ Tasks' = Tasks /\ \A j : Start(j)' = Start(j) /\ End(j)' = End(j)
      /\ \A k : Fits(k)' = Fits(k)
  BY <1>1 DEF Tasks, Start, End, chunkSize, Fits
<1>4. last'[i] = next[i] /\ \A j \in Tasks : j # i => last'[j] = last[j]
  BY <1>1, <1>2 DEF CciTypeOK
<1>5. CciTypeOK'
  <2>1. DOMAIN last' = Tasks /\ \A j \in Tasks : last'[j] \in Nat
    BY <1>1, <1>2, <1>4 DEF CciTypeOK
  <2> QED BY <1>1, <1>2, <1>3, <2>1 DEF CciTypeOK
<1>6. ASSUME NEW j \in Tasks PROVE Progress(j)'
  <2>1. Progress(j)
    BY DEF CciInv
  <2>2. CASE j # i
    BY <1>1, <1>3, <1>4, <2>1, <2>2 DEF Progress
  <2>3. CASE j = i
    <3>1. next[i] <= last[i] /\ last[i] <= End(i)
      BY <2>1, <2>3 DEF Progress
    <3>2. next[i] <= End(i) /\ next[i] <= next[i]
      BY <1>2, <3>1
    <3> QED BY <1>1, <1>3, <1>4, <2>1, <2>3, <3>2 DEF Progress
  <2> QED BY <2>2, <2>3
<1>7. \A k \in 0 .. excess - 1 :
          cciValues[k] = IF \E j \in Tasks : WrittenBy(j, k)' THEN 1 ELSE 0
  BY <1>1, <1>3 DEF CciInv, WrittenBy
<1>8. ~ AllJoined
  BY <1>1 DEF AllJoined, Tasks
<1>9. step' \in Ended => ~More'
  BY <1>1, <1>3 DEF CciInv, More
<1> QED BY <1>1, <1>3, <1>5, <1>6, <1>7, <1>8, <1>9 DEF CciInv

LEMMA CciStep == CciInv /\ [CciNext]_cciVars => CciInv'
<1> SUFFICES ASSUME CciInv, [CciNext]_cciVars PROVE CciInv'
  OBVIOUS
<1>1. /\ step \in {"called", "launching", "joining", "unwinding", "returned", "thrown", "crashed"}
      /\ numThreads \in Nat /\ launched \in Nat
  BY DEF CciInv, CciTypeOK
<1>2. CASE Divide
  <2>1. AllJoined
    BY <1>1, <1>2 DEF Divide, CciInv, AllJoined
  <2> QED BY <1>2, <2>1, CciPhase DEF Divide, Ended
<1>3. CASE Launch
  BY <1>3, CciLaunched
<1>4. CASE LaunchFails
  BY <1>4, CciPhase DEF LaunchFails, Ended, CciInv
<1>5. CASE LaunchEnds
  BY <1>5, CciPhase DEF LaunchEnds, Ended, CciInv
<1>6. ASSUME NEW i \in 0 .. launched - 1, Compute(i) \/ PastTheData(i) PROVE CciInv'
  BY <1>6, CciComputed, CciStopped DEF Tasks
<1>7. CASE JoinAll
  BY <1>7, CciPhase DEF JoinAll, Ended, CciInv
<1>8. CASE Unwind
  BY <1>8, CciPhase DEF Unwind, Ended, CciInv
<1>9. CASE UNCHANGED cciVars
  BY <1>1, <1>9, CciPhase DEF cciVars, Ended, CciInv
<1> QED BY <1>2, <1>3, <1>4, <1>5, <1>6, <1>7, <1>8, <1>9 DEF CciNext

\* When everything is joined a value has been computed if its bars are there.
LEMMA CciComplete ==
    ASSUME CciInv, step = "returned", NEW k \in 0 .. excess - 1
    PROVE  cciValues[k] = (IF excess >= numThreads /\ Fits(k) THEN 1 ELSE 0)
<1>1. /\ excess \in Nat /\ longer \in Nat /\ numThreads \in Nat \ {0} /\ launched \in 0 .. numThreads
      /\ \A i \in Tasks : next[i] \in Nat /\ last[i] \in Nat
  BY DEF CciInv, CciTypeOK
<1>2. cciValues[k] = IF \E i \in Tasks : WrittenBy(i, k) THEN 1 ELSE 0
  BY DEF CciInv
<1>3. CASE excess < numThreads
  <2>1. Tasks = {}
    BY <1>3 DEF CciInv, Tasks
  <2> QED BY <1>1, <1>2, <1>3, <2>1
<1>4. ASSUME excess >= numThreads, Fits(k) PROVE \E i \in Tasks : WrittenBy(i, k)
  <2>1. launched = numThreads
    <3>1. ~More
      BY DEF CciInv, Ended
    <3>2. launched < numThreads => launched \in 0 .. numThreads - 1
      BY <1>1
    <3> QED BY <1>1, <1>4, <3>1, <3>2, Chunks DEF More
  <2>2. PICK i \in 0 .. numThreads - 1 : Start(i) <= k /\ k < End(i)
    BY <1>1, <1>4, ChunksCover
  <2>3. i \in Tasks
    BY <2>1 DEF Tasks
  <2>4. Progress(i) /\ ~Running(i)
    BY <2>3 DEF CciInv, AllJoined, Tasks
  <2>5. next[i] = last[i]
    BY <1>1, <2>3, <2>4 DEF Progress, Running
  <2>6. CASE last[i] = End(i)
    BY <2>2, <2>3, <2>5, <2>6 DEF WrittenBy
  <2>7. CASE ~Fits(next[i])
    <3>1. k <= excess - longer /\ ~ (next[i] <= excess - longer)
      BY <1>4, <2>7 DEF Fits
    <3>2. k < next[i]
      BY <1>1, <2>3, <3>1
    <3> QED BY <2>2, <2>3, <3>2 DEF WrittenBy
  <2> QED BY <2>4, <2>6, <2>7 DEF Progress
<1>5. ASSUME ~Fits(k), NEW i \in Tasks, WrittenBy(i, k) PROVE FALSE
  <2>1. Start(i) <= k /\ k < next[i] /\ Progress(i) /\ next[i] \in Nat
    BY <1>1, <1>5 DEF WrittenBy, CciInv
  <2>2. Start(i) \in Nat
    <3>1. i \in 0 .. numThreads - 1
      BY <1>1 DEF Tasks
    <3> QED BY <1>1, <3>1, Chunks
  <2>3. Fits(next[i] - 1)
    BY <2>1, <2>2 DEF Progress
  <2> QED BY <1>1, <1>5, <2>1, <2>3 DEF Fits
<1> QED BY <1>1, <1>2, <1>3, <1>4, <1>5

(* For any number of bars, any period and any number of hardware threads, the *)
(* tasks share the values out among them (CCI.cpp:19-39, 98-118).             *)
THEOREM CciTasksShareOut == CciSpec => []CciRangesPartition
<1>1. CciInv => CciRangesPartition
  <2> SUFFICES ASSUME CciInv PROVE CciRangesPartition
    OBVIOUS
  <2>1. DOMAIN cciValues = 0 .. excess - 1
    BY DEF CciInv, CciTypeOK
  <2>2. \A k \in DOMAIN cciValues : cciValues[k] <= 1
    BY <2>1 DEF CciInv
  <2>3. step = "returned" =>
            \A k \in DOMAIN cciValues :
                cciValues[k] = (IF excess >= numThreads /\ Fits(k) THEN 1 ELSE 0)
    BY <2>1, CciComplete
  <2> QED BY <2>2, <2>3 DEF CciInv, CciRangesPartition
<1> QED BY <1>1, CciInitial, CciStep, CciAssumption, PTL DEF CciSpec

-----------------------------------------------------------------------------
(* The server. *)

(* Whichever program is in the build, each of them does only what it does by  *)
(* itself, or nothing: what is shown of the parts holds of the server         *)
(* (main.cpp:25-93).                                                          *)
THEOREM PartsOfServer == ServerSpec => BotSpec /\ TesterSpec /\ CallsSpec /\ CciSpec
<1>1. ServerInit => BotInit /\ TesterInit /\ CallsInit /\ CciInit
  BY DEF ServerInit
<1>2. [ServerNext]_serverVars => /\ [BotNext]_botVars /\ [TesterNext]_testerVars
                                 /\ [CallsNext]_callVars /\ [CciNext]_cciVars
  BY DEF ServerNext, serverVars
<1> QED BY <1>1, <1>2, PTL DEF ServerSpec, BotSpec, TesterSpec, CallsSpec, CciSpec

(* The invariants of the parts, of the whole server.                           *)
THEOREM ServerKeepsAll ==
    ServerSpec => [](/\ EveryBarInOneCandle /\ CrashesOnlyOnFreedMemory /\ OffByMissedOrders
                     /\ AtMostOneOrderAfterStop /\ SilentAtRealPrices
                     /\ MoneyAccounted /\ LabelsFit /\ CciRangesPartition
                     /\ SignalsAreSound /\ GapsNeverCount)
BY PartsOfServer, EveryBarIsKept, EmaIsGuarded, PositionOffByMissed, OneOrderAfterStop,
   SilentStrategies, MoneyIsAccounted, LabelsAreFitted, CciTasksShareOut,
   SignalsAreTheSeries, GapsAreLeftOut, PTL
=============================================================================
