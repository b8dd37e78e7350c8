---------------------------- MODULE IndicatorCalls ----------------------------
(***************************************************************************)
(* An indicator of AlgoEngine-Core as an object: the calls its base class  *)
(* Indicator.hpp offers, in any order, and what they leave in it.  Beside  *)
(* calculateSignal each class has a calculate, which gives the whole series *)
(* for given candles and is written separately; this module relates them.  *)
(*                                                                         *)
(* A value is a ratio [num, den], and den may be 0.                        *)
(***************************************************************************)
EXTENDS Indicators

CONSTANTS
    Kinds,       \* the classes an object may be of
    Periods,     \* what its period may be set to, up to LongPeriod
    LongPeriod,  \* of APO
    Smoothings,  \* what smoothK and smoothD of StochasticOscillator may be
    PerShare,    \* earnings and dividend per share, of PERatio and DividendYield
    Given,       \* candles with a volume that addData may be given
    MaxGiven,    \* how many: a bound
    MaxCalls     \* and of the other calls together

AllKinds == {"SMA", "MA", "EMA", "RSI", "ADX", "OBV", "VWAP", "MFI", "ATR", "APO", "Stochastic",
             "Fibonacci", "Bands", "PERatio", "DividendYield"}

ASSUME CallsAssumption ==
    /\ Kinds \subseteq AllKinds
    /\ Periods \subseteq Nat \ {0}
    /\ Smoothings \subseteq Nat \ {0}
    /\ PerShare \in Int
    /\ LongPeriod \in Nat /\ \A p \in Periods : p <= LongPeriod
    /\ Given \subseteq [high: Nat, low: Nat, close: Nat, volume: Nat]
    /\ \A b \in Given : b.low <= b.close /\ b.close <= b.high
    /\ MaxGiven \in Nat /\ MaxCalls \in Nat

Ratio(n, d) == [num |-> n, den |-> d]
Same(r, s) == r.num * s.den = s.num * r.den
Percent(part, whole) == Ratio(100 * part, whole)
Prefix(h, i) == SubSeq(h, 1, i)

-----------------------------------------------------------------------------
(* calculate: the series, a value for each candle that has one. *)

\* SMA and MA
Means(h, p) == [i \in p .. Len(h) |-> Ratio(Total([j \in 1 .. p |-> h[i - p + j].close]), p)]

\* EMA: 0 where there are too few closes
EmaValues(h, p) ==
    LET E[i \in 1 .. Len(h)] ==
            IF i < p THEN Ratio(0, 1)
            ELSE IF i = p THEN Ratio(Total(Closes(Prefix(h, p))), p)
            ELSE Ratio(2 * h[i].close * E[i - 1].den + (p - 1) * E[i - 1].num,
                       (p + 1) * E[i - 1].den)
    IN  E

\* RSI: of the changes to the last p closes
RsiOf(gain, loss) == IF loss = 0 THEN Ratio(100, 1) ELSE Percent(gain, gain + loss)
RsiValues(h, p) ==
    [i \in p + 1 .. Len(h) |->
        LET Change(j) == h[i - p + j].close - h[i - p + j - 1].close
        IN  RsiOf(Total([j \in 1 .. p |-> Positive(Change(j))]),
                  Total([j \in 1 .. p |-> Positive(-Change(j))]))]

\* ADX: one value, for all candles
AdxOf(h) ==
    LET p == PlusDM(h)  m == MinusDM(h)
    IN  IF p + m = 0 /\ HasRange(h) THEN Ratio(0, 1)
        ELSE Percent(Magnitude(p - m), Magnitude(p + m))

\* OBV: the volume of the rises less that of the falls
Signed(h, i) ==
    IF h[i].close > h[i - 1].close THEN h[i].volume
    ELSE IF h[i].close < h[i - 1].close THEN -h[i].volume ELSE 0
ObvValues(h) == [i \in 2 .. Len(h) |-> Ratio(Total([j \in 1 .. i - 1 |-> Signed(h, j + 1)]), 1)]

\* VWAP: price times volume by volume, since the first candle
Volume(h) == Total([i \in DOMAIN h |-> h[i].volume])
VwapValues(h) ==
    [i \in DOMAIN h |->
        Ratio(Total([j \in 1 .. i |-> h[j].close * h[j].volume]), Volume(Prefix(h, i)))]

\* MFI: sums over the first p candles, then averages that give a new flow the weight
\* 1 / p.  A candle at the price of the one before changes neither flow.
Typical(b) == b.high + b.low + b.close
FlowUp(h, i) == IF Typical(h[i]) > Typical(h[i - 1]) THEN Typical(h[i]) * h[i].volume ELSE 0
FlowDown(h, i) == IF Typical(h[i]) < Typical(h[i - 1]) THEN Typical(h[i]) * h[i].volume ELSE 0
Flows(h, p) ==
    LET F[i \in p .. Len(h)] ==
            IF i = p
            THEN [up |-> Total([j \in 1 .. p - 1 |-> FlowUp(h, j + 1)]),
                  down |-> Total([j \in 1 .. p - 1 |-> FlowDown(h, j + 1)]), scale |-> 1]
            ELSE IF Typical(h[i]) = Typical(h[i - 1]) THEN F[i - 1]
            ELSE LET f == F[i - 1]
                 IN  [up |-> f.up * (p - 1) + FlowUp(h, i) * f.scale,
                      down |-> f.down * (p - 1) + FlowDown(h, i) * f.scale,
                      scale |-> f.scale * p]
    IN  F
\* With no flow at all the first value is 100, a later one 0.
MfiValues(h, p) ==
    [i \in p .. Len(h) |->
        LET f == Flows(h, p)[i]
        IN  IF f.down = 0 /\ i = p THEN Ratio(100, 1)
            ELSE IF f.up = 0 THEN Ratio(0, 1)
            ELSE Percent(f.up, f.up + f.down)]

\* ATR: the mean of the first p true ranges, then an average like that of MFI
Largest(a, b, c) == IF a >= b /\ a >= c THEN a ELSE IF b >= c THEN b ELSE c
TrueRange(b, close) == Largest(b.high - b.low, Magnitude(b.high - close), Magnitude(b.low - close))
Smoothed(r, p, x) == Ratio(r.num * (p - 1) + x * r.den, r.den * p)
AtrValues(h, p) ==
    LET TR(i) == TrueRange(h[i], h[i - 1].close)
        A[i \in p + 1 .. Len(h)] ==
            IF i = p + 1 THEN Ratio(Total([j \in 1 .. p |-> TR(j + 1)]), p)
            ELSE Smoothed(A[i - 1], p, TR(i))
    IN  A

\* APO: the difference of two averages like those of EMA, which begin with a close
Average(seed, closes, p) ==
    LET A[i \in 0 .. Len(closes)] ==
            IF i = 0 THEN Ratio(seed, 1)
            ELSE Ratio(2 * closes[i] * A[i - 1].den + (p - 1) * A[i - 1].num, (p + 1) * A[i - 1].den)
    IN  A[Len(closes)]
Less(r, s) == Ratio(r.num * s.den - s.num * r.den, r.den * s.den)
ApoValues(h, p, q) ==
    [i \in q .. Len(h) |->
        LET c == Closes(Prefix(h, i))
        IN  Less(Average(c[1], Tail(c), p), Average(c[1], Tail(c), q))]

\* Stochastic oscillator: where each close lies in its last p candles, ...
StochasticOf(c) == Percent(Last(c).close - Lowest(c), Highest(c) - Lowest(c))
KValues(h, p) == [i \in p .. Len(h) |-> StochasticOf(SubSeq(h, i - p + 1, i))]

Plus(r, s) == Ratio(r.num * s.den + s.num * r.den, r.den * s.den)
MeanOfRatios(s) ==
    LET Sum[n \in 0 .. Len(s)] == IF n = 0 THEN Ratio(0, 1) ELSE Plus(Sum[n - 1], s[n])
    IN  Ratio(Sum[Len(s)].num, Sum[Len(s)].den * Len(s))
LastMean(values, i, n) == MeanOfRatios([j \in 1 .. n |-> values[i - n + j]])

\* ... which calculate gives as pairs: the mean of the last k, and of the means the mean
\* of the last d, 0 where there are too few.  With fewer candles than p + k + d it throws.
SmoothedK(h, p, k) == [i \in p + k - 1 .. Len(h) |-> LastMean(KValues(h, p), i, k)]
SmoothedD(h, p, k, d) == [i \in p + k + d - 2 .. Len(h) |-> LastMean(SmoothedK(h, p, k), i, d)]
StochasticValues(h, p, k, d) ==
    [i \in {n \in p + k - 1 .. Len(h) : p + k + d <= Len(h)} |->
        [first |-> SmoothedK(h, p, k)[i],
         second |-> IF i < p + k + d - 2 THEN Ratio(0, 1) ELSE SmoothedD(h, p, k, d)[i]]]

\* Fibonacci retracement: levels between the extremes, in thousandths
Levels(h) ==
    LET top == Highest(h)  difference == top - Lowest(h)
    IN  [k \in 1 .. 5 |-> Ratio(1000 * top - difference * <<0, 236, 382, 618, 1000>>[k], 1000)]

\* Price to earnings, dividend to price: nothing without earnings or dividend
PeRatios(h, eps) == [i \in {j \in DOMAIN h : eps > 0} |-> Ratio(h[i].close, eps)]
DividendYields(h, dps) == [i \in {j \in DOMAIN h : dps > 0} |-> Ratio(dps, h[i].close)]

-----------------------------------------------------------------------------
(* The object. *)

VARIABLES
    kind, period,
    data,           \* historicalData
    signals,        \* the last of them, none before
    previousClose,  \* of ATR
    calls,          \* calls but those of addData
    asked,          \* history: how many candles there were when a signal was last asked for
    fresh           \* history: that recorded a signal, and nothing has changed since

callVars == <<kind, period, data, signals, previousClose, calls, asked, fresh>>

CallsInit ==
    /\ kind \in Kinds /\ period \in Periods
    /\ data = <<>> /\ signals = <<>>
    /\ previousClose = 0
    /\ calls = 0 /\ asked = 0 /\ fresh = FALSE

AddData(b) ==
    /\ Len(data) < MaxGiven
    /\ data' = Append(data, b)
    /\ fresh' = FALSE
    /\ UNCHANGED <<kind, period, signals, previousClose, calls, asked>>

Called == calls < MaxCalls /\ calls' = calls + 1

\* previousClose stays.
Reset ==
    /\ Called
    /\ data # <<>>
    /\ data' = <<>> /\ signals' = <<>>
    /\ asked' = 0 /\ fresh' = FALSE
    /\ UNCHANGED <<kind, period, previousClose>>

AdjustParameters(p) ==
    /\ Called
    /\ period' = p
    /\ fresh' = FALSE
    /\ UNCHANGED <<kind, data, signals, previousClose, asked>>

\* With less, the class throws before it changes anything, but for EMA, which writes
\* outside its vector: TradingBot has that case.
Enough ==
    CASE kind \in {"OBV", "Fibonacci", "VWAP"} -> data # <<>>
      [] kind \in {"PERatio", "DividendYield"} -> data # <<>> /\ PerShare > 0
      [] kind = "ATR" -> Len(data) >= 2
      [] kind = "APO" -> Len(data) >= period /\ Len(data) >= LongPeriod
      [] OTHER -> Len(data) >= period

\* ATR takes the range of the candle before the last, with the close it was last asked at.
\* Faulty: it takes the range of the last one.
RangeOfLast == TrueRange(Last(data), previousClose)
RangeNow == TrueRange(data[Len(data) - 1], previousClose)
AtrNow == IF signals = <<>> THEN Ratio(RangeNow, 1) ELSE Smoothed(signals[1], period, RangeNow)

\* APO begins both averages with the newest close.
ApoNow ==
    LET c == Closes(data)
    IN  Less(Average(Last(c), Latest(c, period), period),
             Average(Last(c), Latest(c, LongPeriod), LongPeriod))

\* RSI records nothing when there is no loss, nor does OBV with one candle anything but
\* an empty vector.  Of a vector the last value is kept, of the levels the second, and
\* of the bands the variance their width is the root of.
Recorded ==
    CASE kind \in {"SMA", "MA"} -> <<Sma(data, period)>>
      [] kind = "EMA" -> <<Ema(data, period)>>
      [] kind = "RSI" -> IF Loss(data) = 0 THEN <<>> ELSE <<RsiOf(Gain(data), Loss(data))>>
      [] kind = "ADX" -> <<AdxOf(data)>>
      [] kind = "OBV" -> IF Len(data) = 1 THEN <<>> ELSE <<ObvValues(data)[Len(data)]>>
      [] kind = "VWAP" -> <<VwapValues(data)[Len(data)]>>
      [] kind = "MFI" -> <<MfiValues(data, period)[Len(data)]>>
      [] kind = "ATR" -> <<AtrNow>>
      [] kind = "APO" -> <<ApoNow>>
      [] kind = "Stochastic" -> <<StochasticOf(Latest(data, period))>>
      [] kind = "Fibonacci" -> <<Levels(data)[2]>>
      [] kind = "PERatio" -> <<PeRatios(data, PerShare)[Len(data)]>>
      [] kind = "DividendYield" -> <<DividendYields(data, PerShare)[Len(data)]>>
      [] kind = "Bands" -> <<Ratio(Variance(data, period), period * period)>>

CalculateSignal ==
    /\ Called
    /\ Enough
    /\ signals' = IF Recorded = <<>> THEN signals ELSE Recorded
    /\ previousClose' = IF kind = "ATR" THEN Last(data).close ELSE previousClose
    /\ asked' = Len(data)
    /\ fresh' = (Recorded # <<>>)
    /\ UNCHANGED <<kind, period, data>>

CallsNext ==
    \/ \E b \in Given : AddData(b)
    \/ CalculateSignal
    \/ Reset
    \/ \E p \in Periods : AdjustParameters(p)

CallsSpec == CallsInit /\ [][CallsNext]_callVars

-----------------------------------------------------------------------------
(* Properties. *)

Within(r, least, most) == least * r.den <= r.num /\ r.num <= most * r.den
LowestClose == CHOOSE x \in {data[i].close : i \in DOMAIN data} : \A i \in DOMAIN data : x <= data[i].close
HighestClose == CHOOSE x \in {data[i].close : i \in DOMAIN data} : \A i \in DOMAIN data : x >= data[i].close

Agrees(r) ==
    LET n == Len(data)
    IN  CASE kind \in {"SMA", "MA"} -> Same(r, Means(data, period)[n])
          [] kind = "EMA" -> Same(r, EmaValues(data, period)[n])
          [] kind = "RSI" -> Same(r, RsiValues(data, n - 1)[n])
          [] kind = "Stochastic" ->
                \A d \in Smoothings : period + 1 + d <= n =>
                    Same(r, StochasticValues(data, period, 1, d)[n].first)
          [] OTHER -> TRUE

HasItsRange(r) ==
    LET spread == HighestClose - LowestClose
    IN  CASE kind \in {"SMA", "MA", "EMA", "VWAP"} -> Within(r, LowestClose, HighestClose)
          [] kind \in {"RSI", "MFI", "Stochastic"} -> Within(r, 0, 100)
          [] kind = "ADX" -> r.num = 0 \/ r.num >= 100 * r.den
          [] kind = "OBV" -> Within(r, -Volume(Tail(data)), Volume(Tail(data)))
          [] kind = "APO" -> Within(r, -spread, spread)
          [] kind = "Fibonacci" -> Within(r, Lowest(data), Highest(data))
          [] OTHER -> r.num >= 0

\* Every value of the series of ATR is between the true ranges it averages, every one of
\* APO within the spread of the closes, and both of every pair of the stochastic
\* oscillator are percentages.
SeriesKeepTheirRange ==
    LET Ranges == {TrueRange(data[i], data[i - 1].close) : i \in 2 .. Len(data)}
        spread == HighestClose - LowestClose
    IN  /\ \A i \in period + 1 .. Len(data) :
            \E least, most \in Ranges : Within(AtrValues(data, period)[i], least, most)
        /\ \A i \in LongPeriod .. Len(data) :
            Within(ApoValues(data, period, LongPeriod)[i], -spread, spread)
        /\ \A k, d \in Smoothings :
            LET pairs == StochasticValues(data, period, k, d)
            IN  \A i \in DOMAIN pairs :
                    Within(pairs[i].first, 0, 100) /\ Within(pairs[i].second, 0, 100)

(* Whatever calls came before: a signal that was just recorded is what the class's    *)
(* calculate, which is written separately, gives for the same candles and period      *)
(* (SMA, MA, EMA), for RSI at the period of the whole history, and for the stochastic   *)
(* oscillator, which ignores its smoothK, where calculate is given a smoothK of 1.      *)
(* Averages are within the closes they are of, percentages from 0 to 100, the smoothed  *)
(* pairs too, except ADX, which counts the falls as negative and is 0 or at least 100   *)
(* (SMA.cpp:6, 39; RSI.cpp:7, 45; EMA.cpp:6, 34; StochasticOscillator.cpp:23, 55-69;    *)
(* ADX.cpp:23; ATR.cpp:34-71; APO.cpp:33-66).                                           *)
SignalsAreSound ==
    /\ fresh => Agrees(signals[1]) /\ HasItsRange(signals[1])
    /\ SeriesKeepTheirRange

(* ATR.cpp:14-19: asked at each candle, the range it averages is that of the candle    *)
(* before the last by itself.  The gap between two candles, for which a true range     *)
(* has the close before it, never counts.                                              *)
GapsNeverCount ==
    kind = "ATR" /\ asked >= 2 /\ asked = Len(data) - 1 =>
        RangeNow = data[asked].high - data[asked].low
=============================================================================
