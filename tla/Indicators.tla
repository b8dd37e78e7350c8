------------------------------ MODULE Indicators ------------------------------
(***************************************************************************)
(* The technical indicators of AlgoEngine-Core/indicators that the trading *)
(* bots of Velocity-Bot compute from their candles, as far as the bots     *)
(* compare them.  A price is a whole number of ticks, a ratio is kept as   *)
(* numerator and denominator, and a comparison is multiplied out, so that  *)
(* it is exact.                                                            *)
(*                                                                         *)
(* The program is built with -ffast-math: a comparison with 0 / 0 may come *)
(* out either way, so a comparison is the set of its possible results.     *)
(***************************************************************************)
EXTENDS Integers, Sequences, SequencesExt

Candle == [high: Nat, low: Nat, close: Nat]

\* A Bar as its constructor leaves it: what parseLatestBars returns when the
\* answer is no JSON or has nothing for the symbol.
NoBar == [high |-> 0, low |-> 0, close |-> 0]

Total(s) ==
    LET Sum[n \in 0 .. Len(s)] == IF n = 0 THEN 0 ELSE Sum[n - 1] + s[n]
    IN  Sum[Len(s)]
Closes(h) == [i \in DOMAIN h |-> h[i].close]
Latest(h, n) == SubSeq(h, Len(h) - n + 1, Len(h))
Highest(h) == CHOOSE x \in {h[i].high : i \in DOMAIN h} : \A i \in DOMAIN h : h[i].high <= x
Lowest(h) == CHOOSE x \in {h[i].low : i \in DOMAIN h} : \A i \in DOMAIN h : h[i].low >= x

\* buildAggregatedCandle
Aggregated(bars) == [high |-> Highest(bars), low |-> Lowest(bars), close |-> Last(bars).close]

Positive(x) == IF x > 0 THEN x ELSE 0
Magnitude(x) == IF x < 0 THEN -x ELSE x

\* The results of comparing a / b with x / y, for b, y >= 0: 0 / 0 is no number.
IsLess(a, b, x, y) == IF b = 0 \/ y = 0 THEN BOOLEAN ELSE {a * y < x * b}
IsMore(a, b, x, y) == IsLess(x, y, a, b)

-----------------------------------------------------------------------------

\* SMA: the mean of the last p closes.
Sma(h, p) == [num |-> Total(Latest(Closes(h), p)), den |-> p]

\* EMA: it starts from the mean of the first p closes; each further one enters
\* with weight 2 / (p + 1).
Ema(h, p) ==
    LET E[n \in p .. Len(h)] ==
            IF n = p THEN [num |-> Total(SubSeq(Closes(h), 1, p)), den |-> p]
            ELSE LET e == E[n - 1]
                 IN  [num |-> 2 * h[n].close * e.den + (p - 1) * e.num, den |-> (p + 1) * e.den]
    IN  E[Len(h)]

EmaAboveSma(h, pe, ps) == Ema(h, pe).num * Sma(h, ps).den > Sma(h, ps).num * Ema(h, pe).den
EmaBelowSma(h, pe, ps) == Ema(h, pe).num * Sma(h, ps).den < Sma(h, ps).num * Ema(h, pe).den

\* RSI: gains and losses of the whole history, not of the period, which cancels.
\* Without a loss it is 100.
Gain(h) == Total([i \in 1 .. Len(h) - 1 |-> Positive(h[i + 1].close - h[i].close)])
Loss(h) == Total([i \in 1 .. Len(h) - 1 |-> Positive(h[i].close - h[i + 1].close)])
RsiBelow(h, x) == Loss(h) > 0 /\ 100 * Gain(h) < x * (Gain(h) + Loss(h))
RsiAbove(h, x) == Loss(h) = 0 \/ 100 * Gain(h) > x * (Gain(h) + Loss(h))

\* Bollinger bands: mean +- k deviations of the last p closes.  calculate returns
\* the upper band first.  With D the last close less the mean, times p, and V the
\* variance, times p * p, the comparisons need no root.
Deviation(h, p) == p * Last(h).close - Total(Latest(Closes(h), p))
Variance(h, p) ==
    LET c == Latest(Closes(h), p)
    IN  p * Total([i \in DOMAIN c |-> c[i] * c[i]]) - Total(c) * Total(c)

PriceBelow(h, p, k, band) ==
    LET d == Deviation(h, p)  v == k * k * Variance(h, p)
    IN  IF band = "upper" THEN d < 0 \/ d * d < v ELSE d < 0 /\ d * d > v
PriceAbove(h, p, k, band) ==
    LET d == Deviation(h, p)  v == k * k * Variance(h, p)
    IN  IF band = "lower" THEN d > 0 \/ d * d < v ELSE d > 0 /\ d * d > v

FirstBand == "upper"
SecondBand == "lower"

\* Faulty: the falls are added up as they are.
AsPositive(x) == Positive(x)
AsNegative(x) == -Positive(x)

\* ADX: the falls are counted as negative, so the index is 0 or at least 100.
\* Without any range it is 0 / 0.
Rise(h, i) == h[i].high - h[i - 1].high
Fall(h, i) == h[i - 1].low - h[i].low
PlusDM(h) == Total([i \in 1 .. Len(h) - 1 |->
    IF Rise(h, i + 1) > Fall(h, i + 1) THEN Positive(Rise(h, i + 1)) ELSE 0])
MinusDM(h) == Total([i \in 1 .. Len(h) - 1 |->
    IF Fall(h, i + 1) > Rise(h, i + 1) THEN AsNegative(Fall(h, i + 1)) ELSE 0])
HasRange(h) == \E i \in 2 .. Len(h) :
    h[i].high # h[i].low \/ h[i].high # h[i - 1].close \/ h[i].low # h[i - 1].close

AdxAbove(h, x) ==
    LET p == PlusDM(h)  m == MinusDM(h)
    IN  IF ~HasRange(h) THEN BOOLEAN
        ELSE IF p + m = 0 THEN {0 > x}
        ELSE IsMore(100 * Magnitude(p - m), Magnitude(p + m), x, 1)
AdxBelow(h, x) ==
    LET p == PlusDM(h)  m == MinusDM(h)
    IN  IF ~HasRange(h) THEN BOOLEAN
        ELSE IF p + m = 0 THEN {0 < x}
        ELSE IsLess(100 * Magnitude(p - m), Magnitude(p + m), x, 1)

\* Stochastic oscillator: where the close lies between the extremes of the
\* last p candles.
StochasticBelow(h, p, x) ==
    LET c == Latest(h, p)
    IN  IsLess(100 * (Last(h).close - Lowest(c)), Highest(c) - Lowest(c), x, 1)
StochasticAbove(h, p, x) ==
    LET c == Latest(h, p)
    IN  IsMore(100 * (Last(h).close - Lowest(c)), Highest(c) - Lowest(c), x, 1)
=============================================================================
