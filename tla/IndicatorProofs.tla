--------------------------- MODULE IndicatorProofs ---------------------------
(***************************************************************************)
(* What holds of an indicator as an object for any candles, periods and     *)
(* calls.  A recursive definition of the model is shown to define a function *)
(* along its interval, and what it computes is bounded by induction along   *)
(* the interval: a mean stays within what it is of, whatever its weights.    *)
(***************************************************************************)
EXTENDS IndicatorCalls, DataLemmas

-----------------------------------------------------------------------------
(* Totals, and the closes of some candles in a row. *)

LEMMA TotalIsSum ==
    ASSUME NEW s \in Seq(Int)
    PROVE  Total(s) = SumOf(s)
<1> DEFINE n == Len(s)
           IsTotals(f) == f = [k \in 0 .. n |-> IF k = 0 THEN 0 ELSE f[k - 1] + s[k]]
           F == CHOOSE f : IsTotals(f)
           P == Sums(s)
<1>1. /\ P \in [0 .. n -> Int] /\ P[0] = 0 /\ n \in Nat
      /\ \A k \in 1 .. n : P[k] = P[k - 1] + s[k]
  BY SumsExist DEF AreSums
<1>2. IsTotals(P)
  <2> HIDE DEF P, n
  <2>1. \A k \in 0 .. n : P[k] = IF k = 0 THEN 0 ELSE P[k - 1] + s[k]
    BY <1>1
  <2>2. P = [k \in 0 .. n |-> P[k]]
    BY <1>1
  <2> QED BY <2>1, <2>2
<1>3. IsTotals(F)
  BY <1>2
<1>4. F[0] = 0 /\ \A k \in 1 .. n : F[k] = F[k - 1] + s[k]
  <2>1. \A k \in 0 .. n : F[k] = IF k = 0 THEN 0 ELSE F[k - 1] + s[k]
    <3> HIDE DEF F
    <3> QED BY <1>3
  <2> HIDE DEF F
  <2> QED BY <1>1, <2>1
<1>5. Total(s) = F[n]
  BY DEF Total
<1>6. n \in 0 .. Len(s)
  BY <1>1
<1>7. F[n] = P[n]
  <2> HIDE DEF F
  <2> QED BY <1>4, <1>6, SumsUnique
<1> QED BY <1>5, <1>7 DEF SumOf

LEMMA NaturalsInRow ==
    ASSUME NEW k \in Nat, NEW f \in [1 .. k -> Nat]
    PROVE  f \in Seq(Nat) /\ f \in Seq(Int) /\ Len(f) = k /\ DOMAIN f = 1 .. k
<1>1. f \in Seq(Nat) /\ Len(f) = k /\ DOMAIN f = 1 .. k
  OBVIOUS
<1>2. f \in [1 .. k -> Int]
  OBVIOUS
<1>3. f \in Seq(Int)
  BY <1>2
<1> QED BY <1>1, <1>3

\* The closes of k candles, after i.
Piece(h, i, k) == [j \in 1 .. k |-> h[i + j].close]

GivenCandle == [high: Nat, low: Nat, close: Nat, volume: Nat]

LEMMA CandlesAre ==
    ASSUME NEW h \in Seq(Given)
    PROVE  /\ Len(h) \in Nat /\ DOMAIN h = 1 .. Len(h)
           /\ \A i \in 1 .. Len(h) :
                /\ h[i] \in Given /\ h[i] \in GivenCandle
                /\ h[i].high \in Nat /\ h[i].low \in Nat /\ h[i].close \in Nat /\ h[i].volume \in Nat
                /\ h[i].low <= h[i].close /\ h[i].close <= h[i].high
<1>1. Len(h) \in Nat /\ DOMAIN h = 1 .. Len(h) /\ \A i \in 1 .. Len(h) : h[i] \in Given
  OBVIOUS
<1>2. \A b \in Given : /\ b \in GivenCandle
                       /\ b.high \in Nat /\ b.low \in Nat /\ b.close \in Nat /\ b.volume \in Nat
                       /\ b.low <= b.close /\ b.close <= b.high
  BY CallsAssumption DEF GivenCandle
<1> QED BY <1>1, <1>2

LEMMA PieceType ==
    ASSUME NEW h \in Seq(Given), NEW i \in Nat, NEW k \in Nat, i + k <= Len(h)
    PROVE  /\ Piece(h, i, k) \in Seq(Nat) /\ Piece(h, i, k) \in Seq(Int)
           /\ Len(Piece(h, i, k)) = k /\ DOMAIN Piece(h, i, k) = 1 .. k
           /\ \A j \in 1 .. k : /\ Piece(h, i, k)[j] = h[i + j].close /\ i + j \in 1 .. Len(h)
                                /\ Piece(h, i, k)[j] \in Nat
<1>1. \A j \in 1 .. k : i + j \in 1 .. Len(h) /\ h[i + j].close \in Nat
  <2>1. \A j \in 1 .. k : i + j \in 1 .. Len(h)
    BY CandlesAre
  <2> QED BY <2>1, CandlesAre
<1> DEFINE f == [j \in 1 .. k |-> h[i + j].close]
<1>2. f \in [1 .. k -> Nat] /\ \A j \in 1 .. k : f[j] = h[i + j].close
  BY <1>1
<1>3. Piece(h, i, k) = f
  BY DEF Piece
<1> HIDE DEF f
<1>4. f \in Seq(Nat) /\ f \in Seq(Int) /\ Len(f) = k /\ DOMAIN f = 1 .. k
  BY <1>2, NaturalsInRow
<1> QED BY <1>1, <1>2, <1>3, <1>4

\* The ways the classes take them.
LEMMA ClosesArePieces ==
    ASSUME NEW h \in Seq(Given), NEW p \in 1 .. Len(h)
    PROVE  /\ Closes(h) = Piece(h, 0, Len(h))
           /\ Latest(Closes(h), p) = Piece(h, Len(h) - p, p)
           /\ SubSeq(Closes(h), 1, p) = Piece(h, 0, p)
           /\ Prefix(h, p) \in Seq(Given) /\ Len(Prefix(h, p)) = p
           /\ \A j \in 1 .. p : Prefix(h, p)[j] = h[j]
           /\ Closes(Prefix(h, p)) = Piece(h, 0, p)
           /\ SubSeq(h, Len(h) - p + 1, Len(h)) \in Seq(Given)
           /\ Len(SubSeq(h, Len(h) - p + 1, Len(h))) = p
           /\ \A j \in 1 .. p : SubSeq(h, Len(h) - p + 1, Len(h))[j] = h[Len(h) - p + j]
<1> DEFINE n == Len(h)
           c == Closes(h)
<1>1. n \in Nat /\ p \in 1 .. n /\ \A j \in 1 .. n : h[j] \in Given /\ h[j].close \in Nat
  BY CandlesAre
<1>2. c = [j \in 1 .. n |-> h[j].close]
  BY CandlesAre DEF Closes
<1>3. c \in Seq(Nat) /\ Len(c) = n /\ \A j \in 1 .. n : c[j] = h[j].close
  BY <1>1, <1>2
<1>4. c = Piece(h, 0, n)
  BY <1>1, <1>2 DEF Piece
<1> HIDE DEF n, c
<1>5. Latest(c, p) = Piece(h, n - p, p)
  <2>1. n - p + 1 \in Int /\ n - p + 1 <= n /\ n - (n - p + 1) + 1 = p
        /\ \A j \in n - p + 1 .. n : c[j] \in Nat
    BY <1>1, <1>3
  <2>2. /\ Latest(c, p) \in Seq(Nat) /\ Len(Latest(c, p)) = p
        /\ \A j \in 1 .. p : Latest(c, p)[j] = c[n - p + 1 + j - 1]
    BY <1>1, <1>3, <2>1, SubSeqProperties DEF Latest
  <2>3. \A j \in 1 .. p : n - p + 1 + j - 1 = n - p + j /\ n - p + j \in 1 .. n
    BY <1>1
  <2>4. Latest(c, p) = [j \in 1 .. p |-> Latest(c, p)[j]]
    BY <2>2
  <2> QED BY <1>3, <2>2, <2>3, <2>4 DEF Piece
<1>6. SubSeq(c, 1, p) = Piece(h, 0, p)
  <2>1. 1 <= p /\ p - 1 + 1 = p /\ \A j \in 1 .. p : c[j] \in Nat
    BY <1>1, <1>3
  <2>2. /\ SubSeq(c, 1, p) \in Seq(Nat) /\ Len(SubSeq(c, 1, p)) = p
        /\ \A j \in 1 .. p : SubSeq(c, 1, p)[j] = c[1 + j - 1]
    BY <1>1, <2>1, SubSeqProperties
  <2>3. \A j \in 1 .. p : 1 + j - 1 = 0 + j /\ 0 + j \in 1 .. n
    BY <1>1
  <2>4. SubSeq(c, 1, p) = [j \in 1 .. p |-> SubSeq(c, 1, p)[j]]
    BY <2>2
  <2> QED BY <1>3, <2>2, <2>3, <2>4 DEF Piece
<1>7. /\ Prefix(h, p) \in Seq(Given) /\ Len(Prefix(h, p)) = p
      /\ \A j \in 1 .. p : Prefix(h, p)[j] = h[j]
  <2>1. 1 <= p /\ p - 1 + 1 = p /\ \A j \in 1 .. p : h[j] \in Given
    BY <1>1
  <2>2. /\ SubSeq(h, 1, p) \in Seq(Given) /\ Len(SubSeq(h, 1, p)) = p
        /\ \A j \in 1 .. p : SubSeq(h, 1, p)[j] = h[1 + j - 1]
    BY <1>1, <2>1, SubSeqProperties
  <2>3. \A j \in 1 .. p : 1 + j - 1 = j
    BY <1>1
  <2> QED BY <2>2, <2>3 DEF Prefix
<1>8. Closes(Prefix(h, p)) = Piece(h, 0, p)
  <2>1. DOMAIN Prefix(h, p) = 1 .. p
    BY <1>7
  <2>2. \A j \in 1 .. p : 0 + j = j
    OBVIOUS
  <2> QED BY <1>7, <2>1, <2>2 DEF Closes, Piece
<1>9. /\ SubSeq(h, n - p + 1, n) \in Seq(Given)
      /\ Len(SubSeq(h, n - p + 1, n)) = p
      /\ \A j \in 1 .. p : SubSeq(h, n - p + 1, n)[j] = h[n - p + j]
  <2>1. n - p + 1 \in Int /\ n - p + 1 <= n /\ n - (n - p + 1) + 1 = p
        /\ \A j \in n - p + 1 .. n : h[j] \in Given
    BY <1>1
  <2>2. /\ SubSeq(h, n - p + 1, n) \in Seq(Given) /\ Len(SubSeq(h, n - p + 1, n)) = p
        /\ \A j \in 1 .. p : SubSeq(h, n - p + 1, n)[j] = h[n - p + 1 + j - 1]
    BY <1>1, <2>1, SubSeqProperties
  <2>3. \A j \in 1 .. p : n - p + 1 + j - 1 = n - p + j
    BY <1>1
  <2> QED BY <2>2, <2>3
<1> QED BY <1>4, <1>5, <1>6, <1>7, <1>8, <1>9 DEF n, c

-----------------------------------------------------------------------------
(* Extremes. *)

GreatestUpTo(m) ==
    \A g \in [1 .. m + 1 -> Nat] :
        \E i \in 1 .. m + 1 : \A j \in 1 .. m + 1 : g[j] <= g[i]

LEMMA HasGreatest ==
    ASSUME NEW n \in Nat
    PROVE  GreatestUpTo(n)
<1> DEFINE S == {m \in Nat : GreatestUpTo(m)}
<1>1. GreatestUpTo(0)
  <2> SUFFICES ASSUME NEW g \in [1 .. 0 + 1 -> Nat]
               PROVE  \E i \in 1 .. 0 + 1 : \A j \in 1 .. 0 + 1 : g[j] <= g[i]
    BY DEF GreatestUpTo
  <2>1. g[1] \in Nat /\ 1 \in 1 .. 0 + 1 /\ \A j \in 1 .. 0 + 1 : j = 1
    OBVIOUS
  <2> WITNESS 1 \in 1 .. 0 + 1
  <2> QED BY <2>1
<1>2. ASSUME NEW m \in Nat, GreatestUpTo(m)
      PROVE  GreatestUpTo(m + 1)
  <2> SUFFICES ASSUME NEW g \in [1 .. m + 1 + 1 -> Nat]
               PROVE  \E i \in 1 .. m + 1 + 1 : \A j \in 1 .. m + 1 + 1 : g[j] <= g[i]
    BY DEF GreatestUpTo
  <2> DEFINE h == [i \in 1 .. m + 1 |-> g[i]]
  <2>1. h \in [1 .. m + 1 -> Nat] /\ \A i \in 1 .. m + 1 : h[i] = g[i]
    OBVIOUS
  <2>2. PICK i \in 1 .. m + 1 : \A j \in 1 .. m + 1 : h[j] <= h[i]
    BY <1>2, <2>1 DEF GreatestUpTo
  <2>3. \A j \in 1 .. m + 1 : g[j] <= g[i]
    BY <2>1, <2>2
  <2>4. /\ i \in 1 .. m + 1 + 1 /\ m + 1 + 1 \in 1 .. m + 1 + 1
        /\ \A j \in 1 .. m + 1 + 1 : j \in 1 .. m + 1 \/ j = m + 1 + 1
        /\ \A j \in 1 .. m + 1 + 1 : g[j] \in Nat
    OBVIOUS
  <2>5. CASE g[m + 1 + 1] <= g[i]
    BY <2>3, <2>4, <2>5
  <2>6. CASE ~ (g[m + 1 + 1] <= g[i])
    <3>1. g[i] <= g[m + 1 + 1]
      BY <2>4, <2>6
    <3>2. \A j \in 1 .. m + 1 + 1 : g[j] <= g[m + 1 + 1]
      BY <2>3, <2>4, <3>1
    <3> QED BY <2>4, <3>2
  <2> QED BY <2>5, <2>6
<1>3. Nat \subseteq S
  <2>1. 0 \in S /\ \A m \in Nat : m \in S => m + 1 \in S
    BY <1>1, <1>2
  <2> HIDE DEF S
  <2> QED BY <2>1, Induction
<1> QED BY <1>3

LEMMA Extremes ==
    ASSUME NEW n \in Nat \ {0}, NEW f \in [1 .. n -> Nat]
    PROVE  /\ \E i \in 1 .. n : \A j \in 1 .. n : f[j] <= f[i]
           /\ \E i \in 1 .. n : \A j \in 1 .. n : f[i] <= f[j]
<1>1. \E i \in 1 .. n : \A j \in 1 .. n : f[j] <= f[i]
  <2>1. PICK m \in Nat : n = m + 1
    <3>1. n - 1 \in Nat /\ n = n - 1 + 1
      OBVIOUS
    <3> QED BY <3>1
  <2>2. f \in [1 .. m + 1 -> Nat] /\ GreatestUpTo(m)
    BY <2>1, HasGreatest
  <2> QED BY <2>1, <2>2 DEF GreatestUpTo
<1>2. \E i \in 1 .. n : \A j \in 1 .. n : f[i] <= f[j]
  <2> DEFINE T == {f[j] : j \in 1 .. n}
  <2>1. T \in SUBSET Nat /\ T # {}
    <3>1. 1 \in 1 .. n /\ \A j \in 1 .. n : f[j] \in Nat
      OBVIOUS
    <3> QED BY <3>1
  <2>2. \E x \in T : \A y \in T : x <= y
    <3> HIDE DEF T
    <3> QED BY <2>1, LeastOfSet
  <2> QED BY <2>2
<1> QED BY <1>1, <1>2

\* The extreme prices of some candles.
LEMMA PriceBounds ==
    ASSUME NEW h \in Seq(Given), h # <<>>
    PROVE  /\ Lowest(h) \in Nat /\ Highest(h) \in Nat /\ Lowest(h) <= Highest(h)
           /\ \A i \in 1 .. Len(h) : /\ Lowest(h) <= h[i].low /\ h[i].high <= Highest(h)
                                     /\ Lowest(h) <= h[i].close /\ h[i].close <= Highest(h)
<1> DEFINE n == Len(h)
           f == [i \in 1 .. n |-> h[i].high]
           g == [i \in 1 .. n |-> h[i].low]
<1>1. /\ n \in Nat \ {0} /\ DOMAIN h = 1 .. n
      /\ \A i \in 1 .. n : /\ h[i].high \in Nat /\ h[i].low \in Nat /\ h[i].close \in Nat
                           /\ h[i].low <= h[i].close /\ h[i].close <= h[i].high
  <2>1. n \in Nat /\ n # 0
    BY EmptySeq, LenProperties
  <2> QED BY <2>1, CandlesAre
<1> HIDE DEF n
<1>2. /\ f \in [1 .. n -> Nat] /\ g \in [1 .. n -> Nat]
      /\ \A i \in 1 .. n : f[i] = h[i].high /\ g[i] = h[i].low
  BY <1>1
<1> HIDE DEF f, g
<1>3. /\ \E i \in 1 .. n : \A j \in 1 .. n : f[j] <= f[i]
      /\ \E i \in 1 .. n : \A j \in 1 .. n : g[i] <= g[j]
  BY <1>1, <1>2, Extremes
<1>4. /\ Highest(h) \in {h[i].high : i \in DOMAIN h}
      /\ \A i \in DOMAIN h : h[i].high <= Highest(h)
  <2>1. PICK k \in 1 .. n : \A j \in 1 .. n : f[j] <= f[k]
    BY <1>3
  <2>2. h[k].high \in {h[i].high : i \in DOMAIN h}
    BY <1>1
  <2>3. \A i \in DOMAIN h : h[i].high <= h[k].high
    BY <1>1, <1>2, <2>1
  <2> QED BY <2>2, <2>3 DEF Highest
<1>5. /\ Lowest(h) \in {h[i].low : i \in DOMAIN h}
      /\ \A i \in DOMAIN h : h[i].low >= Lowest(h)
  <2>1. PICK k \in 1 .. n : \A j \in 1 .. n : g[k] <= g[j]
    BY <1>3
  <2>2. h[k].low \in {h[i].low : i \in DOMAIN h}
    BY <1>1
  <2>3. \A i \in DOMAIN h : h[i].low >= h[k].low
    BY <1>1, <1>2, <2>1
  <2> QED BY <2>2, <2>3 DEF Lowest
<1>6. Lowest(h) \in Nat /\ Highest(h) \in Nat
  BY <1>1, <1>4, <1>5
<1>7. \A i \in 1 .. n : /\ Lowest(h) <= h[i].low /\ h[i].high <= Highest(h)
                        /\ Lowest(h) <= h[i].close /\ h[i].close <= Highest(h)
  <2> SUFFICES ASSUME NEW i \in 1 .. n
               PROVE  /\ Lowest(h) <= h[i].low /\ h[i].high <= Highest(h)
                      /\ Lowest(h) <= h[i].close /\ h[i].close <= Highest(h)
    OBVIOUS
  <2>1. h[i].high <= Highest(h) /\ h[i].low >= Lowest(h)
    BY <1>1, <1>4, <1>5
  <2>2. /\ h[i].high \in Nat /\ h[i].low \in Nat /\ h[i].close \in Nat
        /\ h[i].low <= h[i].close /\ h[i].close <= h[i].high
    BY <1>1
  <2> QED BY <1>6, <2>1, <2>2
<1>8. Lowest(h) <= Highest(h)
  <2>1. 1 \in 1 .. n
    BY <1>1
  <2> QED BY <1>1, <1>6, <1>7, <2>1
<1> QED BY <1>6, <1>7, <1>8 DEF n

LEMMA CloseBounds ==
    ASSUME data \in Seq(Given), data # <<>>
    PROVE  /\ LowestClose \in Nat /\ HighestClose \in Nat /\ LowestClose <= HighestClose
           /\ \A i \in 1 .. Len(data) : LowestClose <= data[i].close /\ data[i].close <= HighestClose
<1> DEFINE n == Len(data)
           f == [i \in 1 .. n |-> data[i].close]
<1>1. n \in Nat \ {0} /\ DOMAIN data = 1 .. n /\ \A i \in 1 .. n : data[i].close \in Nat
  <2>1. n \in Nat /\ n # 0
    BY EmptySeq, LenProperties
  <2> QED BY <2>1, CandlesAre
<1> HIDE DEF n
<1>2. f \in [1 .. n -> Nat] /\ \A i \in 1 .. n : f[i] = data[i].close
  BY <1>1
<1> HIDE DEF f
<1>3. /\ \E i \in 1 .. n : \A j \in 1 .. n : f[j] <= f[i]
      /\ \E i \in 1 .. n : \A j \in 1 .. n : f[i] <= f[j]
  BY <1>1, <1>2, Extremes
<1>4. /\ HighestClose \in {data[i].close : i \in DOMAIN data}
      /\ \A i \in DOMAIN data : HighestClose >= data[i].close
  <2>1. PICK k \in 1 .. n : \A j \in 1 .. n : f[j] <= f[k]
    BY <1>3
  <2>2. data[k].close \in {data[i].close : i \in DOMAIN data}
    BY <1>1
  <2>3. \A i \in DOMAIN data : data[k].close >= data[i].close
    BY <1>1, <1>2, <2>1
  <2> QED BY <2>2, <2>3 DEF HighestClose
<1>5. /\ LowestClose \in {data[i].close : i \in DOMAIN data}
      /\ \A i \in DOMAIN data : LowestClose <= data[i].close
  <2>1. PICK k \in 1 .. n : \A j \in 1 .. n : f[k] <= f[j]
    BY <1>3
  <2>2. data[k].close \in {data[i].close : i \in DOMAIN data}
    BY <1>1
  <2>3. \A i \in DOMAIN data : data[k].close <= data[i].close
    BY <1>1, <1>2, <2>1
  <2> QED BY <2>2, <2>3 DEF LowestClose
<1>6. LowestClose \in Nat /\ HighestClose \in Nat
  BY <1>1, <1>4, <1>5
<1>7. LowestClose <= HighestClose
  <2>1. 1 \in 1 .. n
    BY <1>1
  <2>2. LowestClose <= data[1].close /\ data[1].close <= HighestClose /\ data[1].close \in Nat
    BY <1>1, <1>4, <1>5, <2>1
  <2> QED BY <1>6, <2>2
<1> QED BY <1>1, <1>4, <1>5, <1>6, <1>7 DEF n

-----------------------------------------------------------------------------
(* Means. *)

Ratios == [num: Int, den: Nat \ {0}]

\* Of a mean a / b and a number x, with weights.
LEMMA MeanOfTwo ==
    ASSUME NEW a \in Int, NEW b \in Nat \ {0}, NEW u \in Nat, NEW v \in Nat, u + v > 0,
           NEW x \in Int, NEW lo \in Int, NEW hi \in Int,
           lo * b <= a, a <= hi * b, lo <= x, x <= hi,
           NEW c, c = u * (x * b) + v * a, NEW d, d = (u + v) * b
    PROVE  /\ c \in Int /\ d \in Nat \ {0}
           /\ lo * d <= c /\ c <= hi * d
<1>1. c \in Int /\ d \in Int /\ x * b \in Int /\ lo * b \in Int /\ hi * b \in Int
  OBVIOUS
<1>2. d \in Nat \ {0}
  <2>1. u + v \in Nat \ {0}
    OBVIOUS
  <2>2. \A k, l \in Nat \ {0} : k * l \in Nat \ {0}
    OBVIOUS
  <2> QED BY <2>1, <2>2
<1>3. lo * b <= x * b /\ x * b <= hi * b
  <2>1. \A k, l \in Int : k <= l => k * b <= l * b
    OBVIOUS
  <2> QED BY <2>1
<1>4. \A k \in Nat, l, m \in Int : l <= m => k * l <= k * m /\ k * l \in Int /\ k * m \in Int
  OBVIOUS
<1>5. u * (lo * b) <= u * (x * b) /\ u * (x * b) <= u * (hi * b)
  BY <1>1, <1>3, <1>4
<1>6. v * (lo * b) <= v * a /\ v * a <= v * (hi * b)
  BY <1>1, <1>4
<1>7. lo * d = u * (lo * b) + v * (lo * b) /\ hi * d = u * (hi * b) + v * (hi * b)
  <2>1. \A k \in Int : k * ((u + v) * b) = u * (k * b) + v * (k * b)
    OBVIOUS
  <2> QED BY <2>1
<1>8. /\ u * (lo * b) \in Int /\ u * (x * b) \in Int /\ u * (hi * b) \in Int
      /\ v * (lo * b) \in Int /\ v * a \in Int /\ v * (hi * b) \in Int
  BY <1>1
<1> QED BY <1>1, <1>2, <1>5, <1>6, <1>7, <1>8

\* The difference of two means, a / b - c / d.
LEMMA DifferenceOfMeans ==
    ASSUME NEW a \in Int, NEW b \in Nat \ {0}, NEW c \in Int, NEW d \in Nat \ {0},
           NEW lo \in Int, NEW hi \in Int,
           lo * b <= a, a <= hi * b, lo * d <= c, c <= hi * d
    PROVE  /\ (-(hi - lo)) * (b * d) <= a * d - c * b
           /\ a * d - c * b <= (hi - lo) * (b * d)
<1>1. \A k \in Nat, l, m \in Int : l <= m => l * k <= m * k
  OBVIOUS
<1>2. lo * b \in Int /\ hi * b \in Int /\ lo * d \in Int /\ hi * d \in Int
  OBVIOUS
<1>3. /\ (lo * b) * d <= a * d /\ a * d <= (hi * b) * d
      /\ (lo * d) * b <= c * b /\ c * b <= (hi * d) * b
  BY <1>1, <1>2
<1>4. /\ (lo * b) * d = lo * (b * d) /\ (hi * b) * d = hi * (b * d)
      /\ (lo * d) * b = lo * (b * d) /\ (hi * d) * b = hi * (b * d)
      /\ (hi - lo) * (b * d) = hi * (b * d) - lo * (b * d)
      /\ (-(hi - lo)) * (b * d) = lo * (b * d) - hi * (b * d)
  OBVIOUS
<1>5. a * d \in Int /\ c * b \in Int /\ hi * (b * d) \in Int /\ lo * (b * d) \in Int
  OBVIOUS
<1> QED BY <1>3, <1>4, <1>5

\* The total of k numbers between two others.
LEMMA TotalBetween ==
    ASSUME NEW v \in Seq(Int), NEW k \in Nat, Len(v) = k, NEW lo \in Int, NEW hi \in Int,
           \A j \in 1 .. k : lo <= v[j] /\ v[j] <= hi
    PROVE  Total(v) \in Int /\ lo * k <= Total(v) /\ Total(v) <= hi * k
<1> DEFINE w == [i \in 1 .. k |-> 1]
<1>1. w \in Seq(Int) /\ Len(w) = k /\ SumOf(w) = k
  BY SumOfOnes
<1>2. \A j \in 1 .. Len(v) : lo * w[j] <= v[j] /\ v[j] <= hi * w[j]
  <2>1. \A j \in 1 .. Len(v) : w[j] = 1 /\ v[j] \in Int
    OBVIOUS
  <2> QED BY <2>1
<1> HIDE DEF w
<1>3. lo * SumOf(w) <= SumOf(v) /\ SumOf(v) <= hi * SumOf(w)
  BY <1>1, <1>2, SumScaled, SumScaledAbove
<1> QED BY <1>1, <1>3, TotalIsSum, SumType

LEMMA TotalOfNaturals ==
    ASSUME NEW v \in Seq(Nat)
    PROVE  Total(v) \in Nat
<1>1. v \in Seq(Int)
  OBVIOUS
<1> QED BY <1>1, TotalIsSum, SumOfNaturals

\* The average of EMA and of APO, after a close x.
Entered(x, r, p) == Ratio(2 * x * r.den + (p - 1) * r.num, (p + 1) * r.den)

LEMMA RatioParts ==
    ASSUME NEW a, NEW b
    PROVE  Ratio(a, b).num = a /\ Ratio(a, b).den = b /\ (a \in Int /\ b \in Nat \ {0} => Ratio(a, b) \in Ratios)
BY DEF Ratio, Ratios

LEMMA EnteredIsRatio ==
    ASSUME NEW x \in Int, NEW r \in Ratios, NEW p \in Nat \ {0}
    PROVE  Entered(x, r, p) \in Ratios
<1>1. r.num \in Int /\ r.den \in Nat \ {0}
  BY DEF Ratios
<1> DEFINE a == r.num
           b == r.den
<1> HIDE DEF a, b
<1>2. 2 * x * b + (p - 1) * a \in Int
  BY <1>1 DEF a, b
<1>3. (p + 1) * b \in Nat \ {0}
  <2>1. \A k, l \in Nat \ {0} : k * l \in Nat \ {0}
    OBVIOUS
  <2>2. p + 1 \in Nat \ {0}
    OBVIOUS
  <2> QED BY <1>1, <2>1, <2>2 DEF b
<1> QED BY <1>2, <1>3, RatioParts DEF Entered, a, b

LEMMA EnteredStaysWithin ==
    ASSUME NEW x \in Int, NEW r \in Ratios, NEW p \in Nat \ {0}, NEW lo \in Int, NEW hi \in Int,
           lo <= x, x <= hi, Within(r, lo, hi)
    PROVE  Within(Entered(x, r, p), lo, hi)
<1> DEFINE a == r.num
           b == r.den
           c == 2 * x * b + (p - 1) * a
           d == (p + 1) * b
<1>1. a \in Int /\ b \in Nat \ {0} /\ lo * b <= a /\ a <= hi * b
  BY DEF Ratios, Within
<1> HIDE DEF a, b
<1>2. c = 2 * (x * b) + (p - 1) * a
  <2>1. 2 * x * b = 2 * (x * b)
    BY <1>1
  <2> QED BY <2>1
<1>3. d = (2 + (p - 1)) * b
  <2>1. 2 + (p - 1) = p + 1
    OBVIOUS
  <2> QED BY <2>1
<1>4. 2 \in Nat /\ p - 1 \in Nat /\ 2 + (p - 1) > 0
  OBVIOUS
<1> HIDE DEF c, d
<1>5. lo * d <= c /\ c <= hi * d
  BY <1>1, <1>2, <1>3, <1>4, MeanOfTwo
<1>6. Entered(x, r, p).num = c /\ Entered(x, r, p).den = d
  BY RatioParts DEF Entered, a, b, c, d
<1> QED BY <1>5, <1>6 DEF Within

\* Its run along some numbers.
IsAverage(F, m, n, base, x, p) ==
    F[m] = base /\ \A k \in m + 1 .. n : F[k] = Entered(x[k], F[k - 1], p)

LEMMA AverageExists ==
    ASSUME NEW m \in Nat, NEW n \in Nat, m <= n, NEW base \in Ratios,
           NEW x \in [m + 1 .. n -> Int], NEW p \in Nat \ {0}
    PROVE  \E F \in [m .. n -> Ratios] : IsAverage(F, m, n, base, x, p)
<1> DEFINE step == [z \in (m + 1 .. n) \X Ratios |-> Entered(x[z[1]], z[2], p)]
<1>1. step \in [(m + 1 .. n) \X Ratios -> Ratios]
  <2>1. \A z \in (m + 1 .. n) \X Ratios : Entered(x[z[1]], z[2], p) \in Ratios
    <3> SUFFICES ASSUME NEW z \in (m + 1 .. n) \X Ratios
                 PROVE  Entered(x[z[1]], z[2], p) \in Ratios
      OBVIOUS
    <3>1. x[z[1]] \in Int /\ z[2] \in Ratios
      OBVIOUS
    <3> QED BY <3>1, EnteredIsRatio
  <2> QED BY <2>1
<1>2. \A k \in m + 1 .. n, r \in Ratios : step[<<k, r>>] = Entered(x[k], r, p)
  OBVIOUS
<1> HIDE DEF step
<1>3. PICK F : RunsFrom(F, m, n, Ratios, base, step)
  BY <1>1, RecursionFrom
<1>5. /\ F \in [m .. n -> Ratios] /\ F[m] = base
      /\ \A k \in m + 1 .. n : F[k] = step[<<k, F[k - 1]>>]
  BY <1>3 DEF RunsFrom
<1>4. \A k \in m + 1 .. n : F[k] = Entered(x[k], F[k - 1], p)
  <2>1. \A k \in m + 1 .. n : k - 1 \in m .. n
    OBVIOUS
  <2> QED BY <1>2, <1>5, <2>1
<1> QED BY <1>5, <1>4 DEF IsAverage

LEMMA AverageStaysWithin ==
    ASSUME NEW m \in Nat, NEW n \in Nat, NEW base \in Ratios,
           NEW x \in [m + 1 .. n -> Int], NEW p \in Nat \ {0}, NEW lo \in Int, NEW hi \in Int,
           Within(base, lo, hi), \A k \in m + 1 .. n : lo <= x[k] /\ x[k] <= hi,
           NEW F, IsAverage(F, m, n, base, x, p)
    PROVE  \A k \in m .. n : F[k] \in Ratios /\ Within(F[k], lo, hi)
<1> DEFINE S == {k \in m .. n : F[k] \in Ratios /\ Within(F[k], lo, hi)} \cup {m}
<1>1. m \in S /\ F[m] = base
  BY DEF IsAverage
<1>2. ASSUME NEW k \in m + 1 .. n, k - 1 \in S PROVE k \in S
  <2>1. k \in m .. n /\ F[k] = Entered(x[k], F[k - 1], p) /\ x[k] \in Int
    BY DEF IsAverage
  <2>2. F[k - 1] \in Ratios /\ Within(F[k - 1], lo, hi)
    BY <1>1, <1>2
  <2>3. F[k] \in Ratios /\ Within(F[k], lo, hi)
    BY <2>1, <2>2, EnteredIsRatio, EnteredStaysWithin
  <2> QED BY <2>1, <2>3
<1> HIDE DEF S
<1>3. \A k \in m .. n : k \in S
  BY <1>1, <1>2, IntervalInduction
<1> QED BY <1>1, <1>3 DEF S

LEMMA AverageUnique ==
    ASSUME NEW m \in Nat, NEW n \in Nat, NEW base, NEW x, NEW p, NEW F, NEW G,
           IsAverage(F, m, n, base, x, p), IsAverage(G, m, n, base, x, p)
    PROVE  \A k \in m .. n : F[k] = G[k]
<1> DEFINE S == {k \in Nat : F[k] = G[k]}
<1>1. m \in S
  BY DEF IsAverage
<1>2. ASSUME NEW k \in m + 1 .. n, k - 1 \in S PROVE k \in S
  BY <1>2 DEF IsAverage
<1> HIDE DEF S
<1>3. \A k \in m .. n : k \in S
  BY <1>1, <1>2, IntervalInduction
<1> QED BY <1>3 DEF S

-----------------------------------------------------------------------------
(* SMA, MA and EMA. *)

CloseWithin(h, lo, hi) == \A j \in 1 .. Len(h) : lo <= h[j].close /\ h[j].close <= hi

LEMMA MeanOfPiece ==
    ASSUME NEW h \in Seq(Given), NEW i \in Nat, NEW k \in Nat \ {0}, i + k <= Len(h),
           NEW lo \in Int, NEW hi \in Int, CloseWithin(h, lo, hi)
    PROVE  /\ Ratio(Total(Piece(h, i, k)), k) \in Ratios
           /\ Within(Ratio(Total(Piece(h, i, k)), k), lo, hi)
<1> DEFINE v == Piece(h, i, k)
<1>1. /\ v \in Seq(Int) /\ Len(v) = k /\ k \in Nat
      /\ \A j \in 1 .. k : v[j] = h[i + j].close /\ i + j \in 1 .. Len(h)
  BY PieceType
<1> HIDE DEF v
<1>2. \A j \in 1 .. k : lo <= v[j] /\ v[j] <= hi
  BY <1>1 DEF CloseWithin
<1>3. Total(v) \in Int /\ lo * k <= Total(v) /\ Total(v) <= hi * k
  BY <1>1, <1>2, TotalBetween
<1>4. /\ Ratio(Total(v), k) \in Ratios
      /\ Ratio(Total(v), k).num = Total(v) /\ Ratio(Total(v), k).den = k
  BY <1>3, RatioParts
<1> QED BY <1>3, <1>4 DEF Within, v

\* Both are the mean of the last p closes.
LEMMA MeansAgree ==
    ASSUME NEW h \in Seq(Given), NEW p \in 1 .. Len(h)
    PROVE  /\ Sma(h, p) = Ratio(Total(Piece(h, Len(h) - p, p)), p)
           /\ Means(h, p)[Len(h)] = Sma(h, p)
<1>1. Len(h) \in Nat /\ Len(h) \in p .. Len(h)
  BY CandlesAre
<1>2. Sma(h, p) = Ratio(Total(Piece(h, Len(h) - p, p)), p)
  BY ClosesArePieces DEF Sma, Ratio
<1>3. Means(h, p)[Len(h)] = Ratio(Total([j \in 1 .. p |-> h[Len(h) - p + j].close]), p)
  BY <1>1 DEF Means
<1> QED BY <1>2, <1>3 DEF Piece

ClosesFrom(h, m) == [k \in m + 1 .. Len(h) |-> h[k].close]

LEMMA ClosesFromType ==
    ASSUME NEW h \in Seq(Given), NEW m \in Nat
    PROVE  /\ ClosesFrom(h, m) \in [m + 1 .. Len(h) -> Int]
           /\ \A k \in m + 1 .. Len(h) : ClosesFrom(h, m)[k] = h[k].close /\ k \in 1 .. Len(h)
<1>1. \A k \in m + 1 .. Len(h) : k \in 1 .. Len(h) /\ h[k].close \in Int
  <2>1. \A k \in m + 1 .. Len(h) : k \in 1 .. Len(h)
    BY CandlesAre
  <2> QED BY <2>1, CandlesAre
<1> QED BY <1>1 DEF ClosesFrom

\* EMA begins with the mean of the first p closes and takes in the others.
IsEma(F, h, p) == IsAverage(F, p, Len(h), Ratio(Total(Piece(h, 0, p)), p), ClosesFrom(h, p), p)

LEMMA EmaExists ==
    ASSUME NEW h \in Seq(Given), NEW p \in 1 .. Len(h)
    PROVE  \E F \in [p .. Len(h) -> Ratios] : IsEma(F, h, p)
<1> DEFINE v == Piece(h, 0, p)
           base == Ratio(Total(v), p)
<1>1. Len(h) \in Nat /\ p \in Nat \ {0} /\ p \in Nat /\ p <= Len(h) /\ 0 + p <= Len(h) /\ 0 \in Nat
  BY CandlesAre
<1>2. v \in Seq(Nat)
  BY <1>1, PieceType
<1>3. base \in Ratios
  <2> HIDE DEF v
  <2>1. Total(v) \in Int
    BY <1>2, TotalOfNaturals
  <2> QED BY <1>1, <2>1, RatioParts
<1>4. ClosesFrom(h, p) \in [p + 1 .. Len(h) -> Int]
  BY <1>1, ClosesFromType
<1> HIDE DEF base
<1>5. \E F \in [p .. Len(h) -> Ratios] : IsAverage(F, p, Len(h), base, ClosesFrom(h, p), p)
  BY <1>1, <1>3, <1>4, AverageExists
<1> QED BY <1>5 DEF IsEma, base

LEMMA EmaIsEma ==
    ASSUME NEW h \in Seq(Given), NEW p \in 1 .. Len(h)
    PROVE  \E F : IsEma(F, h, p) /\ Ema(h, p) = F[Len(h)]
<1> DEFINE n == Len(h)
           IsE(f) == f = [k \in p .. n |->
                IF k = p THEN [num |-> Total(SubSeq(Closes(h), 1, p)), den |-> p]
                ELSE [num |-> 2 * h[k].close * f[k - 1].den + (p - 1) * f[k - 1].num,
                      den |-> (p + 1) * f[k - 1].den]]
           E == CHOOSE f : IsE(f)
<1>1. n \in Nat /\ p \in Nat /\ p <= n
  BY CandlesAre
<1>2. SubSeq(Closes(h), 1, p) = Piece(h, 0, p)
  BY ClosesArePieces
<1>3. \A f : IsE(f) <=> /\ f = [k \in p .. n |-> f[k]]
                        /\ IsEma(f, h, p)
  <2> SUFFICES ASSUME NEW f PROVE IsE(f) <=> f = [k \in p .. n |-> f[k]] /\ IsEma(f, h, p)
    OBVIOUS
  <2>1. \A k \in p + 1 .. n : ClosesFrom(h, p)[k] = h[k].close
    BY <1>1, ClosesFromType
  <2>2. IsEma(f, h, p) <=>
            /\ f[p] = Ratio(Total(Piece(h, 0, p)), p)
            /\ \A k \in p + 1 .. n : f[k] = Entered(h[k].close, f[k - 1], p)
    BY <2>1 DEF IsEma, IsAverage
  <2>3. \A k : Entered(h[k].close, f[k - 1], p) =
            [num |-> 2 * h[k].close * f[k - 1].den + (p - 1) * f[k - 1].num,
             den |-> (p + 1) * f[k - 1].den]
    BY DEF Entered, Ratio
  <2>4. Ratio(Total(Piece(h, 0, p)), p) = [num |-> Total(SubSeq(Closes(h), 1, p)), den |-> p]
    BY <1>2 DEF Ratio
  <2>5. p \in p .. n /\ \A k \in p .. n : k # p <=> k \in p + 1 .. n
    BY <1>1
  <2>6. ASSUME IsE(f) PROVE f = [k \in p .. n |-> f[k]] /\ IsEma(f, h, p)
    <3>1. DOMAIN f = p .. n /\ f = [k \in p .. n |-> f[k]]
      BY <2>6
    <3>2. /\ f[p] = [num |-> Total(SubSeq(Closes(h), 1, p)), den |-> p]
          /\ \A k \in p + 1 .. n :
                f[k] = [num |-> 2 * h[k].close * f[k - 1].den + (p - 1) * f[k - 1].num,
                        den |-> (p + 1) * f[k - 1].den]
      <4>1. p + 1 .. n \subseteq p .. n
        BY <1>1
      <4> QED BY <2>5, <2>6, <4>1
    <3> QED BY <2>2, <2>3, <2>4, <3>1, <3>2
  <2>7. ASSUME f = [k \in p .. n |-> f[k]], IsEma(f, h, p) PROVE IsE(f)
    BY <2>2, <2>3, <2>4, <2>5, <2>7
  <2> QED BY <2>6, <2>7
<1>4. \E f : IsE(f)
  <2>1. PICK F \in [p .. n -> Ratios] : IsEma(F, h, p)
    BY EmaExists
  <2>2. F = [k \in p .. n |-> F[k]]
    OBVIOUS
  <2> HIDE DEF IsE
  <2> QED BY <1>3, <2>1, <2>2
<1>5. IsEma(E, h, p)
  <2> HIDE DEF IsE
  <2>1. IsE(E)
    BY <1>4
  <2> QED BY <1>3, <2>1
<1>6. Ema(h, p) = E[n]
  BY DEF Ema
<1> HIDE DEF E
<1> QED BY <1>5, <1>6

LEMMA EmaValuesAreEma ==
    ASSUME NEW h \in Seq(Given), NEW p \in 1 .. Len(h)
    PROVE  IsEma(EmaValues(h, p), h, p)
<1> DEFINE n == Len(h)
           IsE(f) == f = [i \in 1 .. n |->
                IF i < p THEN Ratio(0, 1)
                ELSE IF i = p THEN Ratio(Total(Closes(Prefix(h, p))), p)
                ELSE Ratio(2 * h[i].close * f[i - 1].den + (p - 1) * f[i - 1].num,
                           (p + 1) * f[i - 1].den)]
           E == CHOOSE f : IsE(f)
<1>1. n \in Nat /\ p \in Nat /\ p <= n /\ p \in 1 .. n
  BY CandlesAre
<1>2. Closes(Prefix(h, p)) = Piece(h, 0, p)
  BY ClosesArePieces
<1>3. ASSUME NEW f
      PROVE  IsEma(f, h, p) <=>
                /\ f[p] = Ratio(Total(Closes(Prefix(h, p))), p)
                /\ \A k \in p + 1 .. n :
                    f[k] = Ratio(2 * h[k].close * f[k - 1].den + (p - 1) * f[k - 1].num,
                                 (p + 1) * f[k - 1].den)
  <2>1. \A k \in p + 1 .. n : ClosesFrom(h, p)[k] = h[k].close
    BY <1>1, ClosesFromType
  <2> QED BY <1>2, <2>1 DEF IsEma, IsAverage, Entered
<1>4. \E f : IsE(f)
  <2>1. PICK F \in [p .. n -> Ratios] : IsEma(F, h, p)
    BY EmaExists
  <2> DEFINE G == [i \in 1 .. n |-> IF i < p THEN Ratio(0, 1) ELSE F[i]]
  <2>2. \A i \in p .. n : G[i] = F[i] /\ (i # p => i - 1 \in p .. n /\ i \in p + 1 .. n)
    BY <1>1
  <2>3. \A i \in 1 .. n : G[i] =
            IF i < p THEN Ratio(0, 1)
            ELSE IF i = p THEN Ratio(Total(Closes(Prefix(h, p))), p)
            ELSE Ratio(2 * h[i].close * G[i - 1].den + (p - 1) * G[i - 1].num,
                       (p + 1) * G[i - 1].den)
    <3> SUFFICES ASSUME NEW i \in 1 .. n
                 PROVE  G[i] =
                            IF i < p THEN Ratio(0, 1)
                            ELSE IF i = p THEN Ratio(Total(Closes(Prefix(h, p))), p)
                            ELSE Ratio(2 * h[i].close * G[i - 1].den + (p - 1) * G[i - 1].num,
                                       (p + 1) * G[i - 1].den)
      OBVIOUS
    <3>1. CASE i < p
      BY <3>1
    <3>2. CASE ~ (i < p)
      <4>1. i \in p .. n
        BY <1>1, <3>2
      <4> HIDE DEF G
      <4> QED BY <1>3, <2>1, <2>2, <3>2, <4>1
    <3> HIDE DEF G
    <3> QED BY <3>1, <3>2
  <2>4. G = [i \in 1 .. n |-> G[i]]
    OBVIOUS
  <2> HIDE DEF G
  <2>5. IsE(G)
    BY <2>3, <2>4
  <2> HIDE DEF IsE
  <2> QED BY <2>5
<1>5. IsE(E)
  <2> HIDE DEF IsE
  <2> QED BY <1>4
<1>6. IsEma(E, h, p)
  <2> HIDE DEF E
  <2>1. \A i \in 1 .. n : E[i] =
            IF i < p THEN Ratio(0, 1)
            ELSE IF i = p THEN Ratio(Total(Closes(Prefix(h, p))), p)
            ELSE Ratio(2 * h[i].close * E[i - 1].den + (p - 1) * E[i - 1].num,
                       (p + 1) * E[i - 1].den)
    BY <1>5
  <2>2. ~ (p < p) /\ \A k \in p + 1 .. n : k \in 1 .. n /\ ~ (k < p) /\ k # p
    BY <1>1
  <2> HIDE DEF IsE
  <2> QED BY <1>1, <1>3, <2>1, <2>2
<1>7. EmaValues(h, p) = E
  BY DEF EmaValues
<1> HIDE DEF E
<1> QED BY <1>6, <1>7

LEMMA EmaStaysWithin ==
    ASSUME NEW h \in Seq(Given), NEW p \in 1 .. Len(h), NEW lo \in Int, NEW hi \in Int,
           CloseWithin(h, lo, hi)
    PROVE  /\ Ema(h, p) = EmaValues(h, p)[Len(h)]
           /\ Within(Ema(h, p), lo, hi)
<1> DEFINE n == Len(h)
           base == Ratio(Total(Piece(h, 0, p)), p)
           x == ClosesFrom(h, p)
<1>1. n \in Nat /\ p \in Nat \ {0} /\ p \in Nat /\ 0 + p <= Len(h) /\ 0 \in Nat /\ n \in p .. n
  BY CandlesAre
<1>2. PICK F : IsEma(F, h, p) /\ Ema(h, p) = F[n]
  BY EmaIsEma
<1>3. base \in Ratios /\ Within(base, lo, hi)
  BY <1>1, MeanOfPiece
<1>4. x \in [p + 1 .. n -> Int] /\ \A k \in p + 1 .. n : lo <= x[k] /\ x[k] <= hi
  BY <1>1, ClosesFromType DEF CloseWithin
<1>5. /\ IsAverage(F, p, n, base, x, p)
      /\ IsAverage(EmaValues(h, p), p, n, base, x, p)
  BY <1>2, EmaValuesAreEma DEF IsEma
<1> HIDE DEF n, base, x
<1>6. F[n] = EmaValues(h, p)[n]
  BY <1>1, <1>5, AverageUnique
<1>7. Within(F[n], lo, hi)
  BY <1>1, <1>3, <1>4, <1>5, AverageStaysWithin
<1> QED BY <1>2, <1>6, <1>7 DEF n

-----------------------------------------------------------------------------
(* The percentages: RSI, MFI and the stochastic oscillator. *)

LEMMA PercentWithin ==
    ASSUME NEW part \in Nat, NEW rest \in Nat
    PROVE  Within(Percent(part, part + rest), 0, 100)
<1>1. Percent(part, part + rest).num = 100 * part /\ Percent(part, part + rest).den = part + rest
  BY DEF Percent, Ratio
<1>2. 0 * (part + rest) <= 100 * part /\ 100 * part <= 100 * (part + rest)
  OBVIOUS
<1> QED BY <1>1, <1>2 DEF Within

LEMMA PositiveIsNatural ==
    ASSUME NEW x \in Int
    PROVE  Positive(x) \in Nat /\ AsNegative(x) \in Int /\ AsNegative(x) <= 0
BY DEF Positive, AsNegative

\* At the period of the whole history the series has the sums that the signal takes.
LEMMA RsiAgrees ==
    ASSUME NEW h \in Seq(Given)
    PROVE  RsiValues(h, Len(h) - 1)[Len(h)] = RsiOf(Gain(h), Loss(h))
<1> DEFINE n == Len(h)
<1>1. n \in Nat /\ n \in n - 1 + 1 .. n
  BY CandlesAre
<1>2. RsiValues(h, n - 1)[n] =
        RsiOf(Total([j \in 1 .. n - 1 |-> Positive(h[n - (n - 1) + j].close - h[n - (n - 1) + j - 1].close)]),
              Total([j \in 1 .. n - 1 |-> Positive(-(h[n - (n - 1) + j].close - h[n - (n - 1) + j - 1].close))]))
  BY <1>1 DEF RsiValues
<1>3. \A j \in 1 .. n - 1 :
        /\ n - (n - 1) + j = j + 1 /\ n - (n - 1) + j - 1 = j
        /\ h[j].close \in Int /\ h[j + 1].close \in Int
  <2>1. \A j \in 1 .. n - 1 : j \in 1 .. n /\ j + 1 \in 1 .. n
    BY <1>1
  <2>2. \A j \in 1 .. n - 1 : n - (n - 1) + j = j + 1 /\ n - (n - 1) + j - 1 = j
    BY <1>1
  <2> QED BY <2>1, <2>2, CandlesAre
<1>4. \A a, b \in Int : -(b - a) = a - b
  OBVIOUS
<1> HIDE DEF n
<1>5. [j \in 1 .. n - 1 |-> Positive(h[n - (n - 1) + j].close - h[n - (n - 1) + j - 1].close)]
        = [i \in 1 .. n - 1 |-> Positive(h[i + 1].close - h[i].close)]
  BY <1>3
<1>6. [j \in 1 .. n - 1 |-> Positive(-(h[n - (n - 1) + j].close - h[n - (n - 1) + j - 1].close))]
        = [i \in 1 .. n - 1 |-> Positive(h[i].close - h[i + 1].close)]
  BY <1>3, <1>4
<1> QED BY <1>2, <1>5, <1>6 DEF Gain, Loss, n

LEMMA RsiStaysWithin ==
    ASSUME NEW h \in Seq(Given), Loss(h) # 0
    PROVE  Within(RsiOf(Gain(h), Loss(h)), 0, 100)
<1> DEFINE n == Len(h)
           up == [i \in 1 .. n - 1 |-> Positive(h[i + 1].close - h[i].close)]
           down == [i \in 1 .. n - 1 |-> Positive(h[i].close - h[i + 1].close)]
<1>1. \A i \in 1 .. n - 1 : h[i].close \in Int /\ h[i + 1].close \in Int
  <2>1. \A i \in 1 .. n - 1 : i \in 1 .. n /\ i + 1 \in 1 .. n
    BY CandlesAre
  <2> QED BY <2>1, CandlesAre
<1>2. \A i \in 1 .. n - 1 : /\ Positive(h[i + 1].close - h[i].close) \in Nat
                            /\ Positive(h[i].close - h[i + 1].close) \in Nat
  <2>1. \A i \in 1 .. n - 1 : h[i + 1].close - h[i].close \in Int /\ h[i].close - h[i + 1].close \in Int
    <3> SUFFICES ASSUME NEW i \in 1 .. n - 1
                 PROVE  h[i + 1].close - h[i].close \in Int /\ h[i].close - h[i + 1].close \in Int
      OBVIOUS
    <3>1. h[i].close \in Int /\ h[i + 1].close \in Int
      BY <1>1
    <3> QED BY <3>1
  <2> QED BY <2>1, PositiveIsNatural
<1>3. n - 1 \in Nat \/ n - 1 = -1
  BY CandlesAre
<1>4. up \in Seq(Nat) /\ down \in Seq(Nat)
  <2>1. CASE n - 1 \in Nat
    BY <1>2, <2>1
  <2>2. CASE n - 1 = -1
    <3>1. 1 .. n - 1 = 1 .. 0
      BY <2>2
    <3> QED BY <1>2, <3>1
  <2> QED BY <1>3, <2>1, <2>2
<1>5. Gain(h) \in Nat /\ Loss(h) \in Nat
  <2> HIDE DEF up, down
  <2>1. Total(up) \in Nat /\ Total(down) \in Nat
    BY <1>4, TotalOfNaturals
  <2> QED BY <2>1 DEF Gain, Loss, up, down, n
<1> QED BY <1>5, PercentWithin DEF RsiOf

\* Ratios that are at most m.
NoMoreThan(m) == {r \in [num: Nat, den: Nat] : r.num <= m * r.den}

LEMMA NoMoreThanParts ==
    ASSUME NEW a \in Nat, NEW b \in Nat, NEW m \in Nat, a <= m * b
    PROVE  Ratio(a, b) \in NoMoreThan(m) /\ Ratio(a, b).num = a /\ Ratio(a, b).den = b
BY DEF Ratio, NoMoreThan

LEMMA NoMoreThanWithin ==
    ASSUME NEW m \in Nat, NEW r \in NoMoreThan(m)
    PROVE  /\ Within(r, 0, m) /\ r = Ratio(r.num, r.den)
           /\ r.num \in Nat /\ r.den \in Nat /\ r.num <= m * r.den
<1>1. r \in [num: Nat, den: Nat] /\ r.num <= m * r.den
  BY DEF NoMoreThan
<1>2. r.num \in Nat /\ r.den \in Nat /\ r = [num |-> r.num, den |-> r.den]
  BY <1>1
<1>3. 0 * r.den <= r.num
  BY <1>2
<1> QED BY <1>1, <1>2, <1>3 DEF Within, Ratio

LEMMA StochasticIsPercentage ==
    ASSUME NEW c \in Seq(Given), c # <<>>
    PROVE  StochasticOf(c) \in NoMoreThan(100)
<1>1. Len(c) \in 1 .. Len(c)
  <2>1. Len(c) \in Nat /\ Len(c) # 0
    BY EmptySeq, LenProperties
  <2> QED BY <2>1
<1> DEFINE l == Lowest(c)
           t == Highest(c)
           x == c[Len(c)].close
<1>2. l \in Nat /\ t \in Nat /\ x \in Nat /\ l <= x /\ x <= t
  BY <1>1, PriceBounds, CandlesAre
<1>3. StochasticOf(c) = Ratio(100 * (x - l), t - l)
  BY DEF StochasticOf, Percent, Last
<1> HIDE DEF l, t, x
<1>4. 100 * (x - l) \in Nat /\ t - l \in Nat /\ 100 * (x - l) <= 100 * (t - l)
  BY <1>2
<1> QED BY <1>3, <1>4, NoMoreThanParts

LEMMA PlusStaysBelow ==
    ASSUME NEW m \in Nat, NEW k \in Nat, NEW r \in NoMoreThan(m), NEW s \in NoMoreThan(k)
    PROVE  Plus(r, s) \in NoMoreThan(m + k)
<1> DEFINE a == r.num
           b == r.den
           c == s.num
           e == s.den
<1>1. a \in Nat /\ b \in Nat /\ a <= m * b
  BY NoMoreThanWithin
<1>2. c \in Nat /\ e \in Nat /\ c <= k * e
  BY NoMoreThanWithin
<1>3. Plus(r, s) = Ratio(a * e + c * b, b * e)
  BY DEF Plus
<1> HIDE DEF a, b, c, e
<1>4. \A x, y, z \in Nat : x * y \in Nat /\ x + y \in Nat /\ (x <= y => x * z <= y * z)
  OBVIOUS
<1>5. m * b \in Nat /\ k * e \in Nat
  BY <1>1, <1>2, <1>4
<1>6. a * e <= (m * b) * e /\ c * b <= (k * e) * b
  BY <1>1, <1>2, <1>4, <1>5
<1>7. (m * b) * e + (k * e) * b = (m + k) * (b * e)
  BY <1>1, <1>2
<1>8. /\ a * e \in Nat /\ c * b \in Nat /\ b * e \in Nat
      /\ (m * b) * e \in Nat /\ (k * e) * b \in Nat /\ m + k \in Nat
  BY <1>1, <1>2, <1>4, <1>5
<1>9. a * e + c * b \in Nat /\ a * e + c * b <= (m + k) * (b * e)
  BY <1>6, <1>7, <1>8
<1> QED BY <1>3, <1>8, <1>9, NoMoreThanParts

\* MeanOfRatios adds up one by one.
LEMMA MeanAddsUp ==
    ASSUME NEW n \in Nat, NEW s \in [1 .. n -> NoMoreThan(100)]
    PROVE  \E F : /\ F[0] = Ratio(0, 1)
                  /\ \A k \in 1 .. n : F[k] = Plus(F[k - 1], s[k])
                  /\ MeanOfRatios(s) = Ratio(F[n].num, F[n].den * n)
<1> DEFINE X == [num: Nat, den: Nat]
           base == Ratio(0, 1)
           step == [z \in (0 + 1 .. n) \X X |-> Plus(z[2], s[z[1]])]
           IsSum(f) == f = [k \in 0 .. n |-> IF k = 0 THEN Ratio(0, 1) ELSE Plus(f[k - 1], s[k])]
           F == CHOOSE f : IsSum(f)
<1>1. base \in X
  BY DEF Ratio
<1>2. step \in [(0 + 1 .. n) \X X -> X]
  <2>1. ASSUME NEW z \in (0 + 1 .. n) \X X
        PROVE  Plus(z[2], s[z[1]]) \in X
    <3>1. z[2] \in X /\ s[z[1]] \in NoMoreThan(100)
      OBVIOUS
    <3>2. z[2].num \in Nat /\ z[2].den \in Nat /\ s[z[1]].num \in Nat /\ s[z[1]].den \in Nat
      BY <3>1, NoMoreThanWithin
    <3>3. \A x, y \in Nat : x * y \in Nat /\ x + y \in Nat
      OBVIOUS
    <3>4. /\ z[2].num * s[z[1]].den + s[z[1]].num * z[2].den \in Nat
          /\ z[2].den * s[z[1]].den \in Nat
      BY <3>2, <3>3
    <3> QED BY <3>4 DEF Plus, Ratio
  <2> QED BY <2>1
<1>3. PICK G : RunsFrom(G, 0, n, X, base, step)
  <2> HIDE DEF step, base, X
  <2> DEFINE m == 0
  <2>1. m \in Nat /\ m <= n /\ step \in [(m + 1 .. n) \X X -> X]
    BY <1>2
  <2> HIDE DEF m
  <2>2. \E f : RunsFrom(f, m, n, X, base, step)
    BY <1>1, <2>1, RecursionFrom
  <2> QED BY <2>2 DEF m
<1>4. /\ G \in [0 .. n -> X] /\ G[0] = base
      /\ \A k \in 0 + 1 .. n : G[k] = step[<<k, G[k - 1]>>]
  BY <1>3 DEF RunsFrom
<1>5. \A k \in 0 .. n : G[k] = IF k = 0 THEN Ratio(0, 1) ELSE Plus(G[k - 1], s[k])
  <2>1. ASSUME NEW k \in 1 .. n
        PROVE  G[k] = Plus(G[k - 1], s[k])
    <3>1. k \in 0 + 1 .. n /\ k - 1 \in 0 .. n
      OBVIOUS
    <3>2. G[k - 1] \in X
      BY <1>4, <3>1
    <3>3. step[<<k, G[k - 1]>>] = Plus(G[k - 1], s[k])
      <4> HIDE DEF X
      <4> QED BY <3>1, <3>2
    <3> QED BY <1>4, <3>1, <3>3
  <2> QED BY <1>4, <2>1
<1>6. IsSum(G)
  <2>1. G = [k \in 0 .. n |-> G[k]]
    BY <1>4
  <2> HIDE DEF X, base, step
  <2> QED BY <1>5, <2>1
<1>7. IsSum(F)
  BY <1>6
<1>8. \A k \in 0 .. n : F[k] = IF k = 0 THEN Ratio(0, 1) ELSE Plus(F[k - 1], s[k])
  <2> HIDE DEF F
  <2> QED BY <1>7
<1>9. Len(s) = n
  OBVIOUS
<1>10. MeanOfRatios(s) = Ratio(F[n].num, F[n].den * n)
  BY <1>9 DEF MeanOfRatios
<1> HIDE DEF F
<1> QED BY <1>8, <1>10

LEMMA MeanIsPercentage ==
    ASSUME NEW n \in Nat, NEW s \in [1 .. n -> NoMoreThan(100)]
    PROVE  MeanOfRatios(s) \in NoMoreThan(100)
<1>1. PICK F : /\ F[0] = Ratio(0, 1)
               /\ \A k \in 1 .. n : F[k] = Plus(F[k - 1], s[k])
               /\ MeanOfRatios(s) = Ratio(F[n].num, F[n].den * n)
  BY MeanAddsUp
<1> DEFINE S == {k \in 0 .. n : F[k] \in NoMoreThan(100 * k)}
<1>2. 0 \in S
  <2>1. Ratio(0, 1) \in NoMoreThan(0)
    BY NoMoreThanParts
  <2> QED BY <1>1, <2>1
<1>3. ASSUME NEW k \in 0 + 1 .. n, k - 1 \in S
      PROVE  k \in S
  <2>1. k \in 1 .. n /\ 100 * (k - 1) \in Nat /\ 100 * (k - 1) + 100 = 100 * k
    OBVIOUS
  <2>2. F[k - 1] \in NoMoreThan(100 * (k - 1)) /\ s[k] \in NoMoreThan(100)
    BY <1>3, <2>1
  <2>3. Plus(F[k - 1], s[k]) \in NoMoreThan(100 * (k - 1) + 100)
    BY <2>1, <2>2, PlusStaysBelow
  <2> QED BY <1>1, <2>1, <2>3
<1> HIDE DEF S
<1>4. n \in S
  <2>1. \A k \in 0 .. n : k \in S
    BY <1>2, <1>3, IntervalInduction
  <2> QED BY <2>1
<1>5. F[n] \in NoMoreThan(100 * n) /\ 100 * n \in Nat
  BY <1>4 DEF S
<1> DEFINE a == F[n].num
           b == F[n].den
<1>6. a \in Nat /\ b \in Nat /\ a <= (100 * n) * b
  BY <1>5, NoMoreThanWithin
<1> HIDE DEF a, b
<1>7. b * n \in Nat
  <2>1. \A x, y \in Nat : x * y \in Nat
    OBVIOUS
  <2> QED BY <1>6, <2>1
<1>8. (100 * n) * b = 100 * (b * n)
  BY <1>6
<1> QED BY <1>1, <1>6, <1>7, <1>8, NoMoreThanParts DEF a, b

LEMMA MeanOfOneRatio ==
    ASSUME NEW s \in [1 .. 1 -> NoMoreThan(100)]
    PROVE  MeanOfRatios(s) = s[1]
<1>1. PICK F : /\ F[0] = Ratio(0, 1)
               /\ \A k \in 1 .. 1 : F[k] = Plus(F[k - 1], s[k])
               /\ MeanOfRatios(s) = Ratio(F[1].num, F[1].den * 1)
  BY MeanAddsUp
<1> DEFINE r == s[1]
<1>2. r.num \in Nat /\ r.den \in Nat /\ r = Ratio(r.num, r.den)
  <2>1. r \in NoMoreThan(100)
    OBVIOUS
  <2> HIDE DEF r
  <2> QED BY <2>1, NoMoreThanWithin
<1>3. F[1] = Plus(Ratio(0, 1), r)
  BY <1>1
<1>4. Plus(Ratio(0, 1), r) = Ratio(0 * r.den + r.num * 1, 1 * r.den)
  BY DEF Plus, Ratio
<1> HIDE DEF r
<1>5. 0 * r.den + r.num * 1 = r.num /\ 1 * r.den = r.den /\ r.den * 1 = r.den
  BY <1>2
<1>6. F[1] = r
  BY <1>2, <1>3, <1>4, <1>5
<1> QED BY <1>1, <1>2, <1>5, <1>6 DEF r

LEMMA LastMeanIsPercentage ==
    ASSUME NEW values, NEW i, NEW n \in Nat, \A j \in 1 .. n : values[i - n + j] \in NoMoreThan(100)
    PROVE  LastMean(values, i, n) \in NoMoreThan(100)
<1>1. [j \in 1 .. n |-> values[i - n + j]] \in [1 .. n -> NoMoreThan(100)]
  OBVIOUS
<1> QED BY <1>1, MeanIsPercentage DEF LastMean

LEMMA KValuesArePercentages ==
    ASSUME NEW h \in Seq(Given), NEW p \in Nat \ {0}, NEW i \in p .. Len(h)
    PROVE  KValues(h, p)[i] \in NoMoreThan(100)
<1> DEFINE c == SubSeq(h, i - p + 1, i)
<1>1. /\ i - p + 1 \in Int /\ i \in Int /\ i - p + 1 <= i /\ i - (i - p + 1) + 1 = p
      /\ \A j \in i - p + 1 .. i : h[j] \in Given
  <2>1. \A j \in i - p + 1 .. i : j \in 1 .. Len(h)
    BY CandlesAre
  <2> QED BY <2>1, CandlesAre
<1>2. c \in Seq(Given) /\ Len(c) = p
  BY <1>1, SubSeqProperties
<1> HIDE DEF c
<1>3. c # <<>>
  BY <1>2
<1>4. StochasticOf(c) \in NoMoreThan(100)
  BY <1>2, <1>3, StochasticIsPercentage
<1> QED BY <1>4 DEF KValues, c

LEMMA SmoothedArePercentages ==
    ASSUME NEW h \in Seq(Given), NEW p \in Nat \ {0}, NEW k \in Nat \ {0}, NEW d \in Nat \ {0}
    PROVE  /\ \A i \in p + k - 1 .. Len(h) : SmoothedK(h, p, k)[i] \in NoMoreThan(100)
           /\ \A i \in p + k + d - 2 .. Len(h) : SmoothedD(h, p, k, d)[i] \in NoMoreThan(100)
<1>1. ASSUME NEW i \in p + k - 1 .. Len(h)
      PROVE  SmoothedK(h, p, k)[i] \in NoMoreThan(100)
  <2>1. \A j \in 1 .. k : i - k + j \in p .. Len(h)
    BY CandlesAre
  <2>2. \A j \in 1 .. k : KValues(h, p)[i - k + j] \in NoMoreThan(100)
    BY <2>1, KValuesArePercentages
  <2>3. LastMean(KValues(h, p), i, k) \in NoMoreThan(100)
    BY <2>2, LastMeanIsPercentage
  <2> QED BY <2>3 DEF SmoothedK
<1>2. ASSUME NEW i \in p + k + d - 2 .. Len(h)
      PROVE  SmoothedD(h, p, k, d)[i] \in NoMoreThan(100)
  <2>1. \A j \in 1 .. d : i - d + j \in p + k - 1 .. Len(h)
    BY CandlesAre
  <2>2. \A j \in 1 .. d : SmoothedK(h, p, k)[i - d + j] \in NoMoreThan(100)
    BY <1>1, <2>1
  <2>3. LastMean(SmoothedK(h, p, k), i, d) \in NoMoreThan(100)
    BY <2>2, LastMeanIsPercentage
  <2> QED BY <2>3 DEF SmoothedD
<1> QED BY <1>1, <1>2

\* Both of each pair that calculate gives.
LEMMA PairsStayWithin ==
    ASSUME NEW h \in Seq(Given), NEW p \in Nat \ {0}, NEW k \in Nat \ {0}, NEW d \in Nat \ {0},
           NEW i \in DOMAIN StochasticValues(h, p, k, d)
    PROVE  /\ Within(StochasticValues(h, p, k, d)[i].first, 0, 100)
           /\ Within(StochasticValues(h, p, k, d)[i].second, 0, 100)
<1>1. i \in p + k - 1 .. Len(h)
  BY DEF StochasticValues
<1>2. /\ StochasticValues(h, p, k, d)[i].first = SmoothedK(h, p, k)[i]
      /\ StochasticValues(h, p, k, d)[i].second =
            IF i < p + k + d - 2 THEN Ratio(0, 1) ELSE SmoothedD(h, p, k, d)[i]
  BY DEF StochasticValues
<1>3. SmoothedK(h, p, k)[i] \in NoMoreThan(100)
  BY <1>1, SmoothedArePercentages
<1>4. CASE i < p + k + d - 2
  <2>1. Ratio(0, 1) \in NoMoreThan(100)
    BY NoMoreThanParts
  <2> QED BY <1>2, <1>3, <1>4, <2>1, NoMoreThanWithin
<1>5. CASE ~(i < p + k + d - 2)
  <2>1. i \in p + k + d - 2 .. Len(h)
    BY <1>1, <1>5, CandlesAre
  <2>2. SmoothedD(h, p, k, d)[i] \in NoMoreThan(100)
    BY <2>1, SmoothedArePercentages
  <2> QED BY <1>2, <1>3, <1>5, <2>2, NoMoreThanWithin
<1> QED BY <1>4, <1>5

\* Not smoothed, the first of the last pair is that of the last candles.
LEMMA UnsmoothedPair ==
    ASSUME NEW h \in Seq(Given), NEW p \in Nat \ {0}, NEW d \in Nat \ {0}, p + 1 + d <= Len(h)
    PROVE  StochasticValues(h, p, 1, d)[Len(h)].first = KValues(h, p)[Len(h)]
<1> DEFINE n == Len(h)
           s == [j \in 1 .. 1 |-> KValues(h, p)[n - 1 + j]]
<1>1. n \in p .. Len(h) /\ n \in p + 1 - 1 .. Len(h) /\ n - 1 + 1 = n
  BY CandlesAre
<1>2. StochasticValues(h, p, 1, d)[n].first = SmoothedK(h, p, 1)[n]
  <2>1. n \in {m \in p + 1 - 1 .. Len(h) : p + 1 + d <= Len(h)}
    BY <1>1
  <2> QED BY <2>1 DEF StochasticValues
<1>3. SmoothedK(h, p, 1)[n] = MeanOfRatios(s)
  BY <1>1 DEF SmoothedK, LastMean
<1>4. KValues(h, p)[n] \in NoMoreThan(100)
  BY <1>1, KValuesArePercentages
<1>5. s \in [1 .. 1 -> NoMoreThan(100)] /\ s[1] = KValues(h, p)[n]
  <2>1. \A j \in 1 .. 1 : n - 1 + j = n
    BY <1>1
  <2> HIDE DEF n
  <2> QED BY <1>4, <2>1
<1> HIDE DEF s, n
<1> QED BY <1>2, <1>3, <1>5, MeanOfOneRatio DEF n

\* What flows is natural.
FlowsOf == [up: Nat, down: Nat, scale: Nat]

NextFlows(h, p, i, f) ==
    IF Typical(h[i]) = Typical(h[i - 1]) THEN f
    ELSE [up |-> f.up * (p - 1) + FlowUp(h, i) * f.scale,
          down |-> f.down * (p - 1) + FlowDown(h, i) * f.scale,
          scale |-> f.scale * p]

LEMMA FlowsAreNatural ==
    ASSUME NEW h \in Seq(Given), NEW i \in 2 .. Len(h)
    PROVE  FlowUp(h, i) \in Nat /\ FlowDown(h, i) \in Nat
<1>1. i \in 1 .. Len(h) /\ i - 1 \in 1 .. Len(h)
  BY CandlesAre
<1>2. /\ h[i].high \in Nat /\ h[i].low \in Nat /\ h[i].close \in Nat /\ h[i].volume \in Nat
  BY <1>1, CandlesAre
<1>3. Typical(h[i]) \in Nat
  BY <1>2 DEF Typical
<1>4. Typical(h[i]) * h[i].volume \in Nat
  BY <1>2, <1>3
<1> QED BY <1>4 DEF FlowUp, FlowDown

LEMMA NextFlowsAre ==
    ASSUME NEW h \in Seq(Given), NEW p \in Nat \ {0}, NEW i \in 2 .. Len(h), NEW f \in FlowsOf
    PROVE  NextFlows(h, p, i, f) \in FlowsOf
<1> DEFINE u == FlowUp(h, i)
           d == FlowDown(h, i)
<1>1. u \in Nat /\ d \in Nat
  BY FlowsAreNatural
<1> HIDE DEF u, d
<1>2. f.up \in Nat /\ f.down \in Nat /\ f.scale \in Nat /\ p - 1 \in Nat
  BY DEF FlowsOf
<1>3. \A k, l \in Nat : k * l \in Nat /\ k + l \in Nat
  OBVIOUS
<1>4. /\ f.up * (p - 1) + u * f.scale \in Nat
      /\ f.down * (p - 1) + d * f.scale \in Nat
      /\ f.scale * p \in Nat
  BY <1>1, <1>2, <1>3
<1> QED BY <1>4 DEF NextFlows, FlowsOf, u, d

LEMMA FlowsAre ==
    ASSUME NEW h \in Seq(Given), NEW p \in 1 .. Len(h)
    PROVE  \A i \in p .. Len(h) : Flows(h, p)[i] \in FlowsOf
<1> DEFINE n == Len(h)
           base == [up |-> Total([j \in 1 .. p - 1 |-> FlowUp(h, j + 1)]),
                    down |-> Total([j \in 1 .. p - 1 |-> FlowDown(h, j + 1)]), scale |-> 1]
           IsF(F) == F = [i \in p .. n |->
                IF i = p THEN base
                ELSE IF Typical(h[i]) = Typical(h[i - 1]) THEN F[i - 1]
                ELSE [up |-> F[i - 1].up * (p - 1) + FlowUp(h, i) * F[i - 1].scale,
                      down |-> F[i - 1].down * (p - 1) + FlowDown(h, i) * F[i - 1].scale,
                      scale |-> F[i - 1].scale * p]]
           C == CHOOSE F : IsF(F)
           step == [z \in (p + 1 .. n) \X FlowsOf |-> NextFlows(h, p, z[1], z[2])]
<1>1. /\ n \in Nat /\ p \in Nat \ {0} /\ p \in Nat /\ p <= n /\ p - 1 \in Nat
      /\ \A i \in p + 1 .. n : i \in 2 .. n /\ i \in p .. n /\ i - 1 \in p .. n /\ i # p
      /\ \A i \in p .. n : i # p => i \in p + 1 .. n
      /\ p \in p .. n
  BY CandlesAre
<1>2. base \in FlowsOf
  <2>1. \A j \in 1 .. p - 1 : FlowUp(h, j + 1) \in Nat /\ FlowDown(h, j + 1) \in Nat
    <3>1. \A j \in 1 .. p - 1 : j + 1 \in 2 .. Len(h)
      BY <1>1
    <3> QED BY <3>1, FlowsAreNatural
  <2> DEFINE v == [j \in 1 .. p - 1 |-> FlowUp(h, j + 1)]
             w == [j \in 1 .. p - 1 |-> FlowDown(h, j + 1)]
  <2>2. v \in Seq(Nat) /\ w \in Seq(Nat)
    BY <1>1, <2>1
  <2> HIDE DEF v, w
  <2>3. Total(v) \in Nat /\ Total(w) \in Nat
    BY <2>2, TotalOfNaturals
  <2> QED BY <2>3 DEF FlowsOf, v, w
<1>3. step \in [(p + 1 .. n) \X FlowsOf -> FlowsOf]
  <2>1. ASSUME NEW z \in (p + 1 .. n) \X FlowsOf
        PROVE  NextFlows(h, p, z[1], z[2]) \in FlowsOf
    <3>1. z[1] \in 2 .. n /\ z[2] \in FlowsOf
      BY <1>1
    <3> QED BY <1>1, <3>1, NextFlowsAre
  <2> QED BY <2>1
<1>4. \A i \in p + 1 .. n, f \in FlowsOf : step[<<i, f>>] = NextFlows(h, p, i, f)
  OBVIOUS
<1> HIDE DEF base, step
<1>5. ASSUME NEW F
      PROVE  IsF(F) <=> /\ F = [i \in p .. n |-> F[i]]
                        /\ F[p] = base
                        /\ \A i \in p + 1 .. n : F[i] = NextFlows(h, p, i, F[i - 1])
  <2>1. ASSUME IsF(F)
        PROVE  /\ F = [i \in p .. n |-> F[i]]
               /\ F[p] = base
               /\ \A i \in p + 1 .. n : F[i] = NextFlows(h, p, i, F[i - 1])
    <3>1. DOMAIN F = p .. n /\ F = [i \in p .. n |-> F[i]]
      BY <2>1
    <3>2. F[p] = base
      BY <1>1, <2>1
    <3>3. \A i \in p + 1 .. n : F[i] = NextFlows(h, p, i, F[i - 1])
      BY <1>1, <2>1 DEF NextFlows
    <3> QED BY <3>1, <3>2, <3>3
  <2>2. ASSUME F = [i \in p .. n |-> F[i]], F[p] = base,
               \A i \in p + 1 .. n : F[i] = NextFlows(h, p, i, F[i - 1])
        PROVE  IsF(F)
    <3>1. \A i \in p .. n : F[i] =
                IF i = p THEN base
                ELSE IF Typical(h[i]) = Typical(h[i - 1]) THEN F[i - 1]
                ELSE [up |-> F[i - 1].up * (p - 1) + FlowUp(h, i) * F[i - 1].scale,
                      down |-> F[i - 1].down * (p - 1) + FlowDown(h, i) * F[i - 1].scale,
                      scale |-> F[i - 1].scale * p]
      BY <1>1, <2>2 DEF NextFlows
    <3> QED BY <2>2, <3>1
  <2> HIDE DEF IsF
  <2> QED BY <2>1, <2>2
<1>6. \E F : IsF(F)
  <2>1. PICK F : RunsFrom(F, p, n, FlowsOf, base, step)
    BY <1>1, <1>2, <1>3, RecursionFrom
  <2>2. /\ F \in [p .. n -> FlowsOf] /\ F[p] = base
        /\ \A i \in p + 1 .. n : F[i] = step[<<i, F[i - 1]>>]
    BY <2>1 DEF RunsFrom
  <2>3. \A i \in p + 1 .. n : F[i] = NextFlows(h, p, i, F[i - 1])
    BY <1>1, <1>4, <2>2
  <2>4. F = [i \in p .. n |-> F[i]]
    BY <2>2
  <2> HIDE DEF IsF
  <2> QED BY <1>5, <2>2, <2>3, <2>4
<1>7. /\ C[p] = base
      /\ \A i \in p + 1 .. n : C[i] = NextFlows(h, p, i, C[i - 1])
  <2> HIDE DEF IsF
  <2>1. IsF(C)
    BY <1>6
  <2> HIDE DEF C
  <2> QED BY <1>5, <2>1
<1>8. Flows(h, p) = C
  BY DEF Flows, base
<1> HIDE DEF C
<1> DEFINE S == {i \in p .. n : C[i] \in FlowsOf}
<1>9. p \in S
  BY <1>1, <1>2, <1>7
<1>10. ASSUME NEW i \in p + 1 .. n, i - 1 \in S PROVE i \in S
  <2>1. C[i] = NextFlows(h, p, i, C[i - 1]) /\ C[i - 1] \in FlowsOf /\ i \in 2 .. Len(h) /\ i \in p .. n
    BY <1>1, <1>7, <1>10
  <2>2. C[i] \in FlowsOf
    BY <1>1, <2>1, NextFlowsAre
  <2> QED BY <2>1, <2>2
<1> HIDE DEF S, n
<1>11. \A i \in p .. n : i \in S
  BY <1>1, <1>9, <1>10, IntervalInduction
<1> QED BY <1>8, <1>11 DEF S, n

LEMMA MfiStaysWithin ==
    ASSUME NEW h \in Seq(Given), NEW p \in 1 .. Len(h)
    PROVE  Within(MfiValues(h, p)[Len(h)], 0, 100)
<1> DEFINE n == Len(h)
           f == Flows(h, p)[n]
<1>1. n \in p .. n
  BY CandlesAre
<1>2. f.up \in Nat /\ f.down \in Nat
  <2>1. f \in FlowsOf
    BY <1>1, FlowsAre
  <2> QED BY <2>1 DEF FlowsOf
<1>3. MfiValues(h, p)[n] = IF f.down = 0 /\ n = p THEN Ratio(100, 1)
                           ELSE IF f.up = 0 THEN Ratio(0, 1)
                           ELSE Percent(f.up, f.up + f.down)
  BY <1>1 DEF MfiValues
<1> HIDE DEF f
<1>4. Within(Ratio(100, 1), 0, 100) /\ Within(Ratio(0, 1), 0, 100)
  BY RatioParts DEF Within
<1>5. Within(Percent(f.up, f.up + f.down), 0, 100)
  BY <1>2, PercentWithin
<1> QED BY <1>3, <1>4, <1>5

-----------------------------------------------------------------------------
(* OBV, VWAP, ADX, the levels and the bands. *)

LEMMA TotalScaled ==
    ASSUME NEW v \in Seq(Int), NEW w \in Seq(Int), Len(v) = Len(w), NEW c \in Int,
           \A i \in 1 .. Len(v) : c * w[i] <= v[i], NEW d \in Int,
           \A i \in 1 .. Len(v) : v[i] <= d * w[i]
    PROVE  /\ Total(v) \in Int /\ Total(w) \in Int
           /\ c * Total(w) <= Total(v) /\ Total(v) <= d * Total(w)
<1>1. Total(v) = SumOf(v) /\ Total(w) = SumOf(w)
  BY TotalIsSum
<1>2. SumOf(v) \in Int /\ SumOf(w) \in Int
  BY SumType
<1>3. c * SumOf(w) <= SumOf(v)
  BY SumScaled
<1>4. SumOf(v) <= d * SumOf(w)
  BY SumScaledAbove
<1> QED BY <1>1, <1>2, <1>3, <1>4

LEMMA ObvStaysWithin ==
    ASSUME NEW h \in Seq(Given), Len(h) > 1
    PROVE  Within(ObvValues(h)[Len(h)], -Volume(Tail(h)), Volume(Tail(h)))
<1> DEFINE n == Len(h)
           v == [j \in 1 .. n - 1 |-> Signed(h, j + 1)]
           w == [i \in DOMAIN Tail(h) |-> Tail(h)[i].volume]
<1>1. /\ n \in Nat /\ n \in 2 .. n /\ n - 1 \in Nat
      /\ \A j \in 1 .. n - 1 : j + 1 \in 1 .. n /\ j \in 1 .. n /\ j + 1 - 1 = j
  BY CandlesAre
<1>2. /\ DOMAIN Tail(h) = 1 .. n - 1
      /\ \A j \in 1 .. n - 1 : Tail(h)[j] = h[j + 1]
  <2>1. h # <<>>
    BY <1>1
  <2>2. Tail(h) = [k \in 1 .. n - 1 |-> h[k + 1]]
    BY <2>1, TailAsFunction
  <2> QED BY <2>2
<1>3. ASSUME NEW j \in 1 .. n - 1
      PROVE  /\ h[j + 1].volume \in Nat /\ Signed(h, j + 1) \in Int
             /\ (-1) * h[j + 1].volume <= Signed(h, j + 1) /\ Signed(h, j + 1) <= 1 * h[j + 1].volume
  <2> DEFINE x == h[j + 1].volume
  <2>1. x \in Nat
    BY <1>1, CandlesAre
  <2>2. Signed(h, j + 1) = x \/ Signed(h, j + 1) = -x \/ Signed(h, j + 1) = 0
    BY DEF Signed
  <2> HIDE DEF x
  <2>3. /\ Signed(h, j + 1) \in Int
        /\ (-1) * x <= Signed(h, j + 1) /\ Signed(h, j + 1) <= 1 * x
    BY <2>1, <2>2
  <2> QED BY <2>1, <2>3 DEF x
<1>4. w = [j \in 1 .. n - 1 |-> h[j + 1].volume]
  BY <1>2
<1>5. /\ v \in Seq(Int) /\ w \in Seq(Int) /\ Len(v) = n - 1 /\ Len(w) = n - 1
      /\ \A j \in 1 .. n - 1 : v[j] = Signed(h, j + 1) /\ w[j] = h[j + 1].volume
  <2>1. /\ v \in Seq(Int) /\ Len(v) = n - 1 /\ \A j \in 1 .. n - 1 : v[j] = Signed(h, j + 1)
    BY <1>1, <1>3
  <2> DEFINE u == [j \in 1 .. n - 1 |-> h[j + 1].volume]
  <2>2. /\ u \in Seq(Int) /\ Len(u) = n - 1 /\ \A j \in 1 .. n - 1 : u[j] = h[j + 1].volume
    BY <1>1, <1>3
  <2> QED BY <1>4, <2>1, <2>2
<1>6. ObvValues(h)[n] = Ratio(Total(v), 1) /\ Volume(Tail(h)) = Total(w)
  BY <1>1 DEF ObvValues, Volume
<1> HIDE DEF v, w, n
<1>7. /\ Total(v) \in Int /\ Total(w) \in Int
      /\ (-1) * Total(w) <= Total(v) /\ Total(v) <= 1 * Total(w)
  <2>1. \A j \in 1 .. Len(v) : (-1) * w[j] <= v[j] /\ v[j] <= 1 * w[j]
    BY <1>3, <1>5
  <2>2. -1 \in Int /\ 1 \in Int /\ Len(v) = Len(w)
    BY <1>5
  <2> QED BY <1>5, <2>1, <2>2, TotalScaled
<1>8. (-Total(w)) * 1 <= Total(v) /\ Total(v) <= Total(w) * 1
  BY <1>7
<1> QED BY <1>6, <1>8, RatioParts DEF Within, n

LEMMA VwapStaysWithin ==
    ASSUME NEW h \in Seq(Given), h # <<>>, NEW lo \in Int, NEW hi \in Int, CloseWithin(h, lo, hi)
    PROVE  Within(VwapValues(h)[Len(h)], lo, hi)
<1> DEFINE n == Len(h)
           v == [j \in 1 .. n |-> h[j].close * h[j].volume]
           w == [j \in 1 .. n |-> h[j].volume]
<1>1. n \in Nat /\ n \in 1 .. n /\ n \in DOMAIN h
  <2>1. n \in Nat /\ n # 0
    BY EmptySeq, LenProperties
  <2> QED BY <2>1
<1>2. ASSUME NEW j \in 1 .. n
      PROVE  /\ h[j].volume \in Int /\ h[j].close * h[j].volume \in Int
             /\ lo * h[j].volume <= h[j].close * h[j].volume
             /\ h[j].close * h[j].volume <= hi * h[j].volume
  <2>1. h[j].volume \in Nat /\ h[j].close \in Nat /\ lo <= h[j].close /\ h[j].close <= hi
    BY CandlesAre DEF CloseWithin
  <2>2. \A k \in Nat, l, m \in Int : l <= m => l * k <= m * k /\ l * k \in Int /\ m * k \in Int
    OBVIOUS
  <2> QED BY <2>1, <2>2
<1>3. /\ v \in Seq(Int) /\ w \in Seq(Int) /\ Len(v) = n /\ Len(w) = n
      /\ \A j \in 1 .. n : v[j] = h[j].close * h[j].volume /\ w[j] = h[j].volume
  BY <1>1, <1>2
<1>4. Volume(Prefix(h, n)) = Total(w)
  <2>1. DOMAIN Prefix(h, n) = 1 .. n /\ \A j \in 1 .. n : Prefix(h, n)[j] = h[j]
    BY <1>1, ClosesArePieces
  <2> QED BY <2>1 DEF Volume
<1>5. VwapValues(h)[n] = Ratio(Total(v), Total(w))
  BY <1>1, <1>4 DEF VwapValues
<1> HIDE DEF v, w, n
<1>6. lo * Total(w) <= Total(v) /\ Total(v) <= hi * Total(w)
  <2>1. /\ \A j \in 1 .. Len(v) : lo * w[j] <= v[j]
        /\ \A j \in 1 .. Len(v) : v[j] <= hi * w[j]
        /\ Len(v) = Len(w)
    BY <1>2, <1>3
  <2> QED BY <1>3, <2>1, TotalScaled
<1> QED BY <1>5, <1>6, RatioParts DEF Within, n

LEMMA AdxStaysWithin ==
    ASSUME NEW h \in Seq(Given)
    PROVE  AdxOf(h).num = 0 \/ AdxOf(h).num >= 100 * AdxOf(h).den
<1> DEFINE n == Len(h)
           Up(i) == IF Rise(h, i + 1) > Fall(h, i + 1) THEN Positive(Rise(h, i + 1)) ELSE 0
           Down(i) == IF Fall(h, i + 1) > Rise(h, i + 1) THEN AsNegative(Fall(h, i + 1)) ELSE 0
           v == [i \in 1 .. n - 1 |-> Up(i)]
           w == [i \in 1 .. n - 1 |-> Down(i)]
<1>1. n \in Nat /\ (n - 1 \in Nat \/ n - 1 = -1)
  BY CandlesAre
<1>2. ASSUME NEW i \in 1 .. n - 1
      PROVE  Up(i) \in Nat /\ Down(i) \in Int /\ Down(i) <= 0
  <2>1. i + 1 \in 1 .. n /\ i + 1 - 1 \in 1 .. n
    BY <1>1
  <2>2. /\ h[i + 1].high \in Nat /\ h[i + 1].low \in Nat
        /\ h[i + 1 - 1].high \in Nat /\ h[i + 1 - 1].low \in Nat
    BY <2>1, CandlesAre
  <2>3. Rise(h, i + 1) \in Int /\ Fall(h, i + 1) \in Int
    BY <2>2 DEF Rise, Fall
  <2>4. /\ Positive(Rise(h, i + 1)) \in Nat
        /\ AsNegative(Fall(h, i + 1)) \in Int /\ AsNegative(Fall(h, i + 1)) <= 0
    BY <2>3, PositiveIsNatural
  <2> QED BY <2>4
<1> HIDE DEF Up, Down
<1>3. /\ v \in Seq(Nat) /\ w \in Seq(Int)
      /\ \A i \in 1 .. Len(w) : w[i] \in Int /\ w[i] <= 0
  <2>1. PICK k \in Nat : 1 .. n - 1 = 1 .. k
    <3>1. n - 1 = -1 => 1 .. n - 1 = 1 .. 0
      OBVIOUS
    <3> QED BY <1>1, <3>1
  <2> DEFINE x == [i \in 1 .. k |-> Up(i)]
             y == [i \in 1 .. k |-> Down(i)]
  <2>2. \A i \in 1 .. k : Up(i) \in Nat /\ Down(i) \in Int /\ Down(i) <= 0
    BY <1>2, <2>1
  <2>3. x \in Seq(Nat) /\ y \in Seq(Int) /\ Len(y) = k /\ \A i \in 1 .. k : y[i] = Down(i)
    BY <2>2
  <2>4. v = x /\ w = y
    BY <2>1
  <2> HIDE DEF v, w, x, y
  <2> QED BY <2>2, <2>3, <2>4
<1>4. PlusDM(h) = Total(v) /\ MinusDM(h) = Total(w)
  BY DEF PlusDM, MinusDM, Up, Down
<1> HIDE DEF v, w
<1>5. Total(v) \in Nat
  BY <1>3, TotalOfNaturals
<1>6. Total(w) \in Int /\ Total(w) <= 0
  <2>1. \A i \in 1 .. Len(w) : w[i] <= 0 * w[i]
    BY <1>3
  <2>2. w \in Seq(Int) /\ Len(w) = Len(w) /\ 0 \in Int
    BY <1>3
  <2>3. SumOf(w) <= 0 * SumOf(w)
    BY ONLY <2>1, <2>2, SumScaledAbove
  <2>4. SumOf(w) \in Int /\ Total(w) = SumOf(w)
    BY <2>2, SumType, TotalIsSum
  <2> QED BY <2>3, <2>4
<1> DEFINE p == PlusDM(h)
           m == MinusDM(h)
<1>7. p \in Nat /\ m \in Int /\ m <= 0
  BY <1>4, <1>5, <1>6
<1>8. AdxOf(h) = IF p + m = 0 /\ HasRange(h) THEN Ratio(0, 1)
                 ELSE Percent(Magnitude(p - m), Magnitude(p + m))
  BY DEF AdxOf
<1> HIDE DEF p, m
<1>9. Magnitude(p - m) = p - m /\ p - m >= Magnitude(p + m) /\ Magnitude(p + m) \in Nat
  BY <1>7 DEF Magnitude
<1>10. 100 * Magnitude(p - m) >= 100 * Magnitude(p + m)
  BY <1>7, <1>9
<1> QED BY <1>8, <1>10, RatioParts DEF Percent

LEMMA SecondLevelWithin ==
    ASSUME NEW h \in Seq(Given), h # <<>>
    PROVE  Within(Levels(h)[2], Lowest(h), Highest(h))
<1> DEFINE l == Lowest(h)
           t == Highest(h)
<1>1. l \in Nat /\ t \in Nat /\ l <= t
  BY PriceBounds
<1>2. Levels(h)[2] = Ratio(1000 * t - (t - l) * 236, 1000)
  <2>1. 2 \in 1 .. 5 /\ <<0, 236, 382, 618, 1000>>[2] = 236
    OBVIOUS
  <2> QED BY <2>1 DEF Levels
<1> HIDE DEF l, t
<1>3. l * 1000 <= 1000 * t - (t - l) * 236 /\ 1000 * t - (t - l) * 236 <= t * 1000
  BY <1>1
<1> QED BY <1>2, <1>3, RatioParts DEF Within, l, t

LEMMA VarianceIsNatural ==
    ASSUME NEW h \in Seq(Given), NEW p \in 1 .. Len(h)
    PROVE  Variance(h, p) \in Int /\ Variance(h, p) >= 0
<1> DEFINE c == Latest(Closes(h), p)
           w == [i \in DOMAIN c |-> c[i] * c[i]]
           u == [i \in 1 .. p |-> c[i] * c[i]]
<1>1. c \in Seq(Int) /\ Len(c) = p /\ DOMAIN c = 1 .. p /\ \A i \in 1 .. p : c[i] \in Int
  <2>1. Len(h) - p \in Nat /\ p \in Nat /\ Len(h) - p + p <= Len(h)
    BY CandlesAre
  <2>2. c = Piece(h, Len(h) - p, p)
    BY ClosesArePieces
  <2>3. /\ Piece(h, Len(h) - p, p) \in Seq(Int) /\ Len(Piece(h, Len(h) - p, p)) = p
        /\ DOMAIN Piece(h, Len(h) - p, p) = 1 .. p
        /\ \A i \in 1 .. p : Piece(h, Len(h) - p, p)[i] \in Nat
    BY <2>1, PieceType
  <2> HIDE DEF c
  <2> QED BY <2>2, <2>3
<1>2. p \in Nat
  BY CandlesAre
<1>3. Variance(h, p) = p * Total(w) - Total(c) * Total(c)
  BY DEF Variance
<1> HIDE DEF c
<1>4. w = u
  BY <1>1
<1>5. u \in Seq(Int) /\ Len(u) = p /\ \A i \in 1 .. Len(c) : u[i] = c[i] * c[i]
  <2>1. \A i \in 1 .. p : c[i] * c[i] \in Int
    BY <1>1
  <2> QED BY <1>1, <1>2, <2>1
<1> HIDE DEF w, u
<1>6. SumOf(c) * SumOf(c) <= Len(c) * SumOf(u)
  BY <1>1, <1>5, SquareOfSum
<1>7. Total(c) = SumOf(c) /\ Total(u) = SumOf(u) /\ SumOf(c) \in Int /\ SumOf(u) \in Int
  BY <1>1, <1>5, TotalIsSum, SumType
<1> DEFINE a == SumOf(c)
           b == SumOf(u)
<1>8. a \in Int /\ b \in Int /\ a * a <= p * b /\ Variance(h, p) = p * b - a * a
  BY <1>1, <1>3, <1>4, <1>6, <1>7
<1> HIDE DEF a, b
<1>9. a * a \in Int /\ p * b \in Int
  BY <1>2, <1>8
<1> QED BY <1>8, <1>9

-----------------------------------------------------------------------------
(* ATR and APO. *)

LEMMA TrueRangeIsNatural ==
    ASSUME NEW b \in GivenCandle, b.low <= b.high, NEW x \in Nat
    PROVE  TrueRange(b, x) \in Nat
<1> DEFINE h == b.high
           l == b.low
<1>1. h \in Nat /\ l \in Nat /\ l <= h
  BY DEF GivenCandle
<1> HIDE DEF h, l
<1>2. h - l \in Nat /\ Magnitude(h - x) \in Nat /\ Magnitude(l - x) \in Nat
  BY <1>1 DEF Magnitude
<1> QED BY <1>2 DEF TrueRange, Largest, h, l

LEMMA SmoothedStaysWithin ==
    ASSUME NEW r \in Ratios, NEW p \in Nat \ {0}, NEW x \in Int, NEW lo \in Int, NEW hi \in Int,
           lo <= x, x <= hi, Within(r, lo, hi)
    PROVE  Smoothed(r, p, x) \in Ratios /\ Within(Smoothed(r, p, x), lo, hi)
<1> DEFINE a == r.num
           b == r.den
           c == a * (p - 1) + x * b
           d == b * p
<1>1. a \in Int /\ b \in Nat \ {0} /\ lo * b <= a /\ a <= hi * b
  BY DEF Ratios, Within
<1> HIDE DEF a, b
<1>2. c = 1 * (x * b) + (p - 1) * a
  BY <1>1
<1>3. d = (1 + (p - 1)) * b
  <2>1. 1 + (p - 1) = p
    OBVIOUS
  <2> QED BY <1>1, <2>1
<1>4. 1 \in Nat /\ p - 1 \in Nat /\ 1 + (p - 1) > 0
  OBVIOUS
<1> HIDE DEF c, d
<1>5. c \in Int /\ d \in Nat \ {0} /\ lo * d <= c /\ c <= hi * d
  BY <1>1, <1>2, <1>3, <1>4, MeanOfTwo
<1>6. /\ Smoothed(r, p, x) \in Ratios
      /\ Smoothed(r, p, x).num = c /\ Smoothed(r, p, x).den = d
  BY <1>5, RatioParts DEF Smoothed, a, b, c, d
<1> QED BY <1>5, <1>6 DEF Within

LEMMA SmoothedIsRatio ==
    ASSUME NEW r \in Ratios, NEW p \in Nat \ {0}, NEW x \in Int
    PROVE  Smoothed(r, p, x) \in Ratios
<1> DEFINE a == r.num
           b == r.den
<1>1. a \in Int /\ b \in Nat \ {0}
  BY DEF Ratios
<1> HIDE DEF a, b
<1>2. a * (p - 1) + x * b \in Int
  BY <1>1
<1>3. b * p \in Nat \ {0}
  <2>1. \A k, l \in Nat \ {0} : k * l \in Nat \ {0}
    OBVIOUS
  <2> QED BY <1>1, <2>1
<1> QED BY <1>2, <1>3, RatioParts DEF Smoothed, a, b

\* Of an average that starts from a close and takes in others.
LEMMA AverageFromClose ==
    ASSUME NEW seed \in Int, NEW c \in Seq(Int), NEW p \in Nat \ {0}, NEW lo \in Int, NEW hi \in Int,
           lo <= seed, seed <= hi, \A i \in 1 .. Len(c) : lo <= c[i] /\ c[i] <= hi
    PROVE  Average(seed, c, p) \in Ratios /\ Within(Average(seed, c, p), lo, hi)
<1> DEFINE n == Len(c)
           base == Ratio(seed, 1)
           IsA(f) == f = [i \in 0 .. n |->
                IF i = 0 THEN Ratio(seed, 1)
                ELSE Ratio(2 * c[i] * f[i - 1].den + (p - 1) * f[i - 1].num, (p + 1) * f[i - 1].den)]
           A == CHOOSE f : IsA(f)
<1>1. /\ n \in Nat /\ 0 \in Nat /\ 0 <= n /\ n \in 0 .. n /\ 0 \in 0 .. n
      /\ c \in [0 + 1 .. n -> Int]
      /\ \A i \in 0 .. n : i # 0 <=> i \in 0 + 1 .. n
      /\ 0 + 1 .. n \subseteq 0 .. n
  OBVIOUS
<1>2. base \in Ratios /\ Within(base, lo, hi)
  <2>1. seed \in Int /\ 1 \in Nat \ {0} /\ lo * 1 <= seed /\ seed <= hi * 1
    OBVIOUS
  <2> QED BY <2>1, RatioParts DEF Within
<1>3. ASSUME NEW f
      PROVE  IsA(f) <=> f = [i \in 0 .. n |-> f[i]] /\ IsAverage(f, 0, n, base, c, p)
  <2>1. ASSUME IsA(f) PROVE f = [i \in 0 .. n |-> f[i]] /\ IsAverage(f, 0, n, base, c, p)
    <3>1. DOMAIN f = 0 .. n /\ f = [i \in 0 .. n |-> f[i]]
      BY <2>1
    <3>2. f[0] = base /\ \A k \in 0 + 1 .. n : f[k] = Entered(c[k], f[k - 1], p)
      BY <1>1, <2>1 DEF Entered
    <3> HIDE DEF base
    <3> QED BY <3>1, <3>2 DEF IsAverage
  <2>2. ASSUME f = [i \in 0 .. n |-> f[i]], IsAverage(f, 0, n, base, c, p) PROVE IsA(f)
    BY <1>1, <2>2 DEF IsAverage, Entered
  <2> HIDE DEF IsA, base
  <2> QED BY <2>1, <2>2
<1>4. \E f : IsA(f)
  <2> HIDE DEF base
  <2>1. PICK F \in [0 .. n -> Ratios] : IsAverage(F, 0, n, base, c, p)
    BY <1>1, <1>2, AverageExists
  <2>2. F = [i \in 0 .. n |-> F[i]]
    OBVIOUS
  <2> HIDE DEF IsA
  <2> QED BY <1>3, <2>1, <2>2
<1>5. IsAverage(A, 0, n, base, c, p)
  <2> HIDE DEF IsA, base
  <2>1. IsA(A)
    BY <1>4
  <2> QED BY <1>3, <2>1
<1>6. Average(seed, c, p) = A[n]
  BY DEF Average
<1> HIDE DEF A, base
<1>7. \A k \in 0 + 1 .. n : lo <= c[k] /\ c[k] <= hi
  OBVIOUS
<1> HIDE DEF n
<1>8. A[n] \in Ratios /\ Within(A[n], lo, hi)
  BY <1>1, <1>2, <1>5, <1>7, AverageStaysWithin
<1> QED BY <1>6, <1>8

LEMMA LessStaysWithin ==
    ASSUME NEW r \in Ratios, NEW s \in Ratios, NEW lo \in Int, NEW hi \in Int,
           Within(r, lo, hi), Within(s, lo, hi)
    PROVE  Within(Less(r, s), -(hi - lo), hi - lo)
<1> DEFINE a == r.num
           b == r.den
           c == s.num
           d == s.den
<1>1. /\ a \in Int /\ b \in Nat \ {0} /\ c \in Int /\ d \in Nat \ {0}
      /\ lo * b <= a /\ a <= hi * b /\ lo * d <= c /\ c <= hi * d
  BY DEF Ratios, Within
<1>2. Less(r, s).num = a * d - c * b /\ Less(r, s).den = b * d
  BY RatioParts DEF Less
<1> HIDE DEF a, b, c, d
<1>3. /\ (-(hi - lo)) * (b * d) <= a * d - c * b
      /\ a * d - c * b <= (hi - lo) * (b * d)
  BY <1>1, DifferenceOfMeans
<1> QED BY <1>2, <1>3 DEF Within

LEMMA ApoStaysWithin ==
    ASSUME NEW h \in Seq(Given), NEW p \in 1 .. Len(h), NEW q \in 1 .. Len(h),
           NEW lo \in Int, NEW hi \in Int, CloseWithin(h, lo, hi)
    PROVE  Within(Less(Average(Last(Closes(h)), Latest(Closes(h), p), p),
                       Average(Last(Closes(h)), Latest(Closes(h), q), q)),
                  -(hi - lo), hi - lo)
<1> DEFINE n == Len(h)
           seed == Last(Closes(h))
<1>1. seed \in Int /\ lo <= seed /\ seed <= hi
  <2>1. n \in Nat /\ n \in 1 .. n
    BY CandlesAre
  <2>2. Closes(h) = Piece(h, 0, n)
    BY ClosesArePieces
  <2>3. Len(Piece(h, 0, n)) = n /\ Piece(h, 0, n)[n] = h[0 + n].close
    <3>1. 0 \in Nat /\ 0 + n <= Len(h)
      BY <2>1
    <3> QED BY <2>1, <3>1, PieceType
  <2>4. seed = h[n].close
    BY <2>1, <2>2, <2>3 DEF Last
  <2> HIDE DEF seed
  <2> QED BY <2>1, <2>4, CandlesAre DEF CloseWithin
<1> HIDE DEF seed
<1>2. ASSUME NEW r \in 1 .. Len(h)
      PROVE  /\ Average(seed, Latest(Closes(h), r), r) \in Ratios
             /\ Within(Average(seed, Latest(Closes(h), r), r), lo, hi)
  <2> DEFINE c == Piece(h, n - r, r)
  <2>1. Latest(Closes(h), r) = c
    BY ClosesArePieces
  <2>2. n - r \in Nat /\ r \in Nat /\ n - r + r <= Len(h) /\ r \in Nat \ {0}
    BY CandlesAre
  <2>3. /\ c \in Seq(Int) /\ Len(c) = r
        /\ \A j \in 1 .. r : c[j] = h[n - r + j].close /\ n - r + j \in 1 .. Len(h)
    BY <2>2, PieceType
  <2> HIDE DEF c, n
  <2>4. \A j \in 1 .. Len(c) : lo <= c[j] /\ c[j] <= hi
    BY <2>3 DEF CloseWithin
  <2> QED BY <1>1, <2>1, <2>2, <2>3, <2>4, AverageFromClose
<1> DEFINE r == Average(seed, Latest(Closes(h), p), p)
           s == Average(seed, Latest(Closes(h), q), q)
<1>3. r \in Ratios /\ s \in Ratios /\ Within(r, lo, hi) /\ Within(s, lo, hi)
  BY <1>2
<1> HIDE DEF r, s
<1>4. Within(Less(r, s), -(hi - lo), hi - lo)
  BY <1>3, LessStaysWithin
<1> QED BY <1>4 DEF r, s, seed

LEMMA ApoSeriesStaysWithin ==
    ASSUME NEW h \in Seq(Given), NEW p \in Nat \ {0}, NEW q \in Nat \ {0}, NEW i \in q .. Len(h),
           NEW lo \in Int, NEW hi \in Int, CloseWithin(h, lo, hi)
    PROVE  Within(ApoValues(h, p, q)[i], -(hi - lo), hi - lo)
<1> DEFINE c == Closes(Prefix(h, i))
           t == Tail(c)
<1>1. i \in 1 .. Len(h) /\ i \in Nat /\ 0 \in Nat /\ 0 + i <= Len(h)
  BY CandlesAre
<1>2. c = Piece(h, 0, i)
  BY <1>1, ClosesArePieces
<1>3. c \in Seq(Int) /\ Len(c) = i /\ \A j \in 1 .. i : lo <= c[j] /\ c[j] <= hi /\ c[j] \in Int
  <2> DEFINE d == Piece(h, 0, i)
  <2>1. /\ d \in Seq(Int) /\ Len(d) = i
        /\ \A j \in 1 .. i : d[j] = h[0 + j].close /\ 0 + j \in 1 .. Len(h) /\ d[j] \in Nat
    BY <1>1, PieceType
  <2> HIDE DEF c, d
  <2>2. \A j \in 1 .. i : lo <= d[j] /\ d[j] <= hi /\ d[j] \in Int
    BY <2>1 DEF CloseWithin
  <2> QED BY <1>2, <2>1, <2>2 DEF d
<1>4. ApoValues(h, p, q)[i] = Less(Average(c[1], t, p), Average(c[1], t, q))
  BY DEF ApoValues
<1> HIDE DEF c
<1>5. /\ t \in Seq(Int) /\ Len(t) = i - 1
      /\ \A j \in 1 .. Len(t) : lo <= t[j] /\ t[j] <= hi
  <2>1. c # <<>>
    BY <1>1, <1>3
  <2>2. /\ t \in Seq(Int) /\ Len(t) = i - 1
        /\ \A j \in 1 .. Len(t) : t[j] = c[j + 1]
    BY <1>3, <2>1, HeadTailProperties
  <2>3. \A j \in 1 .. Len(t) : j + 1 \in 1 .. i
    BY <1>1, <2>2
  <2> HIDE DEF t
  <2> QED BY <1>3, <2>2, <2>3
<1> DEFINE seed == c[1]
<1>6. seed \in Int /\ lo <= seed /\ seed <= hi
  BY <1>1, <1>3
<1> DEFINE r == Average(seed, t, p)
           s == Average(seed, t, q)
<1> HIDE DEF t, seed
<1>7. r \in Ratios /\ s \in Ratios /\ Within(r, lo, hi) /\ Within(s, lo, hi)
  BY <1>5, <1>6, AverageFromClose
<1> HIDE DEF r, s
<1>8. Within(Less(r, s), -(hi - lo), hi - lo)
  BY <1>7, LessStaysWithin
<1> QED BY <1>4, <1>8 DEF r, s, seed

RangeAt(h, i) == TrueRange(h[i], h[i - 1].close)

LEMMA RangeAtIsNatural ==
    ASSUME NEW h \in Seq(Given), NEW i \in 2 .. Len(h)
    PROVE  RangeAt(h, i) \in Nat
<1>1. i \in 1 .. Len(h) /\ i - 1 \in 1 .. Len(h)
  BY CandlesAre
<1>2. h[i] \in GivenCandle /\ h[i - 1].close \in Nat /\ h[i].low <= h[i].high
  <2>1. /\ h[i] \in GivenCandle /\ h[i - 1].close \in Nat
        /\ h[i].low <= h[i].close /\ h[i].close <= h[i].high
        /\ h[i].low \in Nat /\ h[i].close \in Nat /\ h[i].high \in Nat
    BY <1>1, CandlesAre
  <2> QED BY <2>1
<1> QED BY <1>2, TrueRangeIsNatural DEF RangeAt

LEMMA AtrSeriesStaysWithin ==
    ASSUME NEW h \in Seq(Given), NEW p \in Nat \ {0}, p + 1 <= Len(h),
           NEW lo \in Int, NEW hi \in Int,
           \A i \in 2 .. Len(h) : lo <= RangeAt(h, i) /\ RangeAt(h, i) <= hi
    PROVE  \A i \in p + 1 .. Len(h) : Within(AtrValues(h, p)[i], lo, hi)
<1> DEFINE n == Len(h)
           m == p + 1
           base == Ratio(Total([j \in 1 .. p |-> RangeAt(h, j + 1)]), p)
           IsA(f) == f = [i \in m .. n |->
                IF i = m THEN base ELSE Smoothed(f[i - 1], p, RangeAt(h, i))]
           A == CHOOSE f : IsA(f)
           step == [z \in (m + 1 .. n) \X Ratios |-> Smoothed(z[2], p, RangeAt(h, z[1]))]
<1>1. /\ n \in Nat /\ m \in Nat /\ m <= n /\ p \in Nat /\ m \in m .. n
      /\ \A i \in m + 1 .. n : i \in 2 .. n /\ i \in m .. n /\ i - 1 \in m .. n /\ i # m
      /\ \A i \in m .. n : i # m => i \in m + 1 .. n
  BY CandlesAre
<1>2. \A i \in 2 .. n : RangeAt(h, i) \in Int
  <2>1. \A i \in 2 .. n : RangeAt(h, i) \in Nat
    BY RangeAtIsNatural
  <2> QED BY <2>1
<1>3. base \in Ratios /\ Within(base, lo, hi)
  <2> DEFINE v == [j \in 1 .. p |-> RangeAt(h, j + 1)]
  <2>1. \A j \in 1 .. p : j + 1 \in 2 .. Len(h)
    BY <1>1
  <2>2. \A j \in 1 .. p : /\ RangeAt(h, j + 1) \in Int
                          /\ lo <= RangeAt(h, j + 1) /\ RangeAt(h, j + 1) <= hi
    BY <1>2, <2>1
  <2>3. v \in Seq(Int) /\ Len(v) = p /\ \A j \in 1 .. p : lo <= v[j] /\ v[j] <= hi
    BY <1>1, <2>2
  <2> HIDE DEF v
  <2>4. Total(v) \in Int /\ lo * p <= Total(v) /\ Total(v) <= hi * p
    BY <1>1, <2>3, TotalBetween
  <2>5. Ratio(Total(v), p) \in Ratios /\ Within(Ratio(Total(v), p), lo, hi)
    BY <2>4, RatioParts DEF Within
  <2> QED BY <2>5 DEF v
<1> HIDE DEF base
<1>4. step \in [(m + 1 .. n) \X Ratios -> Ratios]
  <2>1. ASSUME NEW z \in (m + 1 .. n) \X Ratios
        PROVE  Smoothed(z[2], p, RangeAt(h, z[1])) \in Ratios
    <3>1. z[1] \in 2 .. n /\ z[2] \in Ratios
      BY <1>1
    <3>2. RangeAt(h, z[1]) \in Int
      BY <1>2, <3>1
    <3> QED BY <3>1, <3>2, SmoothedIsRatio
  <2> QED BY <2>1
<1>5. \A i \in m + 1 .. n, r \in Ratios : step[<<i, r>>] = Smoothed(r, p, RangeAt(h, i))
  OBVIOUS
<1> HIDE DEF step, m, n
<1>6. \E f : IsA(f)
  <2>1. PICK F : RunsFrom(F, m, n, Ratios, base, step)
    BY <1>1, <1>3, <1>4, RecursionFrom
  <2>2. /\ F \in [m .. n -> Ratios] /\ F[m] = base
        /\ \A i \in m + 1 .. n : F[i] = step[<<i, F[i - 1]>>]
    BY <2>1 DEF RunsFrom
  <2>3. \A i \in m + 1 .. n : F[i] = Smoothed(F[i - 1], p, RangeAt(h, i))
    BY <1>1, <1>5, <2>2
  <2>4. \A i \in m .. n : F[i] = IF i = m THEN base ELSE Smoothed(F[i - 1], p, RangeAt(h, i))
    BY <1>1, <2>2, <2>3
  <2>5. F = [i \in m .. n |-> F[i]]
    BY <2>2
  <2> QED BY <2>4, <2>5
<1>7. A[m] = base /\ \A i \in m + 1 .. n : A[i] = Smoothed(A[i - 1], p, RangeAt(h, i))
  <2>1. IsA(A)
    <3> HIDE DEF IsA
    <3> QED BY <1>6
  <2> HIDE DEF A
  <2>2. \A i \in m .. n : A[i] = IF i = m THEN base ELSE Smoothed(A[i - 1], p, RangeAt(h, i))
    BY <2>1
  <2> HIDE DEF IsA
  <2> QED BY <1>1, <2>2
<1>8. AtrValues(h, p) = A
  BY DEF AtrValues, RangeAt, base, m, n
<1> HIDE DEF A
<1> DEFINE S == {i \in m .. n : A[i] \in Ratios /\ Within(A[i], lo, hi)}
<1>9. m \in S
  BY <1>1, <1>3, <1>7
<1>10. ASSUME NEW i \in m + 1 .. n, i - 1 \in S PROVE i \in S
  <2>1. /\ A[i] = Smoothed(A[i - 1], p, RangeAt(h, i)) /\ A[i - 1] \in Ratios
        /\ Within(A[i - 1], lo, hi) /\ i \in 2 .. n /\ i \in m .. n
    BY <1>1, <1>7, <1>10
  <2>2. RangeAt(h, i) \in Int /\ lo <= RangeAt(h, i) /\ RangeAt(h, i) <= hi
    BY <1>2, <2>1 DEF n
  <2>3. A[i] \in Ratios /\ Within(A[i], lo, hi)
    BY <2>1, <2>2, SmoothedStaysWithin
  <2> QED BY <2>1, <2>3
<1> HIDE DEF S
<1>11. \A i \in m .. n : i \in S
  BY <1>1, <1>9, <1>10, IntervalInduction
<1> QED BY <1>8, <1>11 DEF S, m, n

-----------------------------------------------------------------------------
(* Signals and series. *)

GivenIsFixed == data \in Seq(Given) /\ period \in Periods /\ kind \in Kinds

LEMMA SeriesStayWithin == GivenIsFixed => SeriesKeepTheirRange
<1> SUFFICES ASSUME GivenIsFixed PROVE SeriesKeepTheirRange
  OBVIOUS
<1> DEFINE n == Len(data)
           Ranges == {TrueRange(data[i], data[i - 1].close) : i \in 2 .. Len(data)}
           spread == HighestClose - LowestClose
<1>1. /\ data \in Seq(Given) /\ n \in Nat /\ period \in Nat \ {0} /\ LongPeriod \in Nat \ {0}
      /\ (n > 0 => data # <<>>)
  BY CallsAssumption DEF GivenIsFixed
<1>2. ASSUME NEW i \in period + 1 .. n
      PROVE  \E least, most \in Ranges : Within(AtrValues(data, period)[i], least, most)
  <2> DEFINE f == [j \in 1 .. n - 1 |-> RangeAt(data, j + 1)]
  <2>1. n - 1 \in Nat \ {0} /\ period + 1 <= n
    <3>1. i \in Int /\ period + 1 <= i /\ i <= n /\ period >= 1
      BY <1>1
    <3> HIDE DEF n
    <3> QED BY <1>1, <3>1
  <2>2. f \in [1 .. n - 1 -> Nat] /\ \A j \in 1 .. n - 1 : f[j] = RangeAt(data, j + 1)
    <3>1. \A j \in 1 .. n - 1 : j + 1 \in 2 .. Len(data)
      BY <1>1
    <3> QED BY <1>1, <3>1, RangeAtIsNatural
  <2> HIDE DEF f
  <2>3. /\ \E k \in 1 .. n - 1 : \A j \in 1 .. n - 1 : f[j] <= f[k]
        /\ \E k \in 1 .. n - 1 : \A j \in 1 .. n - 1 : f[k] <= f[j]
    <3> HIDE DEF n
    <3> QED BY <2>1, <2>2, Extremes
  <2>4. PICK k \in 1 .. n - 1 : \A j \in 1 .. n - 1 : f[j] <= f[k]
    BY <2>3
  <2>5. PICK l \in 1 .. n - 1 : \A j \in 1 .. n - 1 : f[l] <= f[j]
    BY <2>3
  <2>6. /\ f[k] \in Int /\ f[l] \in Int
        /\ \A m \in 2 .. Len(data) : f[l] <= RangeAt(data, m) /\ RangeAt(data, m) <= f[k]
    <3>1. \A m \in 2 .. Len(data) : m - 1 \in 1 .. n - 1 /\ m - 1 + 1 = m
      BY <1>1
    <3>2. ASSUME NEW m \in 2 .. Len(data)
          PROVE  f[l] <= RangeAt(data, m) /\ RangeAt(data, m) <= f[k]
      <4>1. f[m - 1] = RangeAt(data, m)
        BY <2>2, <3>1
      <4>2. f[l] <= f[m - 1] /\ f[m - 1] <= f[k]
        BY <2>4, <2>5, <3>1
      <4> QED BY <4>1, <4>2
    <3>3. f[k] \in Int /\ f[l] \in Int
      <4>1. f[k] \in Nat /\ f[l] \in Nat
        <5> HIDE DEF n
        <5> QED BY <2>2
      <4> QED BY <4>1
    <3> QED BY <3>2, <3>3
  <2>7. f[k] \in Ranges /\ f[l] \in Ranges
    <3>1. k + 1 \in 2 .. Len(data) /\ l + 1 \in 2 .. Len(data)
      BY <1>1
    <3>2. f[k] = RangeAt(data, k + 1) /\ f[l] = RangeAt(data, l + 1)
      BY <2>2
    <3> QED BY <3>1, <3>2 DEF RangeAt
  <2> DEFINE a == f[l]
             b == f[k]
  <2> HIDE DEF a, b
  <2>8. Within(AtrValues(data, period)[i], a, b)
    BY <1>1, <2>1, <2>6, AtrSeriesStaysWithin DEF a, b
  <2> HIDE DEF Ranges
  <2> QED BY <2>7, <2>8 DEF a, b
<1>3. ASSUME NEW i \in LongPeriod .. n
      PROVE  Within(ApoValues(data, period, LongPeriod)[i], -spread, spread)
  <2>1. data # <<>>
    BY <1>1
  <2> DEFINE lo == LowestClose
             hi == HighestClose
  <2>2. lo \in Int /\ hi \in Int /\ CloseWithin(data, lo, hi)
    BY <1>1, <2>1, CloseBounds DEF CloseWithin
  <2> HIDE DEF lo, hi
  <2>3. Within(ApoValues(data, period, LongPeriod)[i], -(hi - lo), hi - lo)
    BY <1>1, <2>2, ApoSeriesStaysWithin
  <2> QED BY <2>3 DEF lo, hi
<1>4. ASSUME NEW k \in Smoothings, NEW d \in Smoothings,
             NEW i \in DOMAIN StochasticValues(data, period, k, d)
      PROVE  /\ Within(StochasticValues(data, period, k, d)[i].first, 0, 100)
             /\ Within(StochasticValues(data, period, k, d)[i].second, 0, 100)
  BY <1>1, PairsStayWithin, CallsAssumption
<1> QED BY <1>2, <1>3, <1>4 DEF SeriesKeepTheirRange

AtrIsNatural == kind = "ATR" /\ signals # <<>> => signals[1] \in [num: Nat, den: Nat]

LEMMA AtrStaysNatural ==
    ASSUME GivenIsFixed, Len(data) >= 2, previousClose \in Nat, kind = "ATR", AtrIsNatural
    PROVE  AtrNow \in [num: Nat, den: Nat]
<1>1. RangeNow \in Nat
  <2>1. data \in Seq(Given) /\ Len(data) - 1 \in 1 .. Len(data)
    BY DEF GivenIsFixed
  <2> DEFINE b == data[Len(data) - 1]
  <2>2. b \in GivenCandle /\ b.low <= b.high
    <3>1. /\ b \in GivenCandle /\ b.low <= b.close /\ b.close <= b.high
          /\ b.low \in Nat /\ b.close \in Nat /\ b.high \in Nat
      BY <2>1, CandlesAre
    <3> QED BY <3>1
  <2> HIDE DEF b
  <2>3. TrueRange(b, previousClose) \in Nat
    BY <2>2, TrueRangeIsNatural
  <2> QED BY <2>3 DEF RangeNow, b
<1> DEFINE x == RangeNow
           r == signals[1]
<1>2. CASE signals = <<>>
  BY <1>1, <1>2 DEF AtrNow, Ratio
<1>3. CASE signals # <<>>
  <2>1. r.num \in Nat /\ r.den \in Nat /\ period - 1 \in Nat /\ period \in Nat
    <3>1. r \in [num: Nat, den: Nat]
      BY <1>3 DEF AtrIsNatural
    <3> QED BY <3>1, CallsAssumption DEF GivenIsFixed
  <2> DEFINE a == r.num
             b == r.den
  <2>2. x \in Nat /\ a \in Nat /\ b \in Nat /\ period - 1 \in Nat /\ period \in Nat
    BY <1>1, <2>1
  <2>3. AtrNow = [num |-> a * (period - 1) + x * b, den |-> b * period]
    BY <1>3 DEF AtrNow, Smoothed, Ratio
  <2> HIDE DEF a, b, x
  <2>4. a * (period - 1) \in Nat /\ x * b \in Nat /\ b * period \in Nat
    <3>1. \A k, l \in Nat : k * l \in Nat
      OBVIOUS
    <3> QED BY <2>2, <3>1
  <2>5. a * (period - 1) + x * b \in Nat
    BY <2>4
  <2> QED BY <2>3, <2>4, <2>5
<1> QED BY <1>2, <1>3

Sound(r) == Agrees(r) /\ HasItsRange(r) /\ (kind = "ATR" => r \in [num: Nat, den: Nat])

LEMMA RecordedIsSound ==
    ASSUME GivenIsFixed, previousClose \in Nat, AtrIsNatural, Enough, Recorded # <<>>
    PROVE  \E r : Recorded = <<r>> /\ Sound(r)
<1> DEFINE n == Len(data)
           lo == LowestClose
           hi == HighestClose
<1>1. /\ data \in Seq(Given) /\ n \in Nat /\ period \in Nat \ {0} /\ LongPeriod \in Nat \ {0}
      /\ kind \in AllKinds /\ PerShare \in Int
  BY CallsAssumption DEF GivenIsFixed
<1>2. data # <<>> /\ n \in 1 .. n
  <2>1. kind \in {"OBV", "Fibonacci", "VWAP", "PERatio", "DividendYield"} \/ n >= 2 \/ n >= period
    BY DEF Enough
  <2>2. kind \in {"OBV", "Fibonacci", "VWAP", "PERatio", "DividendYield"} => data # <<>>
    BY DEF Enough
  <2>3. data # <<>> <=> n > 0
    BY <1>1
  <2> QED BY <1>1, <2>1, <2>2, <2>3
<1>3. lo \in Int /\ hi \in Int /\ CloseWithin(data, lo, hi)
  BY <1>1, <1>2, CloseBounds DEF CloseWithin
<1>4. kind \in {"SMA", "MA", "EMA", "RSI", "MFI", "APO", "Stochastic", "Bands"} => period \in 1 .. n
  <2>1. kind \in {"SMA", "MA", "EMA", "RSI", "MFI", "APO", "Stochastic", "Bands"} => n >= period
    BY DEF Enough
  <2> QED BY <1>1, <2>1
<1>5. CASE kind \in {"SMA", "MA"}
  <2> DEFINE r == Sma(data, period)
  <2>1. Recorded = <<r>>
    BY <1>5 DEF Recorded
  <2>2. Agrees(r)
    <3>1. Means(data, period)[n] = r
      BY <1>1, <1>4, <1>5, MeansAgree
    <3> QED BY <1>5, <3>1 DEF Agrees, Same
  <2>3. HasItsRange(r)
    <3>1. n - period \in Nat /\ n - period + period <= n
      BY <1>1, <1>4, <1>5
    <3>2. r = Ratio(Total(Piece(data, n - period, period)), period)
      BY <1>1, <1>4, <1>5, MeansAgree
    <3>3. Within(Ratio(Total(Piece(data, n - period, period)), period), lo, hi)
      <4> HIDE DEF lo, hi
      <4> QED BY <1>1, <1>3, <3>1, MeanOfPiece
    <3> HIDE DEF r
    <3> QED BY <1>5, <3>2, <3>3 DEF HasItsRange
  <2> HIDE DEF r
  <2> QED BY <1>5, <2>1, <2>2, <2>3 DEF Sound
<1>6. CASE kind = "EMA"
  <2> DEFINE r == Ema(data, period)
  <2>1. Recorded = <<r>>
    BY <1>6 DEF Recorded
  <2>2. r = EmaValues(data, period)[n] /\ Within(r, lo, hi)
    <3> HIDE DEF lo, hi
    <3> QED BY <1>1, <1>3, <1>4, <1>6, EmaStaysWithin
  <2> HIDE DEF r
  <2>3. Agrees(r)
    BY <1>6, <2>2 DEF Agrees, Same
  <2>4. HasItsRange(r)
    BY <1>6, <2>2 DEF HasItsRange
  <2> QED BY <1>6, <2>1, <2>3, <2>4 DEF Sound
<1>7. CASE kind = "RSI"
  <2> DEFINE r == RsiOf(Gain(data), Loss(data))
  <2>1. Loss(data) # 0 /\ Recorded = <<r>>
    BY <1>7 DEF Recorded
  <2>2. RsiValues(data, n - 1)[n] = r /\ Within(r, 0, 100)
    BY <1>1, <2>1, RsiAgrees, RsiStaysWithin
  <2> HIDE DEF r
  <2>3. Agrees(r)
    BY <1>7, <2>2 DEF Agrees, Same
  <2>4. HasItsRange(r)
    BY <1>7, <2>2 DEF HasItsRange
  <2> QED BY <1>7, <2>1, <2>3, <2>4 DEF Sound
<1>8. CASE kind = "Stochastic"
  <2> DEFINE c == SubSeq(data, n - period + 1, n)
             r == StochasticOf(c)
  <2>1. Recorded = <<r>>
    BY <1>8 DEF Recorded, Latest
  <2>2. c \in Seq(Given) /\ Len(c) = period
    BY <1>1, <1>4, <1>8, ClosesArePieces
  <2>3. KValues(data, period)[n] = r
    BY <1>1, <1>4, <1>8 DEF KValues
  <2> HIDE DEF c
  <2>4. Within(r, 0, 100)
    <3>1. c # <<>>
      BY <1>1, <2>2
    <3>2. r \in NoMoreThan(100)
      BY <2>2, <3>1, StochasticIsPercentage
    <3> HIDE DEF r
    <3> QED BY <3>2, NoMoreThanWithin
  <2> HIDE DEF r
  <2>5. Agrees(r)
    <3>1. ASSUME NEW d \in Smoothings, period + 1 + d <= n
          PROVE  Same(r, StochasticValues(data, period, 1, d)[n].first)
      <4>1. StochasticValues(data, period, 1, d)[n].first = r
        BY <1>1, <2>3, <3>1, UnsmoothedPair, CallsAssumption
      <4> QED BY <4>1 DEF Same
    <3> QED BY <1>8, <3>1 DEF Agrees
  <2>6. HasItsRange(r)
    BY <1>8, <2>4 DEF HasItsRange
  <2> QED BY <1>8, <2>1, <2>5, <2>6 DEF Sound
<1>9. CASE kind \in {"OBV", "VWAP", "MFI", "ADX", "APO", "Fibonacci"}
  <2>1. ASSUME NEW r, HasItsRange(r) PROVE Sound(r)
    BY <1>9, <2>1 DEF Sound, Agrees
  <2>2. CASE kind = "OBV"
    <3> DEFINE r == ObvValues(data)[Len(data)]
    <3>1. Len(data) # 1 /\ Recorded = <<r>>
      BY <2>2 DEF Recorded
    <3>2. Within(r, -Volume(Tail(data)), Volume(Tail(data)))
      <4>1. Len(data) > 1
        BY <1>2, <3>1
      <4> QED BY <1>1, <4>1, ObvStaysWithin
    <3> HIDE DEF r
    <3>3. HasItsRange(r)
      BY <2>2, <3>2 DEF HasItsRange
    <3> QED BY <2>1, <3>1, <3>3
  <2>3. CASE kind = "VWAP"
    <3> DEFINE r == VwapValues(data)[Len(data)]
    <3>1. Recorded = <<r>>
      BY <2>3 DEF Recorded
    <3>2. Within(r, lo, hi)
      <4> HIDE DEF lo, hi
      <4> QED BY <1>1, <1>2, <1>3, VwapStaysWithin
    <3> HIDE DEF r
    <3>3. HasItsRange(r)
      BY <2>3, <3>2 DEF HasItsRange
    <3> QED BY <2>1, <3>1, <3>3
  <2>4. CASE kind = "MFI"
    <3> DEFINE r == MfiValues(data, period)[Len(data)]
    <3>1. Recorded = <<r>>
      BY <2>4 DEF Recorded
    <3>2. Within(r, 0, 100)
      BY <1>1, <1>4, <2>4, MfiStaysWithin
    <3> HIDE DEF r
    <3>3. HasItsRange(r)
      BY <2>4, <3>2 DEF HasItsRange
    <3> QED BY <2>1, <3>1, <3>3
  <2>5. CASE kind = "ADX"
    <3> DEFINE r == AdxOf(data)
    <3>1. Recorded = <<r>>
      BY <2>5 DEF Recorded
    <3>2. r.num = 0 \/ r.num >= 100 * r.den
      BY <1>1, AdxStaysWithin
    <3> HIDE DEF r
    <3>3. HasItsRange(r)
      BY <2>5, <3>2 DEF HasItsRange
    <3> QED BY <2>1, <3>1, <3>3
  <2>6. CASE kind = "APO"
    <3> DEFINE r == ApoNow
    <3>1. Recorded = <<r>>
      BY <2>6 DEF Recorded
    <3>2. LongPeriod \in 1 .. n
      BY <1>1, <2>6 DEF Enough
    <3>3. Within(r, -(hi - lo), hi - lo)
      <4> HIDE DEF lo, hi
      <4> QED BY <1>1, <1>3, <1>4, <2>6, <3>2, ApoStaysWithin DEF ApoNow
    <3> HIDE DEF r
    <3>4. HasItsRange(r)
      BY <2>6, <3>3 DEF HasItsRange
    <3> QED BY <2>1, <3>1, <3>4
  <2>7. CASE kind = "Fibonacci"
    <3> DEFINE r == Levels(data)[2]
    <3>1. Recorded = <<r>>
      BY <2>7 DEF Recorded
    <3>2. Within(r, Lowest(data), Highest(data))
      BY <1>1, <1>2, SecondLevelWithin
    <3> HIDE DEF r
    <3>3. HasItsRange(r)
      BY <2>7, <3>2 DEF HasItsRange
    <3> QED BY <2>1, <3>1, <3>3
  <2> QED BY <1>9, <2>2, <2>3, <2>4, <2>5, <2>6, <2>7
<1>10. CASE kind \in {"ATR", "PERatio", "DividendYield", "Bands"}
  <2>1. ASSUME NEW r, r.num >= 0, kind = "ATR" => r \in [num: Nat, den: Nat]
        PROVE  Sound(r)
    BY <1>10, <2>1 DEF Sound, Agrees, HasItsRange
  <2>2. CASE kind = "ATR"
    <3> DEFINE r == AtrNow
    <3>1. Recorded = <<r>>
      BY <2>2 DEF Recorded
    <3>2. r \in [num: Nat, den: Nat]
      <4>1. Len(data) >= 2
        BY <2>2 DEF Enough
      <4> QED BY <2>2, <4>1, AtrStaysNatural
    <3> HIDE DEF r
    <3>3. r.num >= 0
      BY <3>2
    <3> QED BY <2>1, <3>1, <3>2, <3>3
  <2>3. CASE kind \in {"PERatio", "DividendYield"}
    <3>1. PerShare > 0
      BY <2>3 DEF Enough
    <3>2. n \in {j \in DOMAIN data : PerShare > 0} /\ data[n].close \in Nat
      BY <1>1, <1>2, <3>1, CandlesAre
    <3>3. CASE kind = "PERatio"
      <4> DEFINE r == Ratio(data[n].close, PerShare)
      <4>1. Recorded = <<r>>
        BY <3>2, <3>3 DEF Recorded, PeRatios
      <4>2. r.num >= 0
        BY <3>2, RatioParts
      <4> HIDE DEF r
      <4> QED BY <2>1, <3>3, <4>1, <4>2
    <3>4. CASE kind = "DividendYield"
      <4> DEFINE r == Ratio(PerShare, data[n].close)
      <4>1. Recorded = <<r>>
        BY <3>2, <3>4 DEF Recorded, DividendYields
      <4>2. r.num >= 0
        BY <1>1, <3>1, RatioParts
      <4> HIDE DEF r
      <4> QED BY <2>1, <3>4, <4>1, <4>2
    <3> QED BY <2>3, <3>3, <3>4
  <2>4. CASE kind = "Bands"
    <3> DEFINE r == Ratio(Variance(data, period), period * period)
    <3>1. Recorded = <<r>>
      BY <2>4 DEF Recorded
    <3>2. r.num >= 0
      BY <1>1, <1>4, <2>4, VarianceIsNatural, RatioParts
    <3> HIDE DEF r
    <3> QED BY <2>1, <2>4, <3>1, <3>2
  <2> QED BY <1>10, <2>2, <2>3, <2>4
<1> QED BY <1>1, <1>5, <1>6, <1>7, <1>8, <1>9, <1>10 DEF AllKinds

SoundInv ==
    /\ GivenIsFixed
    /\ previousClose \in Nat
    /\ AtrIsNatural
    /\ fresh => signals # <<>> /\ Sound(signals[1])

LEMMA SoundInitial == CallsInit => SoundInv
BY DEF CallsInit, SoundInv, GivenIsFixed, AtrIsNatural

\* What is said of a value depends on no more than the candles, the class and the period.
LEMMA SoundStays ==
    ASSUME UNCHANGED <<kind, period, data>>, NEW r
    PROVE  Sound(r) <=> Sound(r)'
<1>1. kind' = kind /\ period' = period /\ data' = data
  OBVIOUS
<1>2. LowestClose' = LowestClose
  BY <1>1 DEF LowestClose
<1>3. HighestClose' = HighestClose
  BY <1>1 DEF HighestClose
<1>4. Agrees(r) <=> Agrees(r)'
  BY <1>1 DEF Agrees
<1>5. HasItsRange(r) <=> HasItsRange(r)'
  BY <1>1, <1>2, <1>3 DEF HasItsRange
<1> QED BY <1>1, <1>4, <1>5 DEF Sound

LEMMA SoundStep == SoundInv /\ [CallsNext]_callVars => SoundInv'
<1> SUFFICES ASSUME SoundInv, [CallsNext]_callVars PROVE SoundInv'
  OBVIOUS
<1>1. GivenIsFixed /\ previousClose \in Nat /\ AtrIsNatural
  BY DEF SoundInv
<1>2. ASSUME NEW b \in Given, AddData(b) PROVE SoundInv'
  <2>1. data' = Append(data, b) /\ ~fresh' /\ UNCHANGED <<kind, period, signals, previousClose>>
    BY <1>2 DEF AddData
  <2>2. data' \in Seq(Given)
    BY <1>1, <2>1 DEF GivenIsFixed
  <2> QED BY <1>1, <2>1, <2>2 DEF SoundInv, GivenIsFixed, AtrIsNatural
<1>3. CASE CalculateSignal
  <2>1. /\ Enough /\ UNCHANGED <<kind, period, data>>
        /\ signals' = IF Recorded = <<>> THEN signals ELSE Recorded
        /\ previousClose' = IF kind = "ATR" THEN Last(data).close ELSE previousClose
        /\ fresh' = (Recorded # <<>>)
    BY <1>3 DEF CalculateSignal
  <2>2. GivenIsFixed'
    BY <1>1, <2>1 DEF GivenIsFixed
  <2>3. previousClose' \in Nat
    <3>1. CASE kind = "ATR"
      <4>1. data \in Seq(Given) /\ Len(data) \in 1 .. Len(data)
        BY <1>1, <2>1, <3>1 DEF GivenIsFixed, Enough
      <4>2. data[Len(data)].close \in Nat
        BY <4>1, CandlesAre
      <4> QED BY <2>1, <3>1, <4>2 DEF Last
    <3>2. CASE kind # "ATR"
      BY <1>1, <2>1, <3>2
    <3> QED BY <3>1, <3>2
  <2>4. CASE Recorded = <<>>
    <3>1. signals' = signals /\ ~fresh'
      BY <2>1, <2>4
    <3>2. AtrIsNatural'
      BY <1>1, <2>1, <3>1 DEF AtrIsNatural
    <3> QED BY <2>2, <2>3, <3>1, <3>2 DEF SoundInv
  <2>5. CASE Recorded # <<>>
    <3>1. PICK r : Recorded = <<r>> /\ Sound(r)
      BY <1>1, <2>1, <2>5, RecordedIsSound
    <3>2. signals' = <<r>> /\ signals'[1] = r /\ signals' # <<>>
      BY <2>1, <2>5, <3>1
    <3>3. Sound(r)'
      BY <2>1, <3>1, SoundStays
    <3>4. AtrIsNatural'
      BY <3>2, <3>3 DEF AtrIsNatural, Sound
    <3>5. Sound(signals[1])'
      BY <3>2, <3>3 DEF Sound, Agrees, HasItsRange, Same, Within
    <3> QED BY <2>2, <2>3, <3>2, <3>4, <3>5 DEF SoundInv
  <2> QED BY <2>4, <2>5
<1>4. CASE Reset
  <2>1. data' = <<>> /\ signals' = <<>> /\ ~fresh' /\ UNCHANGED <<kind, period, previousClose>>
    BY <1>4 DEF Reset
  <2> QED BY <1>1, <2>1 DEF SoundInv, GivenIsFixed, AtrIsNatural
<1>5. ASSUME NEW p \in Periods, AdjustParameters(p) PROVE SoundInv'
  <2>1. period' = p /\ ~fresh' /\ UNCHANGED <<kind, data, signals, previousClose>>
    BY <1>5 DEF AdjustParameters
  <2> QED BY <1>1, <2>1 DEF SoundInv, GivenIsFixed, AtrIsNatural
<1>6. CASE UNCHANGED callVars
  <2>1. UNCHANGED <<kind, period, data, signals, previousClose, fresh>>
    BY <1>6 DEF callVars
  <2>2. GivenIsFixed' /\ (previousClose \in Nat)' /\ AtrIsNatural'
    BY <1>1, <2>1 DEF GivenIsFixed, AtrIsNatural
  <2>3. CASE fresh
    <3>1. PICK r : signals[1] = r
      OBVIOUS
    <3>2. Sound(r) /\ signals # <<>>
      BY <2>3, <3>1 DEF SoundInv, Sound, Agrees, HasItsRange, Same, Within
    <3>3. Sound(r)'
      BY <2>1, <3>2, SoundStays
    <3>4. Sound(signals[1])'
      BY <2>1, <3>1, <3>3 DEF Sound, Agrees, HasItsRange, Same, Within
    <3> QED BY <2>1, <2>2, <3>2, <3>4 DEF SoundInv
  <2>4. CASE ~fresh
    BY <2>1, <2>2, <2>4 DEF SoundInv
  <2> QED BY <2>3, <2>4
<1> QED BY <1>2, <1>3, <1>4, <1>5, <1>6 DEF CallsNext

(* For any candles, periods, smoothings and calls before: what SMA, MA, EMA and  *)
(* RSI (over the whole history) record agrees with the series calculate gives,   *)
(* what the stochastic oscillator records with the first of the last pair at a   *)
(* smoothK of 1, and they, the series of ATR and APO and the smoothed pairs keep *)
(* to their range (SMA.cpp:6, 39; RSI.cpp:7, 45; EMA.cpp:6, 34; ADX.cpp:23;      *)
(* ATR.cpp:34-71; APO.cpp:33-66; StochasticOscillator.cpp:6, 28-72).            *)
THEOREM SignalsAreTheSeries == CallsSpec => []SignalsAreSound
<1>1. SoundInv => SignalsAreSound
  BY SeriesStayWithin DEF SoundInv, SignalsAreSound, Sound
<1> QED BY <1>1, SoundInitial, SoundStep, PTL DEF CallsSpec

-----------------------------------------------------------------------------
(* The range ATR takes. *)

\* The close ATR keeps is that of the last candle it was asked at.
AskedInv ==
    /\ data \in Seq(Given)
    /\ asked \in 0 .. Len(data)
    /\ kind = "ATR" /\ asked > 0 => previousClose = data[asked].close

LEMMA AskedInitial == CallsInit => AskedInv
  BY DEF CallsInit, AskedInv

LEMMA AskedStep == AskedInv /\ [CallsNext]_callVars => AskedInv'
<1> SUFFICES ASSUME AskedInv, [CallsNext]_callVars PROVE AskedInv'
  OBVIOUS
<1>1. data \in Seq(Given) /\ Len(data) \in Nat /\ asked \in 0 .. Len(data)
  BY DEF AskedInv
<1>2. ASSUME NEW b \in Given, AddData(b) PROVE AskedInv'
  <2>1. data' = Append(data, b) /\ UNCHANGED <<kind, previousClose, asked>>
    BY <1>2 DEF AddData
  <2>2. /\ data' \in Seq(Given) /\ Len(data') = Len(data) + 1
        /\ \A i \in 1 .. Len(data) : data'[i] = data[i]
    BY <1>1, <2>1
  <2>3. asked > 0 => asked \in 1 .. Len(data)
    BY <1>1
  <2>4. asked \in 0 .. Len(data')
    BY <1>1, <2>2
  <2> QED BY <2>1, <2>2, <2>3, <2>4 DEF AskedInv
<1>3. CASE CalculateSignal
  <2>1. /\ UNCHANGED <<kind, data>> /\ asked' = Len(data)
        /\ previousClose' = IF kind = "ATR" THEN Last(data).close ELSE previousClose
    BY <1>3 DEF CalculateSignal
  <2> QED BY <1>1, <2>1 DEF AskedInv, Last
<1>4. CASE Reset
  BY <1>4 DEF Reset, AskedInv
<1>5. ASSUME NEW p \in Periods, AdjustParameters(p) PROVE AskedInv'
  BY <1>5 DEF AdjustParameters, AskedInv
<1>6. CASE UNCHANGED callVars
  BY <1>6 DEF callVars, AskedInv
<1> QED BY <1>2, <1>3, <1>4, <1>5, <1>6 DEF CallsNext

\* With a close of its own a candle has the range it has by itself.
LEMMA RangeByItself ==
    ASSUME NEW b \in GivenCandle, b.low <= b.close, b.close <= b.high
    PROVE  TrueRange(b, b.close) = b.high - b.low
<1> DEFINE h == b.high
           l == b.low
           c == b.close
<1>1. h \in Nat /\ l \in Nat /\ c \in Nat /\ l <= c /\ c <= h
  BY DEF GivenCandle
<1> HIDE DEF h, l, c
<1>2. Magnitude(h - c) = h - c /\ Magnitude(l - c) = c - l
  BY <1>1 DEF Magnitude
<1>3. h - l >= h - c /\ h - l >= c - l
  BY <1>1
<1>4. Largest(h - l, h - c, c - l) = h - l
  BY <1>3 DEF Largest
<1> QED BY <1>2, <1>4 DEF TrueRange, h, l, c

(* For any candles and any calls before: asked at each candle, ATR averages the *)
(* range of the candle before the last by itself (ATR.cpp:14-19).               *)
THEOREM GapsAreLeftOut == CallsSpec => []GapsNeverCount
<1>1. CallsAssumption /\ AskedInv => GapsNeverCount
  <2> SUFFICES ASSUME CallsAssumption, AskedInv, kind = "ATR", asked >= 2, asked = Len(data) - 1
               PROVE  RangeNow = data[asked].high - data[asked].low
    BY DEF GapsNeverCount
  <2>1. data \in Seq(Given) /\ asked \in 1 .. Len(data) /\ previousClose = data[asked].close
    <3>1. data \in Seq(Given) /\ asked \in 0 .. Len(data) /\ Len(data) \in Nat /\ asked \in Nat
      BY DEF AskedInv
    <3>2. asked >= 2
      OBVIOUS
    <3>3. asked \in 1 .. Len(data) /\ asked > 0
      BY ONLY <3>1, <3>2
    <3> QED BY <3>1, <3>3 DEF AskedInv
  <2>2. data[asked] \in Given
    BY <2>1
  <2>3. /\ data[asked] \in GivenCandle /\ data[asked].low <= data[asked].close
        /\ data[asked].close <= data[asked].high
    BY <2>2 DEF CallsAssumption, GivenCandle
  <2>4. RangeNow = TrueRange(data[asked], data[asked].close)
    BY <2>1 DEF RangeNow
  <2> QED BY <2>3, <2>4, RangeByItself
<1> QED BY <1>1, AskedInitial, AskedStep, CallsAssumption, PTL DEF CallsSpec
=============================================================================
