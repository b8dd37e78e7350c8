--------------------------- MODULE StoreReadsProofs ---------------------------
(* The reading half of the REST API: what a client is answered with while     *)
(* others insert, for any rows, times, limits, windows and plans of SQLite,   *)
(* and any number of rows.                                                    *)
EXTENDS StoreReads, FiniteSetTheorems, TLAPS

-----------------------------------------------------------------------------
(* Finite orders. *)

\* R is a strict total order of S.
Orders(R, S) ==
    /\ \A x \in S : <<x, x>> \notin R
    /\ \A x, y, z \in S : <<x, y>> \in R /\ <<y, z>> \in R => <<x, z>> \in R
    /\ \A x, y \in S : x = y \/ <<x, y>> \in R \/ <<y, x>> \in R

Below(R, S, x) == {y \in S : <<y, x>> \in R}

\* In a finite order of n elements each of the numbers below n is how many come
\* before some element.
LEMMA RanksAreFilled ==
    ASSUME NEW S, IsFiniteSet(S), NEW R, Orders(R, S)
    PROVE  /\ Cardinality(S) \in Nat
           /\ [x \in S |-> Cardinality(Below(R, S, x))] \in Bijection(S, 0 .. Cardinality(S) - 1)
           /\ \A x, y \in S : <<x, y>> \in R =>
                Cardinality(Below(R, S, x)) < Cardinality(Below(R, S, y))
<1> DEFINE n == Cardinality(S)
           rank == [x \in S |-> Cardinality(Below(R, S, x))]
<1>1. n \in Nat
  BY FS_CardinalityType
<1>2. \A x \in S : /\ IsFiniteSet(Below(R, S, x))
                   /\ Cardinality(Below(R, S, x)) \in 0 .. n - 1
  <2> TAKE x \in S
  <2>1. Below(R, S, x) \subseteq S /\ x \notin Below(R, S, x)
    BY DEF Below, Orders
  <2>2. IsFiniteSet(Below(R, S, x)) /\ Cardinality(Below(R, S, x)) <= n
        /\ (n = Cardinality(Below(R, S, x)) => S = Below(R, S, x))
    BY <2>1, FS_Subset
  <2>3. Cardinality(Below(R, S, x)) \in Nat
    BY <2>2, FS_CardinalityType
  <2> QED BY <1>1, <2>1, <2>2, <2>3
<1>3. \A x, y \in S : <<x, y>> \in R =>
            Cardinality(Below(R, S, x)) < Cardinality(Below(R, S, y))
  <2> TAKE x, y \in S
  <2> HAVE <<x, y>> \in R
  <2>1. Below(R, S, x) \subseteq Below(R, S, y) /\ x \in Below(R, S, y) /\ x \notin Below(R, S, x)
    BY DEF Below, Orders
  <2>2. Cardinality(Below(R, S, x)) <= Cardinality(Below(R, S, y))
        /\ Cardinality(Below(R, S, x)) # Cardinality(Below(R, S, y))
    BY <1>2, <2>1, FS_Subset
  <2> QED BY <1>1, <1>2, <2>2
<1>4. rank \in [S -> 0 .. n - 1]
  BY <1>2
<1>5. \A x, y \in S : x # y => rank[x] # rank[y]
  <2> TAKE x, y \in S
  <2> HAVE x # y
  <2>1. <<x, y>> \in R \/ <<y, x>> \in R
    BY DEF Orders
  <2>2. Cardinality(Below(R, S, x)) # Cardinality(Below(R, S, y))
    BY <1>1, <1>2, <1>3, <2>1
  <2> QED BY <2>2
<1>6. IsFiniteSet(0 .. n - 1) /\ Cardinality(0 .. n - 1) = n
  BY <1>1, FS_Interval
<1>7. rank \in Injection(S, 0 .. n - 1)
  BY <1>4, <1>5 DEF Injection, IsInjective
<1>8. rank \in Surjection(S, 0 .. n - 1)
  BY <1>6, <1>7, FS_Injection
<1> QED BY <1>1, <1>3, <1>7, <1>8 DEF Bijection

\* So a finite order has an element with k before it, if it has more than k.
LEMMA SomeHasRank ==
    ASSUME NEW S, IsFiniteSet(S), NEW R, Orders(R, S), NEW k \in Nat, k < Cardinality(S)
    PROVE  \E x \in S : Cardinality(Below(R, S, x)) = k
<1> DEFINE rank == [x \in S |-> Cardinality(Below(R, S, x))]
<1>1. k \in 0 .. Cardinality(S) - 1 /\ rank \in Surjection(S, 0 .. Cardinality(S) - 1)
  BY RanksAreFilled DEF Bijection
<1>2. \E x \in S : rank[x] = k
  BY <1>1 DEF Surjection
<1> QED BY <1>2
-----------------------------------------------------------------------------
(* Types. *)

\* What a request may be.
LEMMA KindsOfRequest ==
    ASSUME request \in Requests
    PROVE  /\ request.limit \in Nat \ {0}
           /\ request.kind \in {"page", "row", "rca", "mca"}
           /\ request.kind = "row" => /\ request.ascending = FALSE
                                      /\ request = ByKey \/ request = get_latest_ohlcv
           /\ IsCalculation => /\ request.ascending = TRUE
                               /\ request.window \in Nat \ {0} /\ request.points \in Nat \ {0}
                               /\ request.limit = request.window + request.points
BY ReadsAssumption DEF Listing, ByKey, Lookup, get_latest_ohlcv, Calculation, WithWindow,
   IsCalculation

ReadsTypeOK ==
    /\ rows \in Seq(Rows) /\ request \in Requests
    /\ plan \in [sorted: BOOLEAN, ties: {"up", "down"}]
    /\ at \in {"idle", "stepping", "done"}
    /\ offset \in Nat /\ base \in 0 .. Len(rows)
    /\ page \in Seq(DOMAIN rows)
    /\ page = <<>> <=> at # "stepping"
    /\ series \in Seq(Seq(DOMAIN rows))
    /\ ~IsCalculation => series = <<>>
    /\ IsCalculation /\ at # "done" =>
        Len(series) \in {0, 1} /\ (request.kind = "rca" => series = <<>>)
    /\ IsCalculation /\ at = "done" => Len(series) = IF request.kind = "rca" THEN 1 ELSE 2
    /\ first \subseteq DOMAIN rows

\* The table only grows, and the rows in it stay.
LEMMA RowsStay ==
    ASSUME rows \in Seq(Rows), NEW row \in Rows, rows' = Append(rows, row)
    PROVE  /\ rows' \in Seq(Rows)
           /\ DOMAIN rows = 1 .. Len(rows) /\ Len(rows) \in Nat /\ Len(rows') = Len(rows) + 1
           /\ DOMAIN rows' = DOMAIN rows \cup {Len(rows) + 1}
           /\ \A i \in DOMAIN rows : rows'[i] = rows[i] /\ i <= Len(rows)
           /\ rows'[Len(rows) + 1] = row
OBVIOUS

LEMMA ReadsTypeInit == ReadsInit => ReadsTypeOK
<1> SUFFICES ASSUME ReadsInit PROVE ReadsTypeOK
  OBVIOUS
<1>1. \A S : <<>> \in Seq(S)
  OBVIOUS
<1>2. Len(rows) = 0 /\ Len(series) = 0
  BY DEF ReadsInit
<1> QED BY <1>1, <1>2 DEF ReadsInit, ReadsTypeOK

LEMMA ReadsTypeStep == ReadsTypeOK /\ [ReadsNext]_readVars => ReadsTypeOK'
<1> SUFFICES ASSUME ReadsTypeOK, [ReadsNext]_readVars PROVE ReadsTypeOK'
  OBVIOUS
<1>1. /\ rows \in Seq(Rows) /\ page \in Seq(DOMAIN rows) /\ series \in Seq(Seq(DOMAIN rows))
      /\ Len(rows) \in Nat /\ Len(page) \in Nat /\ Len(series) \in Nat /\ offset \in Nat
      /\ request \in Requests
  BY DEF ReadsTypeOK
<1>2. /\ request.kind \in {"page", "row", "rca", "mca"}
      /\ IsCalculation <=> request.kind \in {"rca", "mca"}
  BY <1>1, KindsOfRequest DEF IsCalculation
<1>3. Owed \subseteq DOMAIN rows
  BY DEF ReadsTypeOK, Owed, Chosen
<1>4. ASSUME NEW row \in Rows, Insert(row) PROVE ReadsTypeOK'
  <2>1. /\ rows' \in Seq(Rows) /\ DOMAIN rows \subseteq DOMAIN rows' /\ Len(rows') = Len(rows) + 1
    BY <1>1, <1>4, RowsStay DEF Insert
  <2>2. /\ page \in Seq(DOMAIN rows') /\ base \in 0 .. Len(rows')
        /\ series \in Seq(Seq(DOMAIN rows'))
    <3>1. \A S, T : S \subseteq T => Seq(S) \subseteq Seq(T)
      OBVIOUS
    <3>2. Seq(DOMAIN rows) \subseteq Seq(DOMAIN rows')
      BY <2>1, <3>1
    <3>3. Seq(Seq(DOMAIN rows)) \subseteq Seq(Seq(DOMAIN rows'))
      BY <3>1, <3>2
    <3> QED BY <1>1, <2>1, <3>2, <3>3 DEF ReadsTypeOK
  <2> QED BY <1>4, <2>1, <2>2 DEF ReadsTypeOK, Insert, IsCalculation
<1>5. ASSUME NEW i \in DOMAIN rows, Fetch(i) PROVE ReadsTypeOK'
  <2>1. page' \in Seq(DOMAIN rows) /\ page' # <<>>
    BY <1>1, <1>5 DEF Fetch
  <2> QED BY <1>1, <1>2, <1>3, <1>5, <2>1 DEF ReadsTypeOK, Fetch, IsCalculation
<1>6. CASE PageEnds
  BY <1>1, <1>2, <1>3, <1>6 DEF ReadsTypeOK, PageEnds, IsPage, IsCalculation
<1>7. CASE RowEnds
  BY <1>1, <1>2, <1>3, <1>7 DEF ReadsTypeOK, RowEnds, IsCalculation
<1>8. CASE SeriesEnds
  <2>1. /\ series' \in Seq(Seq(DOMAIN rows)) /\ Len(series') = Len(series) + 1
        /\ series = <<>> <=> Len(series) = 0
    BY <1>1, <1>8 DEF SeriesEnds
  <2>2. /\ IsCalculation /\ at # "done" /\ page' = <<>> /\ first' \subseteq DOMAIN rows
        /\ at' = IF request.kind = "mca" /\ series = <<>> THEN "idle" ELSE "done"
        /\ UNCHANGED <<rows, request, plan, offset, base>>
    BY <1>3, <1>8 DEF SeriesEnds
  <2>3. Len(series) \in {0, 1} /\ (request.kind = "rca" => Len(series) = 0)
    BY <2>1, <2>2 DEF ReadsTypeOK
  <2>4. IsCalculation' <=> request.kind \in {"rca", "mca"}
    BY <2>2 DEF IsCalculation
  <2>5. /\ at' # "done" => Len(series') = 1 /\ request.kind = "mca"
        /\ at' = "done" => Len(series') = IF request.kind = "rca" THEN 1 ELSE 2
    <3> DEFINE kind == request.kind
               n == Len(series)
               m == Len(series')
               new == series = <<>>
    <3>1. /\ kind \in {"rca", "mca"} /\ m = n + 1 /\ (new <=> n = 0) /\ n \in {0, 1}
          /\ kind = "rca" => n = 0
      BY <1>2, <2>1, <2>2, <2>3
    <3>2. at' = IF kind = "mca" /\ new THEN "idle" ELSE "done"
      BY <2>2
    <3> HIDE DEF kind, n, m, new
    <3>3. /\ at' # "done" => m = 1 /\ kind = "mca"
          /\ at' = "done" => m = IF kind = "rca" THEN 1 ELSE 2
      BY <3>1, <3>2
    <3> QED BY <3>3 DEF kind, m
  <2>6. page' \in Seq(DOMAIN rows) /\ at' \in {"idle", "done"}
    BY <2>2
  <2> QED BY <1>2, <2>1, <2>2, <2>4, <2>5, <2>6 DEF ReadsTypeOK
<1>9. CASE QueryFails
  BY <1>1, <1>2, <1>9 DEF ReadsTypeOK, QueryFails, IsCalculation
<1>10. CASE UNCHANGED readVars
  BY <1>10 DEF ReadsTypeOK, readVars, IsCalculation
<1> QED BY <1>4, <1>5, <1>6, <1>7, <1>8, <1>9, <1>10 DEF ReadsNext

-----------------------------------------------------------------------------
(* The order of a result. *)

LEMMA BeforeIsAnOrder ==
    ASSUME ReadsTypeOK
    PROVE  /\ \A i \in DOMAIN rows : ~Before(i, i)
           /\ \A i, j, k \in DOMAIN rows : Before(i, j) /\ Before(j, k) => Before(i, k)
           /\ \A i, j \in DOMAIN rows : i = j \/ Before(i, j) \/ Before(j, i)
<1>1. \A i \in DOMAIN rows : rows[i].time \in Nat /\ i \in Nat
  <2> TAKE i \in DOMAIN rows
  <2>1. rows[i] \in Rows /\ i \in Nat
    BY DEF ReadsTypeOK
  <2>2. rows[i].time \in Times
    BY <2>1 DEF Rows
  <2> QED BY <2>1, <2>2, ReadsAssumption
<1> QED BY <1>1 DEF Before

BeforeIn(S) == {p \in S \X S : Before(p[1], p[2])}

LEMMA OrdersSubset ==
    ASSUME ReadsTypeOK, NEW S \in SUBSET DOMAIN rows
    PROVE  /\ IsFiniteSet(S) /\ Cardinality(S) \in Nat
           /\ Orders(BeforeIn(S), S)
           /\ \A x \in S : Below(BeforeIn(S), S, x) = {j \in S : Before(j, x)}
<1>1. IsFiniteSet(1 .. Len(rows)) /\ DOMAIN rows = 1 .. Len(rows)
  BY FS_Interval DEF ReadsTypeOK
<1>2. IsFiniteSet(S) /\ Cardinality(S) \in Nat
  BY <1>1, FS_Subset, FS_CardinalityType
<1>3. \A x, y \in S : <<x, y>> \in BeforeIn(S) <=> Before(x, y)
  BY DEF BeforeIn
<1>4. Orders(BeforeIn(S), S)
  BY <1>3, BeforeIsAnOrder DEF Orders
<1> QED BY <1>2, <1>3, <1>4 DEF Below

\* Where k rows are passed over and there is no next one, there are no more than k.
LEMMA NoneAtRank ==
    ASSUME ReadsTypeOK, NEW S \in SUBSET DOMAIN rows, NEW k \in Nat,
           \A i \in S : Cardinality({j \in S : Before(j, i)}) # k
    PROVE  Cardinality(S) <= k
<1> SUFFICES ASSUME k < Cardinality(S) PROVE FALSE
  BY OrdersSubset
<1>1. PICK x \in S : Cardinality(Below(BeforeIn(S), S, x)) = k
  BY OrdersSubset, SomeHasRank
<1> QED BY <1>1, OrdersSubset
-----------------------------------------------------------------------------
(* The pages and the lookups. *)

AtOrBefore(i, j) == i = j \/ Before(i, j)

\* The rows of the list up to row x, and all rows a statement's cursor has passed.
UpTo(x) == {j \in Chosen : AtOrBefore(j, x)}
Passed(x) == at = "stepping" /\ AtOrBefore(x, Last(page))

\* A row that is owed can only move to later pages: it has been fetched if it is
\* among the first `offset` ones, or if the cursor has passed it.
PagesInv ==
    IsPage =>
        /\ first \subseteq Chosen
        /\ at # "done" => \A x \in first : Cardinality(UpTo(x)) <= offset => x \in got
        /\ at = "stepping" =>
            /\ first \subseteq Visible
            /\ Last(page) \in Visible
            /\ \A x \in first : Passed(x) => x \in got \cup ToSet(page)
            /\ Cardinality(UpTo(Last(page))) >= offset + Len(page)
        /\ at = "done" => first \subseteq got

\* A lookup answers with the first row of the result.
LookupInv ==
    request.kind = "row" =>
        /\ offset = 0
        /\ first \subseteq Chosen
        /\ request = ByKey => \A i, j \in Chosen : i = j
        /\ at = "stepping" => page[1] \in Chosen /\ \A x \in first : AtOrBefore(page[1], x)
        /\ at = "done" =>
            \A x \in first : \E j \in got : j \in Chosen /\ AtOrBefore(j, x)

-----------------------------------------------------------------------------
(* The calculations. *)

InGroup(g) == {i \in DOMAIN rows : rows[i].group = g}

\* The bars of a symbol come as time goes on.
Chronological ==
    \A i, j \in DOMAIN rows : rows[i].group = rows[j].group /\ i < j => rows[i].time < rows[j].time

\* All bars of a symbol up to some time.
Beginning(S, g) ==
    /\ S \subseteq InGroup(g)
    /\ \A x \in S : \A y \in InGroup(g) : y < x => y \in S

Counting(s) == \A k \in DOMAIN s : s[k] = k

BarsInv ==
    IsCalculation =>
        /\ offset = 0
        /\ Chronological
        /\ at = "stepping" => Beginning(ToSet(page), Group)
        /\ \A g \in DOMAIN series : Beginning(ToSet(series[g]), g)

RatesInv ==
    request.kind = "rca" =>
        /\ \A i \in DOMAIN rows : rows[i].group = 1
        /\ Counting(page) /\ Len(page) <= Len(rows)
        /\ at = "stepping" /\ plan.sorted => first \subseteq 1 .. base /\ Len(page) <= base
        /\ at = "done" =>
            /\ Counting(Candles) /\ Len(Candles) <= Len(rows)
            /\ Len(Candles) = request.limit \/ first \subseteq 1 .. Len(Candles)

ReadsInv == ReadsTypeOK /\ PagesInv /\ LookupInv /\ BarsInv /\ RatesInv
-----------------------------------------------------------------------------
(* Pages. *)

LEMMA UpToGrows ==
    ASSUME ReadsTypeOK
    PROVE  /\ \A x \in Chosen : /\ UpTo(x) \subseteq Chosen /\ IsFiniteSet(UpTo(x))
                               /\ Cardinality(UpTo(x)) \in Nat \ {0}
                               /\ Cardinality(UpTo(x)) <= Cardinality(Chosen)
           /\ \A x, y \in Chosen : Before(x, y) =>
                Cardinality(UpTo(x)) + 1 <= Cardinality(UpTo(y))
           /\ \A x \in Chosen :
                Cardinality(UpTo(x)) = Cardinality({j \in Chosen : Before(j, x)}) + 1
<1>1. Chosen \subseteq DOMAIN rows
  BY DEF Chosen
<1>2. IsFiniteSet(Chosen) /\ Cardinality(Chosen) \in Nat
  BY <1>1, OrdersSubset
<1>3. ASSUME NEW x \in Chosen
      PROVE  /\ UpTo(x) \subseteq Chosen /\ IsFiniteSet(UpTo(x)) /\ x \in UpTo(x)
             /\ Cardinality(UpTo(x)) \in Nat \ {0}
             /\ Cardinality(UpTo(x)) <= Cardinality(Chosen)
  <2>1. UpTo(x) \subseteq Chosen /\ x \in UpTo(x)
    BY DEF UpTo, AtOrBefore
  <2>2. IsFiniteSet(UpTo(x)) /\ Cardinality(UpTo(x)) <= Cardinality(Chosen)
    BY <1>2, <2>1, FS_Subset
  <2>3. Cardinality(UpTo(x)) \in Nat /\ Cardinality(UpTo(x)) # 0
    BY <2>1, <2>2, FS_CardinalityType, FS_EmptySet
  <2> QED BY <2>1, <2>2, <2>3
<1>4. ASSUME NEW x \in Chosen, NEW y \in Chosen, Before(x, y)
      PROVE  Cardinality(UpTo(x)) + 1 <= Cardinality(UpTo(y))
  <2>1. UpTo(x) \cup {y} \subseteq UpTo(y) /\ y \notin UpTo(x)
    BY <1>1, <1>4, BeforeIsAnOrder DEF UpTo, AtOrBefore
  <2>2. Cardinality(UpTo(x) \cup {y}) = Cardinality(UpTo(x)) + 1
    BY <1>3, <2>1, FS_AddElement
  <2>3. Cardinality(UpTo(x) \cup {y}) <= Cardinality(UpTo(y))
    BY <1>3, <2>1, FS_Subset
  <2> QED BY <2>2, <2>3
<1>5. ASSUME NEW x \in Chosen
      PROVE  Cardinality(UpTo(x)) = Cardinality({j \in Chosen : Before(j, x)}) + 1
  <2> DEFINE earlier == {j \in Chosen : Before(j, x)}
  <2>1. earlier \subseteq Chosen /\ x \notin earlier /\ UpTo(x) = earlier \cup {x}
    BY <1>1, BeforeIsAnOrder DEF UpTo, AtOrBefore
  <2>2. IsFiniteSet(earlier)
    BY <1>2, <2>1, FS_Subset
  <2> HIDE DEF earlier
  <2>3. Cardinality(UpTo(x)) = Cardinality(earlier) + 1
    BY <2>1, <2>2, FS_AddElement
  <2> QED BY <2>3 DEF earlier
<1> QED BY <1>3, <1>4, <1>5

LEMMA PagesInsert ==
    ASSUME ReadsTypeOK, ReadsTypeOK', PagesInv, IsPage, NEW row \in Rows, Insert(row)
    PROVE  PagesInv'
<1>1. /\ at # "done" /\ IsPage'
      /\ UNCHANGED <<request, plan, at, offset, base, page, got, series, first>>
      /\ \A i \in DOMAIN rows : i \in DOMAIN rows' /\ rows'[i] = rows[i]
  BY RowsStay DEF Insert, IsPage, ReadsTypeOK
<1>2. \A i, j \in DOMAIN rows : Before(i, j)' <=> Before(i, j)
  BY <1>1 DEF Before
<1>3. Chosen \subseteq DOMAIN rows /\ Chosen \subseteq Chosen'
  BY <1>1 DEF Chosen, Group
<1>4. at = "stepping" => Visible \subseteq Visible' /\ Visible \subseteq Chosen
  BY <1>1, <1>3 DEF Visible, Starting
<1>5. ASSUME NEW x \in Chosen
      PROVE  /\ Cardinality(UpTo(x)) \in Nat /\ Cardinality(UpTo(x)') \in Nat
             /\ Cardinality(UpTo(x)) <= Cardinality(UpTo(x)')
  <2>1. UpTo(x) \subseteq UpTo(x)'
    BY <1>2, <1>3 DEF UpTo, AtOrBefore
  <2>2. IsFiniteSet(UpTo(x)') /\ Cardinality(UpTo(x)') \in Nat
    <3>1. DOMAIN rows' = 1 .. Len(rows') /\ Len(rows') \in Nat
      BY DEF ReadsTypeOK
    <3>2. UpTo(x)' \subseteq DOMAIN rows'
      BY DEF UpTo, Chosen
    <3>3. IsFiniteSet(DOMAIN rows')
      BY <3>1, FS_Interval
    <3> QED BY <3>2, <3>3, FS_Subset, FS_CardinalityType
  <2>3. Cardinality(UpTo(x)) \in Nat
    BY UpToGrows
  <2> QED BY <2>1, <2>2, <2>3, FS_Subset
<1>6. /\ first \subseteq Chosen
      /\ \A x \in first : Cardinality(UpTo(x)) <= offset => x \in got
      /\ offset \in Nat
  BY <1>1 DEF PagesInv, ReadsTypeOK
<1>7. \A x \in first : Cardinality(UpTo(x)') <= offset => x \in got
  BY <1>5, <1>6
<1>8. CASE at = "stepping"
  <2>1. /\ first \subseteq Visible /\ Last(page) \in Visible
        /\ \A x \in first : Passed(x) => x \in got \cup ToSet(page)
        /\ Cardinality(UpTo(Last(page))) >= offset + Len(page)
    BY <1>1, <1>8 DEF PagesInv
  <2>2. \A x \in first : Passed(x)' <=> Passed(x)
    BY <1>1, <1>2, <1>3, <1>4, <1>8, <2>1 DEF Passed, AtOrBefore
  <2>3. Cardinality(UpTo(Last(page)))' >= offset + Len(page)
    <3>1. PICK z : z = Last(page) /\ z = Last(page')
      BY <1>1
    <3>2. z \in Chosen /\ Len(page) \in Nat
      BY <1>4, <1>8, <2>1, <3>1 DEF ReadsTypeOK
    <3>3. Cardinality(UpTo(z)') >= offset + Len(page)
      BY <1>5, <1>6, <2>1, <3>1, <3>2
    <3> QED BY <3>1, <3>3
  <2> QED BY <1>1, <1>3, <1>4, <1>6, <1>7, <1>8, <2>1, <2>2, <2>3 DEF PagesInv
<1>9. CASE at # "stepping"
  BY <1>1, <1>3, <1>6, <1>7, <1>9 DEF PagesInv
<1> QED BY <1>8, <1>9
\* When a statement starts, the rows that are owed are among those of the list, and
\* those among the first `offset` ones have been fetched.
LEMMA PagesStart ==
    ASSUME ReadsTypeOK, PagesInv, IsPage, at # "done"
    PROVE  /\ Owed \subseteq Chosen
           /\ \A x \in Owed : Cardinality(UpTo(x)) <= offset => x \in got
           /\ at = "stepping" => Owed = first
<1>1. offset \in Nat /\ series = <<>>
  BY DEF ReadsTypeOK, IsPage, IsCalculation
<1>2. /\ first \subseteq Chosen
      /\ \A x \in first : Cardinality(UpTo(x)) <= offset => x \in got
  BY DEF PagesInv
<1>3. \A x \in Chosen : Cardinality(UpTo(x)) \in Nat \ {0}
  BY UpToGrows
<1> QED BY <1>1, <1>2, <1>3 DEF Owed, Starting

\* The next row of a statement under way: none that the client can see is between it
\* and the last one.
LEMMA NextIsNext ==
    ASSUME ReadsTypeOK, at = "stepping", NEW i \in Ahead, IsNext(i)
    PROVE  /\ i \in Visible /\ Before(Last(page), i)
           /\ \A j \in Visible : Before(Last(page), j) => ~Before(j, i)
<1>1. page # <<>> /\ Skipped = 0
  BY DEF ReadsTypeOK, Skipped, Starting
<1>2. Ahead = {j \in Visible : Before(Last(page), j)}
  BY <1>1 DEF Ahead
<1> DEFINE between == {j \in Ahead : Before(j, i)}
<1>3. IsFiniteSet(between) /\ Cardinality(between) = 0
  <2>1. between \subseteq DOMAIN rows
    BY <1>2 DEF Visible, Chosen
  <2> QED BY <1>1, <2>1, OrdersSubset DEF IsNext
<1>4. between = {}
  BY <1>3, FS_EmptySet
<1> QED BY <1>2, <1>4

LEMMA NothingAhead ==
    ASSUME ReadsTypeOK, at = "stepping", \A i \in Ahead : ~IsNext(i)
    PROVE  \A j \in Visible : ~Before(Last(page), j)
<1>1. page # <<>> /\ Skipped = 0
  BY DEF ReadsTypeOK, Skipped, Starting
<1>2. Ahead = {j \in Visible : Before(Last(page), j)} /\ Ahead \subseteq DOMAIN rows
  BY <1>1 DEF Ahead, Visible, Chosen
<1>3. Cardinality(Ahead) <= 0 /\ IsFiniteSet(Ahead) /\ Cardinality(Ahead) \in Nat
  BY <1>1, <1>2, NoneAtRank, OrdersSubset DEF IsNext
<1>4. Ahead = {}
  BY <1>3, FS_EmptySet
<1> QED BY <1>2, <1>4

LEMMA LastAppended ==
    ASSUME NEW S, NEW s \in Seq(S), NEW x \in S
    PROVE  /\ Last(Append(s, x)) = x /\ Len(Append(s, x)) = Len(s) + 1
           /\ ToSet(Append(s, x)) = ToSet(s) \cup {x}
           /\ Append(s, x) # <<>>
<1>1. /\ Append(s, x) \in Seq(S) /\ Len(Append(s, x)) = Len(s) + 1 /\ Len(s) \in Nat
      /\ DOMAIN Append(s, x) = DOMAIN s \cup {Len(s) + 1}
      /\ \A k \in DOMAIN s : Append(s, x)[k] = s[k]
      /\ Append(s, x)[Len(s) + 1] = x
  OBVIOUS
<1>2. ToSet(Append(s, x)) = ToSet(s) \cup {x}
  BY <1>1 DEF ToSet
<1> QED BY <1>1, <1>2 DEF Last

LEMMA PagesFetch ==
    ASSUME ReadsTypeOK, PagesInv, IsPage, NEW i \in DOMAIN rows, Fetch(i)
    PROVE  PagesInv'
<1>1. /\ at # "done" /\ IsPage' /\ at' = "stepping" /\ first' = Owed
      /\ i \in Ahead /\ IsNext(i) /\ page' = Append(page, i)
      /\ UNCHANGED <<rows, request, plan, offset, got, series>>
      /\ base' = IF Starting THEN Len(rows) ELSE base
  BY DEF Fetch, IsPage, ReadsTypeOK
<1>2. /\ page \in Seq(DOMAIN rows) /\ Len(page) \in Nat /\ offset \in Nat
      /\ Last(page') = i /\ Len(page') = Len(page) + 1 /\ ToSet(page') = ToSet(page) \cup {i}
  BY <1>1, LastAppended DEF ReadsTypeOK
<1>3. /\ \A x : UpTo(x)' = UpTo(x)
      /\ Chosen' = Chosen
      /\ \A x, y : Before(x, y)' <=> Before(x, y)
  BY <1>1 DEF UpTo, AtOrBefore, Chosen, Group, Before
<1>4. /\ Owed \subseteq Chosen
      /\ \A x \in Owed : Cardinality(UpTo(x)) <= offset => x \in got
  BY <1>1, PagesStart
<1>5. Visible' = IF plan.sorted THEN {j \in Chosen : j <= base'} ELSE Chosen
  BY <1>1, <1>3 DEF Visible, Starting
<1>6. \A x \in Owed : Passed(x)' <=> AtOrBefore(x, i)
  BY <1>1, <1>2, <1>3 DEF Passed, AtOrBefore
<1>7. UpTo(Last(page))' = UpTo(i)
  BY <1>2, <1>3 DEF UpTo, AtOrBefore
<1> SUFFICES /\ Owed \subseteq Visible' /\ i \in Visible'
             /\ \A x \in Owed : Before(x, i) => x \in got \cup ToSet(page)
             /\ Cardinality(UpTo(i)) >= offset + Len(page) + 1
  BY <1>1, <1>2, <1>3, <1>4, <1>6, <1>7 DEF PagesInv, AtOrBefore
<1>8. CASE at = "idle"
  <2>1. page = <<>> /\ Starting /\ Ahead = Chosen /\ Skipped = offset /\ Len(page) = 0
    BY <1>1, <1>8 DEF ReadsTypeOK, Starting, Ahead, Visible, Skipped
  <2>2. Visible' = Chosen
    <3>1. \A j \in Chosen : j <= Len(rows)
      BY DEF Chosen, ReadsTypeOK
    <3> QED BY <1>1, <1>5, <2>1, <3>1
  <2>3. i \in Chosen /\ Cardinality(UpTo(i)) = offset + 1
    BY <1>1, <2>1, UpToGrows DEF IsNext
  <2>4. \A x \in Owed : Before(x, i) => x \in got
    <3> SUFFICES ASSUME NEW x \in Owed, Before(x, i) PROVE x \in got
      OBVIOUS
    <3>1. Cardinality(UpTo(x)) + 1 <= offset + 1 /\ Cardinality(UpTo(x)) \in Nat
      BY <1>4, <2>3, UpToGrows
    <3> QED BY <1>2, <1>4, <3>1
  <2> QED BY <1>2, <1>4, <2>1, <2>2, <2>3, <2>4
<1>9. CASE at = "stepping"
  <2>1. /\ first \subseteq Visible /\ Last(page) \in Visible
        /\ \A x \in first : Passed(x) => x \in got \cup ToSet(page)
        /\ Cardinality(UpTo(Last(page))) >= offset + Len(page)
    BY <1>9 DEF PagesInv
  <2>2. Owed = first
    BY <1>9, PagesStart
  <2>3. Visible' = Visible /\ Visible \subseteq Chosen
    BY <1>1, <1>5, <1>9 DEF Visible, Starting
  <2>4. /\ i \in Visible /\ Before(Last(page), i)
        /\ \A j \in Visible : Before(Last(page), j) => ~Before(j, i)
    BY <1>1, <1>9, NextIsNext
  <2>5. \A x \in first : Before(x, i) => x \in got \cup ToSet(page)
    <3> SUFFICES ASSUME NEW x \in first, Before(x, i) PROVE x \in got \cup ToSet(page)
      OBVIOUS
    <3>1. x \in DOMAIN rows /\ Last(page) \in DOMAIN rows
      BY <2>1, <2>3 DEF Chosen
    <3>2. AtOrBefore(x, Last(page))
      BY <2>1, <2>4, <3>1, BeforeIsAnOrder DEF AtOrBefore
    <3> QED BY <1>9, <2>1, <3>2 DEF Passed
  <2>6. Cardinality(UpTo(i)) >= offset + Len(page) + 1
    <3>1. /\ Cardinality(UpTo(Last(page))) + 1 <= Cardinality(UpTo(i))
          /\ Cardinality(UpTo(Last(page))) \in Nat /\ Cardinality(UpTo(i)) \in Nat
      BY <2>1, <2>3, <2>4, UpToGrows
    <3> QED BY <1>2, <2>1, <3>1
  <2> QED BY <2>1, <2>2, <2>3, <2>4, <2>5, <2>6
<1> QED BY <1>1, <1>8, <1>9 DEF ReadsTypeOK
LEMMA PagesEnding ==
    ASSUME ReadsTypeOK, PagesInv, PageEnds
    PROVE  PagesInv'
<1>1. /\ at # "done" /\ IsPage /\ IsPage' /\ first' = Owed /\ NothingToFetch
      /\ got' = got \cup ToSet(page) /\ offset' = offset + Len(page)
      /\ at' = IF Len(page) < request.limit THEN "done" ELSE "idle"
      /\ UNCHANGED <<rows, request, plan, series>>
  BY DEF PageEnds, IsPage, ReadsTypeOK
<1>2. /\ Len(page) \in Nat /\ offset \in Nat /\ request.limit \in Nat \ {0}
      /\ page = <<>> => Len(page) = 0 /\ ToSet(page) = {}
  BY KindsOfRequest DEF ReadsTypeOK, ToSet
<1>3. Chosen' = Chosen /\ \A x : UpTo(x)' = UpTo(x)
  BY <1>1 DEF UpTo, AtOrBefore, Chosen, Group, Before
<1>4. /\ Owed \subseteq Chosen
      /\ \A x \in Owed : Cardinality(UpTo(x)) <= offset => x \in got
  BY <1>1, PagesStart
<1> SUFFICES /\ at' = "idle" => \A x \in Owed :
                    Cardinality(UpTo(x)) <= offset + Len(page) => x \in got \cup ToSet(page)
             /\ at' = "done" => Owed \subseteq got \cup ToSet(page)
  BY <1>1, <1>3, <1>4 DEF PagesInv
<1>5. CASE at = "idle"
  <2>1. page = <<>> /\ Ahead = Chosen /\ Skipped = offset
    BY <1>1, <1>5 DEF ReadsTypeOK, Starting, Ahead, Visible, Skipped
  <2>2. \A i \in Chosen : Cardinality({j \in Chosen : Before(j, i)}) # offset
    BY <1>1, <1>2, <2>1 DEF NothingToFetch, IsNext
  <2>3. Chosen \subseteq DOMAIN rows
    BY DEF Chosen
  <2>4. Cardinality(Chosen) <= offset /\ Cardinality(Chosen) \in Nat
    BY <1>2, <2>2, <2>3, NoneAtRank, OrdersSubset
  <2>5. \A x \in Owed : Cardinality(UpTo(x)) <= offset
    BY <1>2, <1>4, <2>4, UpToGrows
  <2> QED BY <1>4, <2>5
<1>6. CASE at = "stepping"
  <2>1. /\ first \subseteq Visible /\ Last(page) \in Visible /\ Visible \subseteq Chosen
        /\ \A x \in first : Passed(x) => x \in got \cup ToSet(page)
        /\ Cardinality(UpTo(Last(page))) >= offset + Len(page)
    BY <1>1, <1>6 DEF PagesInv, Visible
  <2>2. Owed = first
    BY <1>1, <1>6, PagesStart
  <2>3. \A x \in first : x \in got \cup ToSet(page) \/ Before(Last(page), x)
    <3> TAKE x \in first
    <3>1. x \in DOMAIN rows /\ Last(page) \in DOMAIN rows
      BY <2>1 DEF Chosen
    <3> QED BY <1>6, <2>1, <3>1, BeforeIsAnOrder DEF Passed, AtOrBefore
  <2>4. ASSUME NEW x \in first, Cardinality(UpTo(x)) <= offset + Len(page)
        PROVE  x \in got \cup ToSet(page)
    <3>1. /\ Cardinality(UpTo(x)) \in Nat /\ Cardinality(UpTo(Last(page))) \in Nat
          /\ Before(Last(page), x) => Cardinality(UpTo(Last(page))) + 1 <= Cardinality(UpTo(x))
      BY <2>1, UpToGrows
    <3>2. ~Before(Last(page), x)
      BY <1>2, <2>1, <2>4, <3>1
    <3> QED BY <2>3, <3>2
  <2>5. ASSUME at' = "done" PROVE first \subseteq got \cup ToSet(page)
    <3>1. Len(page) # request.limit
      BY <1>1, <1>2, <2>5
    <3>2. \A j \in Visible : ~Before(Last(page), j)
      BY <1>1, <1>6, <3>1, NothingAhead DEF NothingToFetch
    <3> QED BY <2>1, <2>3, <3>2
  <2> QED BY <2>2, <2>4, <2>5
<1> QED BY <1>1, <1>5, <1>6 DEF ReadsTypeOK

LEMMA PagesInit == ReadsInit => PagesInv
  BY DEF ReadsInit, PagesInv

LEMMA PagesStep == ReadsTypeOK /\ ReadsTypeOK' /\ PagesInv /\ [ReadsNext]_readVars => PagesInv'
<1> SUFFICES ASSUME ReadsTypeOK, ReadsTypeOK', PagesInv, [ReadsNext]_readVars, IsPage'
             PROVE  PagesInv'
  BY DEF PagesInv
<1>1. request' = request /\ IsPage /\ request.kind = "page"
  BY DEF ReadsNext, Insert, Fetch, PageEnds, RowEnds, SeriesEnds, QueryFails, readVars, IsPage
<1>2. ASSUME UNCHANGED readVars PROVE PagesInv'
  BY <1>2 DEF PagesInv, readVars, IsPage, Chosen, Group, UpTo, Passed, AtOrBefore, Before,
              Visible, Starting
<1>3. CASE QueryFails
  <2>1. /\ at # "done" /\ at' = "idle" /\ series = <<>> /\ series' = <<>>
        /\ UNCHANGED <<rows, request, plan, offset, got, first>>
    BY <1>1, <1>3 DEF QueryFails, ReadsTypeOK, IsCalculation
  <2>2. Chosen' = Chosen /\ \A x : UpTo(x)' = UpTo(x)
    BY <2>1 DEF UpTo, AtOrBefore, Chosen, Group, Before
  <2> QED BY <1>1, <2>1, <2>2 DEF PagesInv
<1> QED BY <1>1, <1>2, <1>3, PagesInsert, PagesFetch, PagesEnding
        DEF ReadsNext, RowEnds, SeriesEnds, IsCalculation
-----------------------------------------------------------------------------
(* Lookups. *)

LEMMA LookupInsert ==
    ASSUME ReadsTypeOK, LookupInv, request.kind = "row", NEW row \in Rows, Insert(row)
    PROVE  LookupInv'
<1>1. /\ at # "done" /\ series = <<>>
      /\ UNCHANGED <<request, plan, at, offset, base, page, got, series, first>>
      /\ \A i \in DOMAIN rows : i \in DOMAIN rows' /\ rows'[i] = rows[i]
      /\ DOMAIN rows' = DOMAIN rows \cup {Len(rows) + 1}
      /\ rows'[Len(rows) + 1] = row
  BY RowsStay DEF Insert, ReadsTypeOK, IsCalculation
<1>2. \A i, j \in DOMAIN rows : AtOrBefore(i, j)' <=> AtOrBefore(i, j)
  BY <1>1 DEF Before, AtOrBefore
<1>3. Chosen \subseteq DOMAIN rows /\ Chosen \subseteq Chosen'
  BY <1>1 DEF Chosen, Group
<1>4. request = ByKey => \A i, j \in Chosen' : i = j
  <2> SUFFICES ASSUME request = ByKey PROVE \A i, j \in Chosen' : i = j
    OBVIOUS
  <2>1. Group = 1 /\ Group' = 1
    BY <1>1 DEF Group
  <2>2. CASE row.group = 1
    <3>1. Chosen = {}
      BY <2>2 DEF Insert
    <3>2. Chosen' \subseteq {Len(rows) + 1}
      BY <1>1, <2>1, <3>1 DEF Chosen
    <3> QED BY <3>2
  <2>3. CASE row.group # 1
    <3>1. Chosen' = Chosen
      BY <1>1, <2>1, <2>3 DEF Chosen
    <3> QED BY <3>1 DEF LookupInv
  <2> QED BY <2>2, <2>3
<1>5. request' = request /\ ByKey' = ByKey
  BY <1>1 DEF ByKey, Lookup, NoLimit
<1> QED BY <1>1, <1>2, <1>3, <1>4, <1>5 DEF LookupInv

LEMMA LookupFetch ==
    ASSUME ReadsTypeOK, LookupInv, request.kind = "row", NEW i \in DOMAIN rows, Fetch(i)
    PROVE  LookupInv'
<1>1. /\ at # "done" /\ at' = "stepping" /\ first' = Owed /\ series = <<>> /\ offset = 0
      /\ i \in Ahead /\ IsNext(i) /\ page' = Append(page, i) /\ page \in Seq(DOMAIN rows)
      /\ page = <<>> <=> at = "idle"
      /\ UNCHANGED <<rows, request, plan, offset, got, series>>
  BY DEF Fetch, ReadsTypeOK, IsCalculation, LookupInv
<1>2. /\ Chosen' = Chosen /\ Chosen \subseteq DOMAIN rows
      /\ \A x, y : AtOrBefore(x, y)' <=> AtOrBefore(x, y)
  BY <1>1 DEF AtOrBefore, Chosen, Group, Before
<1>3. CASE at = "idle"
  <2>1. page' = <<i>> /\ Owed = Chosen /\ Ahead = Chosen /\ Skipped = 0
    BY <1>1, <1>3 DEF Owed, Starting, Ahead, Visible, Skipped, IsPage
  <2> DEFINE earlier == {j \in Chosen : Before(j, i)}
  <2>2. Cardinality(earlier) = 0 /\ IsFiniteSet(earlier)
    BY <1>1, <1>2, <2>1, OrdersSubset DEF IsNext
  <2>3. earlier = {}
    BY <2>2, FS_EmptySet
  <2>4. \A x \in Chosen : AtOrBefore(i, x)
    BY <1>1, <1>2, <2>1, <2>3, BeforeIsAnOrder DEF AtOrBefore
  <2> QED BY <1>1, <1>2, <2>1, <2>4 DEF LookupInv, AtOrBefore, ByKey, Lookup, NoLimit
<1>4. CASE at = "stepping"
  <2>1. page'[1] = page[1] /\ Owed = first
    BY <1>1, <1>4 DEF Owed, Starting
  <2> QED BY <1>1, <1>2, <1>4, <2>1 DEF LookupInv, AtOrBefore, ByKey, Lookup, NoLimit
<1> QED BY <1>1, <1>3, <1>4 DEF ReadsTypeOK

LEMMA LookupEnding ==
    ASSUME ReadsTypeOK, LookupInv, RowEnds
    PROVE  LookupInv'
<1>1. /\ at # "done" /\ at' = "done" /\ first' = Owed /\ series = <<>> /\ offset = 0
      /\ request.kind = "row" /\ NothingToFetch /\ page \in Seq(DOMAIN rows)
      /\ got' = {page[n] : n \in DOMAIN page \cap {1}}
      /\ page = <<>> <=> at = "idle"
      /\ UNCHANGED <<rows, request, plan, offset, series>>
  BY DEF RowEnds, ReadsTypeOK, IsCalculation, LookupInv
<1>2. /\ Chosen' = Chosen /\ Chosen \subseteq DOMAIN rows
      /\ \A x, y : AtOrBefore(x, y)' <=> AtOrBefore(x, y)
  BY <1>1 DEF AtOrBefore, Chosen, Group, Before
<1>3. CASE at = "idle"
  <2>1. Owed = Chosen /\ Ahead = Chosen /\ Skipped = 0 /\ Len(page) = 0
    BY <1>1, <1>3 DEF Owed, Starting, Ahead, Visible, Skipped, IsPage
  <2>2. \A i \in Chosen : Cardinality({j \in Chosen : Before(j, i)}) # 0
    <3>1. Len(page) # request.limit
      BY <2>1, KindsOfRequest DEF ReadsTypeOK
    <3> QED BY <1>1, <2>1, <3>1 DEF NothingToFetch, IsNext
  <2>3. Cardinality(Chosen) <= 0 /\ IsFiniteSet(Chosen) /\ Cardinality(Chosen) \in Nat
    BY <1>2, <2>2, NoneAtRank, OrdersSubset
  <2>4. Chosen = {}
    BY <2>3, FS_EmptySet
  <2> QED BY <1>1, <1>2, <2>1, <2>4 DEF LookupInv
<1>4. CASE at = "stepping"
  <2>1. Owed = first /\ 1 \in DOMAIN page
    BY <1>1, <1>4 DEF Owed, Starting
  <2>2. page[1] \in got' /\ page[1] \in Chosen /\ \A x \in first : AtOrBefore(page[1], x)
    BY <1>1, <1>4, <2>1 DEF LookupInv
  <2> QED BY <1>1, <1>2, <2>1, <2>2 DEF LookupInv, ByKey, Lookup, NoLimit
<1> QED BY <1>1, <1>3, <1>4 DEF ReadsTypeOK

LEMMA LookupInit == ReadsInit => LookupInv
<1> SUFFICES ASSUME ReadsInit PROVE LookupInv
  OBVIOUS
<1>1. Chosen = {}
  BY DEF ReadsInit, Chosen
<1> QED BY <1>1 DEF ReadsInit, LookupInv

LEMMA LookupStep == ReadsTypeOK /\ LookupInv /\ [ReadsNext]_readVars => LookupInv'
<1> SUFFICES ASSUME ReadsTypeOK, LookupInv, [ReadsNext]_readVars, request'.kind = "row"
             PROVE  LookupInv'
  BY DEF LookupInv
<1>1. request' = request /\ request.kind = "row"
  BY DEF ReadsNext, Insert, Fetch, PageEnds, RowEnds, SeriesEnds, QueryFails, readVars
<1>2. ASSUME UNCHANGED readVars PROVE LookupInv'
  BY <1>2 DEF LookupInv, readVars, Chosen, Group, AtOrBefore, Before, ByKey, Lookup, NoLimit
<1>3. CASE QueryFails
  <2>1. /\ at # "done" /\ at' = "idle" /\ series = <<>> /\ series' = <<>>
        /\ UNCHANGED <<rows, request, plan, offset, got, first>>
    BY <1>1, <1>3 DEF QueryFails, ReadsTypeOK, IsCalculation
  <2>2. Chosen' = Chosen
    BY <2>1 DEF Chosen, Group
  <2> QED BY <1>1, <2>1, <2>2 DEF LookupInv, ByKey, Lookup, NoLimit
<1> QED BY <1>1, <1>2, <1>3, LookupInsert, LookupFetch, LookupEnding
        DEF ReadsNext, PageEnds, SeriesEnds, IsPage, IsCalculation

(* Whatever is inserted between two pages or between two rows of one, a client *)
(* that turns the pages of a list has every row that was there when it began,  *)
(* and a lookup does not miss its row (api_router.cpp:472-515, 842-890 and its *)
(* likes): for any rows, orders, limits and plans of SQLite.                   *)
THEOREM NothingMissed == ReadsSpec => []ReadsMissNothing
<1>1. ReadsTypeOK /\ PagesInv /\ LookupInv => ReadsMissNothing
  <2> SUFFICES ASSUME ReadsTypeOK, PagesInv, LookupInv, at = "done", ~IsCalculation,
                      NEW x \in first
               PROVE  \/ x \in got
                      \/ /\ request = get_latest_ohlcv
                         /\ \E j \in got : rows[x].time <= rows[j].time
    BY DEF ReadsMissNothing
  <2>1. request \in Requests /\ (IsPage \/ request.kind = "row")
    BY KindsOfRequest DEF ReadsTypeOK, IsPage, IsCalculation
  <2>2. CASE IsPage
    BY <2>2 DEF PagesInv
  <2>3. CASE request.kind = "row"
    <3>1. PICK j \in got : j \in Chosen /\ AtOrBefore(j, x)
      BY <2>3 DEF LookupInv
    <3>2. x \in Chosen
      BY <2>3 DEF LookupInv
    <3>3. request = ByKey => x = j
      BY <2>3, <3>1, <3>2 DEF LookupInv
    <3>4. request.ascending = FALSE /\ (request = ByKey \/ request = get_latest_ohlcv)
      BY <2>3, KindsOfRequest DEF ReadsTypeOK
    <3>5. rows[x].time \in Nat /\ rows[j].time \in Nat
      <4>1. rows[x] \in Rows /\ rows[j] \in Rows
        BY <3>1, <3>2 DEF Chosen, ReadsTypeOK
      <4> QED BY <4>1, ReadsAssumption DEF Rows
    <3>6. rows[x].time <= rows[j].time
      BY <3>1, <3>4, <3>5 DEF AtOrBefore, Before
    <3> QED BY <3>3, <3>4, <3>6
  <2> QED BY <2>1, <2>2, <2>3
<1>2. ReadsInit => ReadsTypeOK /\ PagesInv /\ LookupInv
  BY ReadsTypeInit, PagesInit, LookupInit
<1>3. ReadsTypeOK /\ PagesInv /\ LookupInv /\ [ReadsNext]_readVars
            => (ReadsTypeOK /\ PagesInv /\ LookupInv)'
  BY ReadsTypeStep, PagesStep, LookupStep
<1> QED BY <1>1, <1>2, <1>3, PTL DEF ReadsSpec
-----------------------------------------------------------------------------
(* The bars of a calculation. *)

LEMMA BarsInTime ==
    ASSUME ReadsTypeOK, IsCalculation, Chronological, NEW g,
           NEW i \in InGroup(g), NEW j \in InGroup(g)
    PROVE  Before(i, j) <=> i < j
<1>1. request.ascending = TRUE
  BY KindsOfRequest DEF ReadsTypeOK
<1>2. /\ i \in DOMAIN rows /\ j \in DOMAIN rows /\ rows[i].group = g /\ rows[j].group = g
      /\ i \in Nat /\ j \in Nat /\ rows[i] \in Rows /\ rows[j] \in Rows
  BY DEF InGroup, ReadsTypeOK
<1>3. rows[i].time \in Nat /\ rows[j].time \in Nat
  BY <1>2, ReadsAssumption DEF Rows
<1>4. /\ i < j => rows[i].time < rows[j].time
      /\ j < i => rows[j].time < rows[i].time
  BY <1>2 DEF Chronological
<1> QED BY <1>1, <1>2, <1>3, <1>4 DEF Before

LEMMA BarsInsert ==
    ASSUME ReadsTypeOK, BarsInv, IsCalculation, NEW row \in Rows, Insert(row)
    PROVE  BarsInv'
<1>1. /\ UNCHANGED <<request, plan, at, offset, base, page, got, series, first>>
      /\ IsCalculation' /\ Group' = Group
      /\ DOMAIN rows = 1 .. Len(rows) /\ Len(rows) \in Nat
      /\ DOMAIN rows' = DOMAIN rows \cup {Len(rows) + 1}
      /\ \A i \in DOMAIN rows : rows'[i] = rows[i]
      /\ rows'[Len(rows) + 1] = row
      /\ \A i \in DOMAIN rows : rows[i].group = row.group => rows[i].time < row.time
  BY RowsStay DEF Insert, ReadsTypeOK, IsCalculation, Group
<1>2. Chronological'
  BY <1>1 DEF BarsInv, Chronological
<1>3. ASSUME NEW S, NEW g, Beginning(S, g)
      PROVE  /\ S \subseteq InGroup(g)'
             /\ \A x \in S : \A y \in InGroup(g)' : y < x => y \in S
  <2>1. S \subseteq InGroup(g) /\ InGroup(g) \subseteq DOMAIN rows
        /\ InGroup(g)' \subseteq InGroup(g) \cup {Len(rows) + 1} /\ InGroup(g) \subseteq InGroup(g)'
    BY <1>1, <1>3 DEF InGroup, Beginning
  <2>2. \A x \in S : x \in Nat /\ x <= Len(rows)
    BY <1>1, <2>1
  <2> QED BY <1>1, <1>3, <2>1, <2>2 DEF Beginning
<1> QED BY <1>1, <1>2, <1>3 DEF BarsInv, Beginning

\* The row fetched is the next bar of the symbol.
LEMMA FetchedInTurn ==
    ASSUME ReadsTypeOK, BarsInv, IsCalculation, NEW i \in DOMAIN rows, Fetch(i)
    PROVE  /\ i \in InGroup(Group)
           /\ at # "idle" => i \in Visible
           /\ \A y \in InGroup(Group) : y < i => y \in ToSet(page)
<1>1. /\ i \in Ahead /\ IsNext(i) /\ at \in {"idle", "stepping"} /\ page \in Seq(DOMAIN rows)
      /\ page = <<>> <=> at = "idle"
      /\ Chosen = InGroup(Group) /\ Chosen \subseteq DOMAIN rows
      /\ \A x \in DOMAIN rows : x \in Nat
      /\ Chronological
  BY DEF Fetch, ReadsTypeOK, Chosen, InGroup, BarsInv
<1>2. \A x, y \in Chosen : Before(x, y) <=> x < y
  BY <1>1, BarsInTime
<1>3. CASE at = "idle"
  <2>1. Ahead = Chosen /\ Skipped = 0 /\ ToSet(page) = {}
    BY <1>1, <1>3 DEF Starting, Ahead, Visible, Skipped, IsPage, IsCalculation, ToSet
  <2> DEFINE earlier == {j \in Chosen : Before(j, i)}
  <2>2. Cardinality(earlier) = 0 /\ IsFiniteSet(earlier)
    BY <1>1, <2>1, OrdersSubset DEF IsNext
  <2>3. earlier = {}
    BY <2>2, FS_EmptySet
  <2> QED BY <1>1, <1>2, <1>3, <2>1, <2>3
<1>4. CASE at = "stepping"
  <2> DEFINE z == Last(page)
  <2>1. /\ i \in Visible /\ Before(z, i)
        /\ \A j \in Visible : Before(z, j) => ~Before(j, i)
    BY <1>1, <1>4, NextIsNext
  <2>2. z \in ToSet(page)
    <3>1. Len(page) \in DOMAIN page
      BY <1>1, <1>4
    <3> QED BY <3>1 DEF Last, ToSet
  <2>3. Beginning(ToSet(page), Group)
    BY <1>4 DEF BarsInv
  <2>4. z \in Chosen /\ Visible \subseteq Chosen /\ ToSet(page) \subseteq Chosen
    BY <1>1, <2>2, <2>3 DEF Beginning, Visible
  <2> HIDE DEF z
  <2>5. z < i /\ i \in Chosen /\ z \in Nat /\ i \in Nat
    BY <1>1, <1>2, <2>1, <2>4
  <2>6. ASSUME NEW y \in Chosen, y < i PROVE y \in ToSet(page)
    <3>1. y \in Visible
      BY <1>1, <1>4, <2>1, <2>6 DEF Visible, Starting, ReadsTypeOK
    <3>2. ~(z < y)
      BY <1>2, <2>1, <2>4, <2>5, <2>6, <3>1
    <3>3. y = z \/ y < z
      BY <1>1, <2>5, <2>6, <3>2
    <3> QED BY <1>1, <2>2, <2>3, <2>6, <3>3 DEF Beginning
  <2> QED BY <1>1, <2>1, <2>5, <2>6
<1> QED BY <1>1, <1>3, <1>4
LEMMA BarsFetch ==
    ASSUME ReadsTypeOK, BarsInv, IsCalculation, NEW i \in DOMAIN rows, Fetch(i)
    PROVE  BarsInv'
<1>1. /\ UNCHANGED <<rows, request, plan, offset, got, series>> /\ at' = "stepping"
      /\ IsCalculation' /\ Group' = Group /\ \A g : InGroup(g)' = InGroup(g)
      /\ ToSet(page') = ToSet(page) \cup {i} /\ page \in Seq(DOMAIN rows)
      /\ page = <<>> => ToSet(page) = {}
      /\ page = <<>> <=> at # "stepping"
  <2>1. /\ UNCHANGED <<rows, request, plan, offset, got, series>> /\ at' = "stepping"
        /\ page' = Append(page, i) /\ page \in Seq(DOMAIN rows)
        /\ page = <<>> <=> at # "stepping"
    BY DEF Fetch, ReadsTypeOK
  <2>2. ToSet(page') = ToSet(page) \cup {i}
    BY <2>1, LastAppended
  <2>3. page = <<>> => ToSet(page) = {}
    BY DEF ToSet
  <2> QED BY <2>1, <2>2, <2>3 DEF IsCalculation, Group, InGroup
<1>2. /\ i \in InGroup(Group)
      /\ \A y \in InGroup(Group) : y < i => y \in ToSet(page)
  BY FetchedInTurn
<1>3. \/ ToSet(page) = {}
      \/ /\ ToSet(page) \subseteq InGroup(Group)
         /\ \A x \in ToSet(page) : \A y \in InGroup(Group) : y < x => y \in ToSet(page)
  BY <1>1 DEF BarsInv, Beginning
<1>4. Beginning(ToSet(page), Group)'
  BY <1>1, <1>2, <1>3 DEF Beginning
<1> QED BY <1>1, <1>4 DEF BarsInv, Beginning, Chronological

LEMMA BarsEnding ==
    ASSUME ReadsTypeOK, BarsInv, SeriesEnds
    PROVE  BarsInv'
<1>1. /\ UNCHANGED <<rows, request, plan, offset, got>> /\ at \in {"idle", "stepping"}
      /\ at' # "stepping"
      /\ IsCalculation /\ IsCalculation' /\ \A g : InGroup(g)' = InGroup(g)
      /\ page = <<>> => ToSet(page) = {}
      /\ page = <<>> <=> at = "idle"
      /\ series \in Seq(Seq(DOMAIN rows)) /\ page \in Seq(DOMAIN rows)
      /\ series' = Append(series, page)
  BY DEF SeriesEnds, IsCalculation, InGroup, ReadsTypeOK, ToSet
<1>2. /\ DOMAIN series' = DOMAIN series \cup {Group}
      /\ \A g \in DOMAIN series : series'[g] = series[g]
      /\ series'[Group] = page
  BY <1>1 DEF Group
<1>3. Beginning(ToSet(page), Group)
  BY <1>1 DEF BarsInv, Beginning
<1>4. \A g \in DOMAIN series' : Beginning(ToSet(series'[g]), g)
  BY <1>1, <1>2, <1>3 DEF BarsInv
<1> QED BY <1>1, <1>4 DEF BarsInv, Beginning, Chronological

LEMMA BarsInit == ReadsInit => BarsInv
  BY DEF ReadsInit, BarsInv, Chronological

LEMMA BarsStep == ReadsTypeOK /\ BarsInv /\ [ReadsNext]_readVars => BarsInv'
<1> SUFFICES ASSUME ReadsTypeOK, BarsInv, [ReadsNext]_readVars, IsCalculation'
             PROVE  BarsInv'
  BY DEF BarsInv
<1>1. request' = request /\ IsCalculation /\ request.kind \in {"rca", "mca"}
  BY DEF ReadsNext, Insert, Fetch, PageEnds, RowEnds, SeriesEnds, QueryFails, readVars,
         IsCalculation
<1>2. ASSUME UNCHANGED readVars PROVE BarsInv'
  BY <1>2 DEF BarsInv, readVars, IsCalculation, Group, InGroup, Beginning, Chronological
<1>3. CASE QueryFails
  BY <1>1, <1>3 DEF BarsInv, QueryFails, IsCalculation, Chronological
<1> QED BY <1>1, <1>2, <1>3, BarsInsert, BarsFetch, BarsEnding
        DEF ReadsNext, PageEnds, RowEnds, IsPage

-----------------------------------------------------------------------------
(* Rates of change. *)

\* All rows are of the one symbol that is asked for.
LEMMA OneSymbol ==
    ASSUME ReadsTypeOK, RatesInv, request.kind = "rca"
    PROVE  /\ IsCalculation /\ DOMAIN rows = 1 .. Len(rows) /\ Len(rows) \in Nat
           /\ InGroup(1) = DOMAIN rows
           /\ page \in Seq(DOMAIN rows) /\ Counting(page) /\ Len(page) <= Len(rows)
           /\ page = <<>> <=> at # "stepping"
           /\ ToSet(page) = 1 .. Len(page) /\ Len(page) \in Nat
           /\ at # "done" => Group = 1 /\ Chosen = DOMAIN rows
<1>1. /\ IsCalculation /\ DOMAIN rows = 1 .. Len(rows) /\ Len(rows) \in Nat
      /\ page \in Seq(DOMAIN rows) /\ Counting(page) /\ Len(page) <= Len(rows)
      /\ page = <<>> <=> at # "stepping"
      /\ Len(page) \in Nat /\ DOMAIN page = 1 .. Len(page)
      /\ \A i \in DOMAIN rows : rows[i].group = 1
  BY DEF ReadsTypeOK, RatesInv, IsCalculation
<1>2. ToSet(page) = 1 .. Len(page)
  BY <1>1 DEF ToSet, Counting
<1>3. at # "done" => Group = 1
  BY <1>1 DEF ReadsTypeOK, Group
<1> QED BY <1>1, <1>2, <1>3 DEF InGroup, Chosen

LEMMA RatesFetch ==
    ASSUME ReadsTypeOK, BarsInv, RatesInv, request.kind = "rca", NEW i \in DOMAIN rows, Fetch(i)
    PROVE  RatesInv'
<1> DEFINE m == Len(page)
<1>1. /\ UNCHANGED <<rows, request, plan, offset, got, series>> /\ at' = "stepping"
      /\ page' = Append(page, i) /\ first' = Owed /\ at \in {"idle", "stepping"}
      /\ base' = IF at = "idle" THEN Len(rows) ELSE base
  BY DEF Fetch, Starting
<1>2. /\ IsCalculation /\ DOMAIN rows = 1 .. Len(rows) /\ Len(rows) \in Nat
      /\ InGroup(1) = DOMAIN rows
      /\ page \in Seq(DOMAIN rows) /\ Counting(page) /\ m <= Len(rows)
      /\ page = <<>> <=> at # "stepping"
      /\ ToSet(page) = 1 .. m /\ m \in Nat
      /\ Group = 1 /\ Chosen = DOMAIN rows
  BY <1>1, OneSymbol
<1>3. /\ i \in InGroup(Group)
      /\ at # "idle" => i \in Visible
      /\ \A y \in InGroup(Group) : y < i => y \in ToSet(page)
  BY <1>2, FetchedInTurn
<1>4. i > m
  <2>1. CASE at = "idle"
    BY <1>1, <1>2, <2>1
  <2>2. CASE at = "stepping"
    <3>1. Before(Last(page), i)
      BY <1>2, <2>2, NextIsNext DEF Fetch
    <3>2. Last(page) = m
      BY <1>2, <2>2 DEF Counting, Last
    <3>3. m \in DOMAIN rows
      BY <1>2, <2>2
    <3> QED BY <1>2, <3>1, <3>2, <3>3, BarsInTime DEF BarsInv
  <2> QED BY <1>1, <2>1, <2>2
<1>5. i = m + 1
  <2>1. ASSUME i > m + 1 PROVE FALSE
    <3>1. m + 1 \in InGroup(Group) /\ m + 1 < i
      BY <1>2, <2>1
    <3>2. m + 1 \in 1 .. m
      BY <1>2, <1>3, <3>1
    <3> QED BY <1>2, <3>2
  <2> QED BY <1>2, <1>4, <2>1
<1>6. Counting(page') /\ Len(page') = m + 1 /\ m + 1 <= Len(rows)
  BY <1>1, <1>2, <1>5 DEF Counting
<1>7. plan.sorted => Owed \subseteq 1 .. base' /\ m + 1 <= base'
  <2>1. CASE at = "idle"
    <3>1. Owed = Chosen
      <4>1. offset = 0 /\ series = <<>>
        BY <1>2, <2>1 DEF BarsInv, ReadsTypeOK
      <4> QED BY <2>1, <4>1 DEF Owed, Starting
    <3> QED BY <1>1, <1>2, <1>6, <2>1, <3>1
  <2>2. CASE at = "stepping"
    <3>1. Owed = first /\ base' = base
      BY <1>1, <2>2 DEF Owed, Starting
    <3>2. plan.sorted => i <= base
      BY <1>3, <2>2 DEF Visible, Starting
    <3> QED BY <1>5, <2>2, <3>1, <3>2 DEF RatesInv
  <2> QED BY <1>1, <2>1, <2>2
<1> HIDE DEF m
<1> QED BY <1>1, <1>6, <1>7 DEF RatesInv

LEMMA RatesEnding ==
    ASSUME ReadsTypeOK, BarsInv, RatesInv, request.kind = "rca", SeriesEnds
    PROVE  RatesInv'
<1> DEFINE m == Len(page)
<1>1. /\ UNCHANGED <<rows, request, plan, offset, got>> /\ at' = "done" /\ page' = <<>>
      /\ first' = Owed /\ at \in {"idle", "stepping"} /\ NothingToFetch
      /\ series = <<>> /\ series' = Append(series, page) /\ offset = 0
  BY DEF SeriesEnds, ReadsTypeOK, IsCalculation, BarsInv
<1>2. /\ IsCalculation /\ DOMAIN rows = 1 .. Len(rows) /\ Len(rows) \in Nat
      /\ InGroup(1) = DOMAIN rows
      /\ page \in Seq(DOMAIN rows) /\ Counting(page) /\ m <= Len(rows)
      /\ page = <<>> <=> at # "stepping"
      /\ m \in Nat /\ Group = 1 /\ Chosen = DOMAIN rows
  BY <1>1, OneSymbol
<1>3. Candles' = page
  BY <1>1 DEF Candles
<1>4. ASSUME m # request.limit PROVE Owed \subseteq 1 .. m
  <2>1. \A j \in Ahead : ~IsNext(j)
    BY <1>1, <1>4 DEF NothingToFetch
  <2>2. CASE at = "idle"
    <3>1. Owed = Chosen /\ Ahead = Chosen /\ Skipped = 0
      BY <1>1, <1>2, <2>2
         DEF Owed, Starting, Ahead, Visible, Skipped, IsPage, IsCalculation
    <3>2. Cardinality(Chosen) <= 0 /\ IsFiniteSet(Chosen) /\ Cardinality(Chosen) \in Nat
      BY <1>2, <2>1, <3>1, NoneAtRank, OrdersSubset DEF IsNext
    <3>3. Chosen = {}
      BY <3>2, FS_EmptySet
    <3> QED BY <3>1, <3>3
  <2>3. CASE at = "stepping"
    <3>1. \A j \in Visible : ~Before(Last(page), j)
      BY <2>1, <2>3, NothingAhead
    <3>2. Last(page) = m /\ m \in DOMAIN rows
      BY <1>2, <2>3 DEF Counting, Last
    <3>3. \A j \in DOMAIN rows : Before(m, j) <=> m < j
      BY <1>2, <3>2, BarsInTime DEF BarsInv
    <3>4. Owed = first /\ first \subseteq DOMAIN rows
      BY <2>3 DEF Owed, Starting, ReadsTypeOK
    <3>5. first \subseteq Visible
      BY <1>2, <2>3, <3>4 DEF RatesInv, Visible, Starting
    <3> QED BY <1>2, <3>1, <3>2, <3>3, <3>4, <3>5
  <2> QED BY <1>1, <2>2, <2>3
<1>5. Counting(<<>>) /\ Len(<<>>) = 0
  BY DEF Counting
<1> QED BY <1>1, <1>2, <1>3, <1>4, <1>5 DEF RatesInv, InGroup
LEMMA RatesInit == ReadsInit => RatesInv
<1> SUFFICES ASSUME ReadsInit PROVE RatesInv
  OBVIOUS
<1>1. rows = <<>> /\ page = <<>> /\ at = "idle" /\ Len(page) = 0 /\ Len(rows) = 0
  BY DEF ReadsInit
<1> QED BY <1>1 DEF RatesInv, Counting

LEMMA RatesStep ==
    ReadsTypeOK /\ BarsInv /\ RatesInv /\ [ReadsNext]_readVars => RatesInv'
<1> SUFFICES ASSUME ReadsTypeOK, BarsInv, RatesInv, [ReadsNext]_readVars, request'.kind = "rca"
             PROVE  RatesInv'
  BY DEF RatesInv
<1>1. request' = request /\ request.kind = "rca"
  BY DEF ReadsNext, Insert, Fetch, PageEnds, RowEnds, SeriesEnds, QueryFails, readVars
<1>2. ASSUME UNCHANGED readVars PROVE RatesInv'
  BY <1>2 DEF RatesInv, readVars, Counting, Candles
<1>3. CASE QueryFails
  <2>1. Counting(<<>>) /\ Len(<<>>) = 0 /\ Len(rows) \in Nat
    BY DEF Counting, ReadsTypeOK
  <2> QED BY <1>1, <1>3, <2>1 DEF RatesInv, QueryFails, Counting
<1>4. ASSUME NEW row \in Rows, Insert(row) PROVE RatesInv'
  <2>1. /\ at # "done" /\ row.group = 1
        /\ UNCHANGED <<request, plan, at, base, page, first>>
        /\ Len(rows') = Len(rows) + 1 /\ Len(rows) \in Nat /\ Len(page) \in Nat
        /\ DOMAIN rows' = DOMAIN rows \cup {Len(rows) + 1}
        /\ \A i \in DOMAIN rows : rows'[i] = rows[i]
        /\ rows'[Len(rows) + 1] = row
    BY <1>1, <1>4, RowsStay DEF Insert, ReadsTypeOK
  <2> QED BY <1>1, <2>1 DEF RatesInv, Counting
<1> QED BY <1>1, <1>2, <1>3, <1>4, RatesFetch, RatesEnding
        DEF ReadsNext, PageEnds, RowEnds, IsPage

(* Each rate looks back over as many stored bars as the window says, also when *)
(* bars come in between two rows of the statement, and each bar that was there *)
(* has its rate (rca_handler.cpp:38-107): for any bars, windows and limits.    *)
THEOREM RatesAreOverWindows == ReadsSpec => []RatesLookBackAWindow
<1>1. ReadsTypeOK /\ BarsInv /\ RatesInv => RatesLookBackAWindow
  <2> SUFFICES ASSUME ReadsTypeOK, BarsInv, RatesInv, at = "done", request.kind = "rca"
               PROVE  RatesLookBackAWindow
    BY DEF RatesLookBackAWindow
  <2> DEFINE n == Len(rows)
             m == Len(Candles)
             w == request.window
             T(i) == TimeOf(i)
  <2>1. /\ DOMAIN rows = 1 .. n /\ n \in Nat
        /\ w \in Nat \ {0} /\ request.points \in Nat \ {0}
        /\ request.limit = w + request.points
    BY KindsOfRequest DEF ReadsTypeOK, IsCalculation
  <2>2. /\ m \in Nat /\ m <= n /\ DOMAIN Candles = 1 .. m
        /\ \A k \in 1 .. m : Candles[k] = k
        /\ m = request.limit \/ first \subseteq 1 .. m
        /\ first \subseteq 1 .. n
    <3>1. Candles \in Seq(DOMAIN rows)
      <4>1. series \in Seq(Seq(DOMAIN rows)) /\ Len(series) = 1
        BY DEF ReadsTypeOK, IsCalculation
      <4> QED BY <4>1 DEF Candles
    <3>2. m \in Nat /\ DOMAIN Candles = 1 .. m
      BY <3>1
    <3> QED BY <2>1, <3>2 DEF RatesInv, Counting, ReadsTypeOK
  <2>3. \A i, j \in 1 .. n : T(i) \in Nat /\ (T(i) < T(j) <=> i < j)
    <3> TAKE i, j \in 1 .. n
    <3>1. rows[i].group = 1 /\ rows[j].group = 1 /\ rows[i] \in Rows /\ rows[j] \in Rows
      <4>1. i \in DOMAIN rows /\ j \in DOMAIN rows
        BY <2>1
      <4>2. \A k \in DOMAIN rows : rows[k].group = 1
        BY DEF RatesInv
      <4>3. \A k \in DOMAIN rows : rows[k] \in Rows
        BY DEF ReadsTypeOK
      <4> QED BY <4>1, <4>2, <4>3
    <3>2. T(i) \in Nat /\ T(j) \in Nat
      BY <3>1, ReadsAssumption DEF Rows, TimeOf
    <3>3. (i < j => T(i) < T(j)) /\ (j < i => T(j) < T(i))
      BY <2>1, <3>1 DEF BarsInv, IsCalculation, Chronological, TimeOf
    <3> QED BY <2>1, <3>2, <3>3
  <2> HIDE DEF T, n, m, w
  <2>4. ASSUME NEW a \in 1 .. n, NEW b \in 1 .. n
        PROVE  /\ {j \in 1 .. n : T(a) <= T(j) /\ T(j) < T(b)} = a .. b - 1
               /\ Cardinality(a .. b - 1) = IF a > b - 1 THEN 0 ELSE b - a
    <3>1. \A j \in 1 .. n : T(a) <= T(j) /\ T(j) < T(b) <=> a <= j /\ j <= b - 1
      BY <2>1, <2>3
    <3>2. Cardinality(a .. b - 1) = IF a > b - 1 THEN 0 ELSE b - 1 - a + 1
      BY <2>1, FS_Interval
    <3> QED BY <2>1, <3>1, <3>2
  <2>5. ASSUME NEW r \in Rates
        PROVE  Cardinality({j \in DOMAIN rows : r[2] <= TimeOf(j) /\ TimeOf(j) < r[1]}) = w
    <3>1. PICK k \in w + 1 .. m : r = <<T(Candles[k]), T(Candles[k - w])>>
      BY DEF Rates, T, m, w
    <3>2. k \in 1 .. m /\ k - w \in 1 .. m /\ k \in 1 .. n /\ k - w \in 1 .. n
      BY <2>1, <2>2, <3>1
    <3>3. r[1] = T(k) /\ r[2] = T(k - w)
      BY <2>2, <3>1, <3>2
    <3>4. {j \in 1 .. n : T(k - w) <= T(j) /\ T(j) < T(k)} = (k - w) .. k - 1
          /\ Cardinality((k - w) .. k - 1) = IF k - w > k - 1 THEN 0 ELSE k - (k - w)
      BY <2>4, <3>2
    <3>5. Cardinality((k - w) .. k - 1) = w
      BY <2>1, <3>2, <3>4
    <3> QED BY <2>1, <3>3, <3>4, <3>5 DEF T
  <2>6. ASSUME NEW i \in first, NEW earlier,
               earlier = {j \in DOMAIN rows : TimeOf(j) < TimeOf(i)},
               Cardinality(earlier) \in w .. w + request.points - 1,
               \A j \in earlier :
                    Cardinality({k \in earlier : TimeOf(j) <= TimeOf(k)}) = w => rows[j].close # 0
        PROVE  \E r \in Rates : r[1] = TimeOf(i)
    <3>1. i \in 1 .. n /\ i \in Nat
      BY <2>1, <2>2
    <3>2. earlier = 1 .. i - 1
      BY <2>1, <2>3, <2>6, <3>1 DEF T
    <3>3. Cardinality(earlier) = i - 1
      BY <2>1, <3>1, <3>2, FS_Interval
    <3>4. i - 1 \in w .. w + request.points - 1 /\ i - w \in 1 .. i - 1 /\ i - w \in 1 .. n
      BY <2>1, <2>6, <3>1, <3>3
    <3>5. i \in w + 1 .. m /\ i <= w + request.points
      BY <2>1, <2>2, <3>1, <3>4
    <3>6. {k \in earlier : T(i - w) <= T(k)} = (i - w) .. i - 1
      <4>1. \A k \in 1 .. i - 1 : k \in 1 .. n /\ (T(i - w) <= T(k) <=> i - w <= k)
        <5> TAKE k \in 1 .. i - 1
        <5>1. k \in 1 .. n /\ i - w \in 1 .. n /\ k \in Int /\ i - w \in Int
          BY <2>1, <3>1, <3>4
        <5>2. T(k) \in Nat /\ T(i - w) \in Nat /\ (T(k) < T(i - w) <=> k < i - w)
          BY <2>3, <5>1
        <5> QED BY <5>1, <5>2
      <4>2. \A k : k \in 1 .. i - 1 /\ i - w <= k <=> k \in (i - w) .. i - 1
        BY <2>1, <3>1, <3>4
      <4>3. \A k : k \in earlier /\ T(i - w) <= T(k) <=> k \in (i - w) .. i - 1
        BY <3>2, <4>1, <4>2
      <4> QED BY <4>3
    <3>7. Cardinality((i - w) .. i - 1) = w
      BY <2>1, <2>4, <3>1, <3>4
    <3>8. rows[i - w].close # 0
      BY <2>6, <3>2, <3>4, <3>6, <3>7 DEF T
    <3>9. Candles[i] = i /\ Candles[i - w] = i - w
      BY <2>1, <2>2, <3>4, <3>5
    <3>10. <<T(i), T(i - w)>> \in Rates
      BY <3>5, <3>8, <3>9 DEF Rates, T, m, w
    <3> QED BY <3>10 DEF T
  <2> QED BY <2>5, <2>6 DEF RatesLookBackAWindow, w
<1>2. ReadsInit => ReadsTypeOK /\ BarsInv /\ RatesInv
  BY ReadsTypeInit, BarsInit, RatesInit
<1>3. ReadsTypeOK /\ BarsInv /\ RatesInv /\ [ReadsNext]_readVars
            => (ReadsTypeOK /\ BarsInv /\ RatesInv)'
  BY ReadsTypeStep, BarsStep, RatesStep
<1> QED BY <1>1, <1>2, <1>3, PTL DEF ReadsSpec

-----------------------------------------------------------------------------
(* Correlations. *)

\* A finite set of numbers can be listed in increasing order, and every such list
\* has all of them.
LEMMA IncreasingLists ==
    ASSUME NEW S \in SUBSET Nat, IsFiniteSet(S)
    PROVE  /\ Cardinality(S) \in Nat
           /\ \E s \in [1 .. Cardinality(S) -> S] : \A i, j \in DOMAIN s : i < j => s[i] < s[j]
           /\ \A s \in [1 .. Cardinality(S) -> S] :
                (\A i, j \in DOMAIN s : i < j => s[i] < s[j]) =>
                    \A t \in S : \E k \in 1 .. Cardinality(S) : s[k] = t
<1> DEFINE c == Cardinality(S)
           R == {p \in S \X S : p[1] < p[2]}
           rank == [x \in S |-> Cardinality(Below(R, S, x))]
<1>1. \A x, y \in S : <<x, y>> \in R <=> x < y
  OBVIOUS
<1>2. Orders(R, S)
  <2>1. \A x \in S : x \in Nat
    OBVIOUS
  <2> HIDE DEF R
  <2> QED BY <1>1, <2>1 DEF Orders
<1> HIDE DEF R
<1>3. /\ c \in Nat
      /\ rank \in Bijection(S, 0 .. c - 1)
      /\ \A x, y \in S : <<x, y>> \in R => rank[x] < rank[y]
  <2>1. /\ Cardinality(S) \in Nat
        /\ [x \in S |-> Cardinality(Below(R, S, x))] \in Bijection(S, 0 .. Cardinality(S) - 1)
        /\ \A x, y \in S : <<x, y>> \in R =>
                Cardinality(Below(R, S, x)) < Cardinality(Below(R, S, y))
    BY ONLY <1>2, IsFiniteSet(S), RanksAreFilled
  <2> QED BY <2>1
<1> HIDE DEF rank
<1>4. \A k \in 0 .. c - 1 : \E x \in S : rank[x] = k
  BY <1>3 DEF Bijection, Surjection
<1>5. \E s \in [1 .. c -> S] : \A i, j \in DOMAIN s : i < j => s[i] < s[j]
  <2> DEFINE s == [k \in 1 .. c |-> CHOOSE x \in S : rank[x] = k - 1]
  <2>1. \A k \in 1 .. c : s[k] \in S /\ rank[s[k]] = k - 1
    <3> TAKE k \in 1 .. c
    <3>1. k - 1 \in 0 .. c - 1
      BY <1>3
    <3>2. \E x \in S : rank[x] = k - 1
      BY <1>4, <3>1
    <3> QED BY <3>2
  <2>2. s \in [1 .. c -> S] /\ DOMAIN s = 1 .. c
    BY <2>1
  <2> HIDE DEF s
  <2>3. \A i, j \in 1 .. c : i < j => s[i] < s[j]
    <3> TAKE i, j \in 1 .. c
    <3> HAVE i < j
    <3>1. /\ s[i] \in S /\ s[j] \in S /\ rank[s[i]] = i - 1 /\ rank[s[j]] = j - 1
          /\ s[i] \in Nat /\ s[j] \in Nat
      BY <2>1
    <3>2. i \in Nat /\ j \in Nat
      BY <1>3
    <3>3. ASSUME s[j] < s[i] PROVE FALSE
      <4>1. rank[s[j]] < rank[s[i]]
        BY <1>1, <1>3, <3>1, <3>3
      <4> QED BY <3>1, <3>2, <4>1
    <3>4. s[i] # s[j]
      BY <3>1, <3>2
    <3> QED BY <3>1, <3>3, <3>4
  <2> QED BY <2>2, <2>3
<1>6. ASSUME NEW s \in [1 .. c -> S], \A i, j \in DOMAIN s : i < j => s[i] < s[j]
      PROVE  \A t \in S : \E k \in 1 .. c : s[k] = t
  <2>1. \A i, j \in 1 .. c : i # j => s[i] # s[j]
    <3> TAKE i, j \in 1 .. c
    <3> HAVE i # j
    <3>1. i \in Nat /\ j \in Nat /\ s[i] \in S /\ s[j] \in S
      BY <1>3
    <3>2. i < j \/ j < i
      BY <3>1
    <3>3. s[i] \in Nat /\ s[j] \in Nat /\ (i < j => s[i] < s[j]) /\ (j < i => s[j] < s[i])
      BY <1>6, <3>1
    <3> QED BY <3>2, <3>3
  <2>2. s \in Injection(1 .. c, S)
    BY <2>1 DEF Injection, IsInjective
  <2>3. IsFiniteSet(1 .. c) /\ Cardinality(1 .. c) = c
    BY <1>3, FS_Interval
  <2>4. s \in Surjection(1 .. c, S)
    BY <2>2, <2>3, FS_Injection
  <2> QED BY <2>4 DEF Surjection
<1> QED BY <1>3, <1>5, <1>6

\* The times of a symbol's stored bars, and of those a calculation has.
TimesOf(g) == {TimeOf(i) : i \in InGroup(g)}
TimesIn(g) == {TimeOf(series[g][i]) : i \in DOMAIN series[g]}

\* What has been read of a symbol is all it had up to some time.
LEMMA TimesReadAreEarly ==
    ASSUME ReadsTypeOK, BarsInv, IsCalculation, NEW g \in DOMAIN series
    PROVE  /\ TimesIn(g) \subseteq TimesOf(g)
           /\ TimesOf(g) \subseteq Nat /\ IsFiniteSet(TimesIn(g))
           /\ \A t \in TimesOf(g) : \A u \in TimesIn(g) : t < u => t \in TimesIn(g)
<1> DEFINE s == series[g]
<1>1. s \in Seq(DOMAIN rows) /\ DOMAIN rows = 1 .. Len(rows) /\ Len(rows) \in Nat
  BY DEF ReadsTypeOK
<1>2. TimesIn(g) = {TimeOf(x) : x \in ToSet(s)}
  BY DEF TimesIn, ToSet
<1>3. /\ ToSet(s) \subseteq InGroup(g)
      /\ \A x \in ToSet(s) : \A y \in InGroup(g) : y < x => y \in ToSet(s)
  BY DEF BarsInv, Beginning
<1>4. \A x \in InGroup(g) : x \in DOMAIN rows /\ x \in Nat /\ TimeOf(x) \in Nat
  <2> TAKE x \in InGroup(g)
  <2>1. x \in DOMAIN rows /\ x \in Nat
    BY <1>1 DEF InGroup
  <2>2. rows[x] \in Rows
    BY <2>1 DEF ReadsTypeOK
  <2> QED BY <2>1, <2>2, ReadsAssumption DEF Rows, TimeOf
<1>5. \A x, y \in InGroup(g) : x < y => TimeOf(x) < TimeOf(y)
  BY DEF BarsInv, Chronological, InGroup, TimeOf
<1>6. IsFiniteSet(TimesIn(g))
  <2>1. IsFiniteSet(DOMAIN rows)
    BY <1>1, FS_Interval
  <2>2. IsFiniteSet(ToSet(s))
    BY <1>3, <2>1, FS_Subset DEF InGroup
  <2>3. IsFiniteSet({TimeOf(x) : x \in ToSet(s)})
    <3> DEFINE T == {TimeOf(x) : x \in ToSet(s)}
               time == [x \in ToSet(s) |-> TimeOf(x)]
    <3>1. time \in Surjection(ToSet(s), T)
      BY DEF Surjection
    <3> HIDE DEF T, time
    <3>2. IsFiniteSet(T)
      BY <2>2, <3>1, FS_Surjection
    <3> QED BY <3>2 DEF T
  <2> QED BY <1>2, <2>3
<1>7. ASSUME NEW t \in TimesOf(g), NEW u \in TimesIn(g), t < u
      PROVE  t \in TimesIn(g)
  <2>1. PICK y \in InGroup(g) : t = TimeOf(y)
    BY DEF TimesOf
  <2>2. PICK x \in ToSet(s) : u = TimeOf(x)
    BY <1>2
  <2>3. x \in InGroup(g)
    BY <1>3
  <2>4. y < x
    BY <1>4, <1>5, <1>7, <2>1, <2>2, <2>3
  <2> QED BY <1>2, <1>3, <2>1, <2>4
<1>8. TimesIn(g) \subseteq TimesOf(g)
  BY <1>2, <1>3 DEF TimesOf
<1>9. TimesOf(g) \subseteq Nat
  BY <1>4 DEF TimesOf
<1> QED BY <1>6, <1>7, <1>8, <1>9

(* Each correlation is over `window` bars in a row that both symbols have,     *)
(* though other threads insert bars between the two statements and between two *)
(* rows of each (mca_handler.cpp:76-130): for any bars, windows and limits.    *)
THEOREM CorrelationsAreWhole == ReadsSpec => []CorrelationsHaveNoHoles
<1>1. ReadsTypeOK /\ BarsInv => CorrelationsHaveNoHoles
  <2> SUFFICES ASSUME ReadsTypeOK, BarsInv, at = "done", request.kind = "mca",
                      NEW n \in DOMAIN Correlations
               PROVE  ToSet(Correlations[n]) =
                        {t \in TimesOf(1) \cap TimesOf(2) :
                            Correlations[n][1] <= t /\ t <= Last(Correlations[n])}
    BY DEF CorrelationsHaveNoHoles, TimesOf, InGroup
  <2> DEFINE w == request.window
             s == Aligned
             c == Cardinality(SharedTimes)
             a == n - w + 1
             Shared == TimesOf(1) \cap TimesOf(2)
             window == Correlations[n]
  <2>1. IsCalculation /\ DOMAIN series = {1, 2} /\ w \in Nat \ {0}
    BY KindsOfRequest DEF ReadsTypeOK, IsCalculation
  <2>2. SharedTimes = TimesIn(1) \cap TimesIn(2)
    BY DEF SharedTimes, TimesIn
  <2>3. /\ SharedTimes \subseteq Shared /\ Shared \subseteq Nat /\ IsFiniteSet(SharedTimes)
        /\ \A t \in Shared : \A u \in SharedTimes : t < u => t \in SharedTimes
    <3>1. IsFiniteSet(TimesIn(1) \cap TimesIn(2))
      BY <2>1, TimesReadAreEarly, FS_Subset
    <3> QED BY <2>1, <2>2, <3>1, TimesReadAreEarly
  <2>4. /\ c \in Nat
        /\ s \in [1 .. c -> SharedTimes] /\ \A i, j \in DOMAIN s : i < j => s[i] < s[j]
        /\ \A t \in SharedTimes : \E k \in 1 .. c : s[k] = t
    <3>1. SharedTimes \in SUBSET Nat
      BY <2>3
    <3>2. \E q \in [1 .. c -> SharedTimes] : \A i, j \in DOMAIN q : i < j => q[i] < q[j]
      BY <2>3, <3>1, IncreasingLists
    <3>3. s \in [1 .. c -> SharedTimes] /\ \A i, j \in DOMAIN s : i < j => s[i] < s[j]
      BY <3>2 DEF Aligned
    <3> HIDE DEF s
    <3> QED BY <2>3, <3>1, <3>3, IncreasingLists
  <2>5. s \in Seq(SharedTimes) /\ Len(s) = c /\ DOMAIN s = 1 .. c
    BY <2>4
  <2>6. n \in w .. c /\ window = SubSeq(s, a, n)
    BY <2>5 DEF Correlations
  <2> HIDE DEF s, c, w
  <2>7. a \in 1 .. c /\ n \in 1 .. c /\ a <= n
    BY <2>1, <2>4, <2>6
  <2>8. /\ window \in Seq(SharedTimes) /\ Len(window) = w
        /\ DOMAIN window = 1 .. w
        /\ \A k \in 1 .. w : window[k] = s[a + k - 1]
    <3>1. /\ SubSeq(s, a, n) \in Seq(SharedTimes)
          /\ Len(SubSeq(s, a, n)) = n - a + 1
          /\ \A k \in 1 .. n - a + 1 : SubSeq(s, a, n)[k] = s[a + k - 1]
      BY <2>4, <2>5, <2>7
    <3>2. n - a + 1 = w
      BY <2>1, <2>4, <2>7
    <3> QED BY <2>1, <2>6, <3>1, <3>2
  <2>9. window[1] = s[a] /\ Last(window) = s[n]
    <3>1. a + 1 - 1 = a /\ a + w - 1 = n /\ 1 \in 1 .. w /\ w \in 1 .. w
      BY <2>1, <2>4, <2>7
    <3> QED BY <2>8, <3>1 DEF Last
  <2>10. ToSet(window) = {s[k] : k \in a .. n}
    <3>1. \A k \in 1 .. w : a + k - 1 \in a .. n
      BY <2>1, <2>4, <2>7
    <3>2. \A k \in a .. n : k - a + 1 \in 1 .. w /\ a + (k - a + 1) - 1 = k
      <4> TAKE k \in a .. n
      <4>1. a \in Int /\ n \in Int /\ k \in Int /\ w \in Int /\ a <= k /\ k <= n /\ n = a + w - 1
        BY <2>1, <2>4, <2>7
      <4> HIDE DEF a
      <4> QED BY <4>1
    <3> HIDE DEF window, a
    <3>3. ToSet(window) = {window[k] : k \in 1 .. w}
      BY <2>8 DEF ToSet
    <3>4. \A x \in ToSet(window) : x \in {s[k] : k \in a .. n}
      BY <2>8, <3>1, <3>3
    <3>5. \A x \in {s[k] : k \in a .. n} : x \in ToSet(window)
      <4> TAKE x \in {s[k] : k \in a .. n}
      <4>1. PICK k \in a .. n : x = s[k]
        OBVIOUS
      <4>2. window[k - a + 1] = s[k]
        BY <2>8, <3>2
      <4> QED BY <3>2, <3>3, <4>1, <4>2
    <3> QED BY <3>4, <3>5
  <2> HIDE DEF window, a, Shared
  <2>11. \A i, j \in 1 .. c : /\ s[i] \in Nat /\ s[i] \in SharedTimes
                              /\ s[i] <= s[j] <=> i <= j
    <3> TAKE i, j \in 1 .. c
    <3>1. /\ s[i] \in SharedTimes /\ s[j] \in SharedTimes /\ i \in Nat /\ j \in Nat
          /\ SharedTimes \subseteq Nat
      BY <2>3, <2>4
    <3>2. (i < j => s[i] < s[j]) /\ (j < i => s[j] < s[i]) /\ (i = j => s[i] = s[j])
      BY <2>4, <2>5
    <3>3. s[i] \in Nat /\ s[j] \in Nat
      BY <3>1
    <3>4. s[i] <= s[j] <=> i <= j
      BY <3>1, <3>2, <3>3
    <3> QED BY <3>1, <3>3, <3>4
  <2>12. ASSUME NEW x \in {s[k] : k \in a .. n}
         PROVE  x \in Shared /\ s[a] <= x /\ x <= s[n]
    <3>1. PICK k \in a .. n : x = s[k]
      OBVIOUS
    <3>2. k \in 1 .. c /\ a <= k /\ k <= n
      BY <2>4, <2>7
    <3> QED BY <2>3, <2>7, <2>11, <3>1, <3>2
  <2>13. ASSUME NEW t \in Shared, s[a] <= t, t <= s[n]
         PROVE  t \in {s[k] : k \in a .. n}
    <3>1. t \in SharedTimes
      BY <2>3, <2>7, <2>11, <2>13
    <3>2. PICK k \in 1 .. c : s[k] = t
      BY <2>4, <3>1
    <3>3. a <= k /\ k <= n
      BY <2>7, <2>11, <2>13, <3>2
    <3>4. k \in a .. n
      BY <2>4, <2>7, <3>2, <3>3
    <3> QED BY <3>2, <3>4
  <2>14. ToSet(window) = {t \in Shared : window[1] <= t /\ t <= Last(window)}
    BY <2>9, <2>10, <2>12, <2>13
  <2> QED BY <2>14 DEF window, Shared
<1>2. ReadsInit => ReadsTypeOK /\ BarsInv
  BY ReadsTypeInit, BarsInit
<1>3. ReadsTypeOK /\ BarsInv /\ [ReadsNext]_readVars => (ReadsTypeOK /\ BarsInv)'
  BY ReadsTypeStep, BarsStep
<1> QED BY <1>1, <1>2, <1>3, PTL DEF ReadsSpec
=============================================================================
