------------------------------ MODULE BackTester ------------------------------
(***************************************************************************)
(* BackTester of Backtesting-Bot/bot.cpp: it loads a month of daily closes, *)
(* runs two averages over the days after it, keeps the money of the trades  *)
(* they make and draws a chart.  One thread, no stop.                       *)
(*                                                                         *)
(* A price is a whole number of ticks, TicksPerUnit to the unit of money.  *)
(* Amount and Holding are ints: what a double assigned to them has behind  *)
(* the point is lost.  The prices of the service are above zero.           *)
(***************************************************************************)
EXTENDS Indicators, FiniteSets

CONSTANTS
    Pasts,          \* what initialize may be given: sequences of closes, empty if the request failed
    Prices,         \* closes of the days run goes through
    MaxDays,        \* how many days: a bound
    AveragePeriod,  \* period_SMA and period_EMA: 12 in the code
    Cash,           \* Amount at the start: 1000 in the code
    TicksPerUnit,
    Labels,         \* labels the chart is to have: 10 in the code
    MaxLabels       \* and those there is memory for

ASSUME TesterAssumption ==
    /\ Prices \subseteq Nat \ {0} /\ Pasts \subseteq Seq(Prices)
    /\ MaxDays \in Nat /\ Cash \in Nat
    /\ AveragePeriod \in Nat \ {0} /\ TicksPerUnit \in Nat \ {0}
    /\ Labels \in Nat \ {0} /\ MaxLabels >= 2 * Labels

VARIABLES
    phase,       \* how far the back-tester has got
    days,        \* historicalData: a close each
    marks,       \* buyPoints and sellPoints: of each day, what was done
    Amount, Holding,
    holds,       \* positionOpen
    entry,       \* history: the price of the last purchase
    exact,       \* history: the money, in ticks, if nothing were lost
    labels, at   \* plotResults: the labels so far, and the index of the next

moneyVars == <<Amount, Holding, holds, entry, exact>>
chartVars == <<labels, at>>
testerVars == <<phase, days, marks, moneyVars, chartVars>>

TesterInit ==
    /\ phase = "built"
    /\ days = <<>> /\ marks = <<>>
    /\ Amount = Cash /\ Holding = 0 /\ holds = FALSE
    /\ entry = 0 /\ exact = Cash * TicksPerUnit
    /\ labels = 0 /\ at = 0

\* initialize: an exception is caught, and leaves no days.
LoadPast(past) ==
    /\ phase = "built"
    /\ days' = [i \in DOMAIN past |-> [close |-> past[i]]]
    /\ marks' = [i \in DOMAIN past |-> "none"]
    /\ phase' = "loaded"
    /\ UNCHANGED <<moneyVars, chartVars>>

\* run: the request fails or is answered with no days, or the answer makes the parser
\* throw, which nothing in run catches.
Fetch ==
    /\ phase = "loaded"
    /\ phase' \in {"running", "thrown"}
    /\ UNCHANGED <<days, marks, moneyVars, chartVars>>

\* SMA throws when there are too few closes, and the day goes by without a trade.
\* Below, h is the history with the new day.
Rises(h) == Len(h) >= AveragePeriod /\ EmaAboveSma(h, AveragePeriod, AveragePeriod)
Falls(h) == Len(h) >= AveragePeriod /\ EmaBelowSma(h, AveragePeriod, AveragePeriod)

\* Faulty: the shares stay after the sale.
StaysHolding == Holding
AfterSale == 0

Buy(price) ==
    LET n == Holding + (Amount * TicksPerUnit) \div price
    IN  /\ Holding' = n
        /\ Amount' = (Amount * TicksPerUnit - price * n) \div TicksPerUnit
        /\ exact' = exact - price * n
        /\ entry' = price
        /\ holds' = TRUE

Sell(price) ==
    /\ Amount' = (Amount * TicksPerUnit + price * Holding) \div TicksPerUnit
    /\ exact' = exact + price * Holding
    /\ Holding' = AfterSale
    /\ holds' = FALSE
    /\ UNCHANGED entry

Day(price) ==
    LET h == Append(days, [close |-> price])
        action == IF ~holds /\ Rises(h) THEN "buy" ELSE IF holds /\ Falls(h) THEN "sell" ELSE "none"
    IN  /\ phase = "running"
        /\ Len(days) < MaxDays
        /\ days' = h
        /\ marks' = Append(marks, action)
        /\ \/ action = "buy" /\ Buy(price)
           \/ action = "sell" /\ Sell(price)
           \/ action = "none" /\ UNCHANGED moneyVars
        /\ UNCHANGED <<phase, chartVars>>

LastDay ==
    /\ phase = "running"
    /\ phase' = "drawing"
    /\ UNCHANGED <<days, marks, moneyVars, chartVars>>

-----------------------------------------------------------------------------
(* plotResults *)

\* Faulty: the step is rounded up.
StepAbove == Len(days) \div Labels + 1
Step == Len(days) \div Labels

PutLabel ==
    /\ phase = "drawing"
    /\ at < Len(days) /\ labels < MaxLabels
    /\ labels' = labels + 1
    /\ at' = at + Step
    /\ UNCHANGED <<phase, days, marks, moneyVars>>

\* The labels have taken all the memory: an exception, which is caught, or the end.
OutOfMemory ==
    /\ phase = "drawing"
    /\ labels = MaxLabels
    /\ phase' \in {"no chart", "killed"}
    /\ UNCHANGED <<days, marks, moneyVars, chartVars>>

Show ==
    /\ phase = "drawing"
    /\ at >= Len(days)
    /\ phase' = "shown"
    /\ UNCHANGED <<days, marks, moneyVars, chartVars>>

\* The plotting library throws, which is caught.
PlotFails ==
    /\ phase = "drawing"
    /\ phase' = "no chart"
    /\ UNCHANGED <<days, marks, moneyVars, chartVars>>

TesterNext ==
    \/ \E past \in Pasts : LoadPast(past)
    \/ Fetch
    \/ \E price \in Prices : Day(price)
    \/ LastDay
    \/ PutLabel \/ OutOfMemory \/ Show \/ PlotFails

TesterSpec == TesterInit /\ [][TesterNext]_testerVars

-----------------------------------------------------------------------------
(* Properties. *)

Made(action) == {i \in DOMAIN marks : marks[i] = action}

(* bot.cpp:137-150 of Backtesting-Bot, whatever the prices: the back-tester never    *)
(* spends what it has not, each trade loses less than one unit of money to the        *)
(* conversion to int, an open position leaves less money than one more share costs,   *)
(* a closed one leaves no share, and the chart's marks say which of the two it is.    *)
MoneyAccounted ==
    /\ 0 <= exact - TicksPerUnit * Amount
    /\ exact - TicksPerUnit * Amount
           <= (TicksPerUnit - 1) * Cardinality(Made("buy") \cup Made("sell"))
    /\ Amount >= 0 /\ Holding >= 0
    /\ holds => TicksPerUnit * Amount < entry
    /\ ~holds => Holding = 0
    /\ Cardinality(Made("buy")) = Cardinality(Made("sell")) + (IF holds THEN 1 ELSE 0)

(* bot.cpp:189-195 of Backtesting-Bot: a chart that is shown has the ten labels it is *)
(* meant to have and fewer than twenty, or no day at all; the labels run out of       *)
(* memory only with one to nine days, where the step is 0.                            *)
LabelsFit ==
    /\ phase = "shown" => days = <<>> \/ labels \in Labels .. 2 * Labels - 1
    /\ phase = "killed" => Len(days) \in 1 .. Labels - 1
=============================================================================
