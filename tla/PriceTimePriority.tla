------------------------- MODULE PriceTimePriority -------------------------
(***************************************************************************)
(* What an order book promises its callers, with no mutex, no threads, no  *)
(* index and no price levels that come and go: every side holds one queue  *)
(* of orders per price, and a trade is always struck between the order at  *)
(* the head of the highest non-empty bid queue and the order at the head   *)
(* of the lowest non-empty ask queue, for the smaller of what the two      *)
(* still want.  This is the price-time ("FIFO") rule README.md names as    *)
(* feature 8.  Module OrderBook is shown to implement it.                  *)
(***************************************************************************)
EXTENDS Integers, SequencesExt

CONSTANTS
    OrderIds,     \* identifiers a caller may give an order
    Prices,       \* limit prices
    Quantities    \* quantities a caller may ask for

VARIABLES
    queue,        \* queue[s][p]: ids resting on side s at price p, oldest first
    open          \* open[i]: what resting order i still wants to trade

absVars == <<queue, open>>

Sides == {"Buy", "Sell"}

Init ==
    /\ queue = [s \in Sides |-> [p \in Prices |-> <<>>]]
    /\ open = [i \in {} |-> 0]

(* A new order joins the back of the queue at its price. *)
Place(s, p, i, q) ==
    /\ i \notin DOMAIN open
    /\ queue' = [queue EXCEPT ![s][p] = Append(@, i)]
    /\ open' = [j \in DOMAIN open \cup {i} |-> IF j = i THEN q ELSE open[j]]

(* No order on the bid side wants to pay more than p, none asks less. *)
BestPrice(s, p) ==
    /\ queue[s][p] # <<>>
    /\ \A r \in Prices : queue[s][r] # <<>> =>
           IF s = "Buy" THEN r <= p ELSE r >= p

(* The oldest order at the best bid trades with the oldest at the best ask; *)
(* an order that got all it wanted leaves the book.                         *)
Trade(bp, ap) ==
    LET b == Head(queue["Buy"][bp])
        a == Head(queue["Sell"][ap])
        q == IF open[b] <= open[a] THEN open[b] ELSE open[a]
        After(i, list) == IF open[i] = q THEN Tail(list) ELSE list
    IN  /\ BestPrice("Buy", bp) /\ BestPrice("Sell", ap)
        /\ bp >= ap
        /\ q > 0
        /\ queue' = [s \in Sides |->
                        IF s = "Buy"
                        THEN [queue[s] EXCEPT ![bp] = After(b, @)]
                        ELSE [queue[s] EXCEPT ![ap] = After(a, @)]]
        /\ open' = [i \in {j \in DOMAIN open : j \in {a, b} => open[j] > q} |->
                        IF i \in {a, b} THEN open[i] - q ELSE open[i]]

(* A resting order is withdrawn; the others keep their places. *)
Withdraw(s, p, k) ==
    /\ k \in DOMAIN queue[s][p]
    /\ queue' = [queue EXCEPT ![s][p] = RemoveAt(@, k)]
    /\ open' = Restrict(open, DOMAIN open \ {queue[s][p][k]})

Next ==
    \/ \E s \in Sides, p \in Prices, i \in OrderIds, q \in Quantities : Place(s, p, i, q)
    \/ \E bp, ap \in Prices : Trade(bp, ap)
    \/ \E s \in Sides, p \in Prices : \E k \in DOMAIN queue[s][p] : Withdraw(s, p, k)

Spec == Init /\ [][Next]_absVars
=============================================================================
