---------------------------- MODULE MCMarketMaker ----------------------------
(* MarketMaker on small instances. *)
EXTENDS MarketMaker, TLC

\* A wide quote of large sizes, and one too narrow to act on.
MCQuotes ==
    {[bid |-> 20, ask |-> 60, bidQuantity |-> 3, askQuantity |-> 1],
     [bid |-> 20, ask |-> 60, bidQuantity |-> 3, askQuantity |-> 3],
     [bid |-> 20, ask |-> 22, bidQuantity |-> 1, askQuantity |-> 1]}

\* Somebody else cancels and modifies the strategy's order, and adds orders of every
\* kind that match it, with a quantity of 0 too.
MCUserCalls ==
    [op: {"CancelOrder", "ModifyOrder"}, id: {1}]
        \cup {c \in AddCalls : c.id = 2 /\ c.quantity \in {0, 1}}
=============================================================================
