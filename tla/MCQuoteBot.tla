----------------------------- MODULE MCQuoteBot -----------------------------
(* QuoteBot on small instances. *)
EXTENDS QuoteBot, TLC

\* Around the strategy's own quote, with and without size on a side.  The
\* fractions are lost by the conversion to Price.
MCStream ==
    {[bid |-> 20, ask |-> 40, bidQuantity |-> 1, askQuantity |-> 2],
     [bid |-> 45, ask |-> 79, bidQuantity |-> 2, askQuantity |-> 1],
     [bid |-> 45, ask |-> 60, bidQuantity |-> 2, askQuantity |-> 0],
     [bid |-> 20, ask |-> 40, bidQuantity |-> 0, askQuantity |-> 1],
     [bid |-> 40, ask |-> 60, bidQuantity |-> 0, askQuantity |-> 0]}

MCMakerQuote == [bid |-> 20, ask |-> 60, bidQuantity |-> 2, askQuantity |-> 2]
MCMakerQuotes == {MCMakerQuote}
=============================================================================
