------------------------------ MODULE MCFeedBot ------------------------------
(* FeedBot on small instances. *)
EXTENDS FeedBot, TLC

Quote(bid, ask, bidQuantity, askQuantity) ==
    [bid |-> bid, ask |-> ask, bidQuantity |-> bidQuantity, askQuantity |-> askQuantity]

\* Around the strategy's own quote, with and without size on a side.  The
\* fractions are lost by the conversion to Price.
MCStream ==
    {Quote(20, 40, 1, 2), Quote(45, 79, 2, 1), Quote(45, 60, 2, 0), Quote(20, 40, 0, 1)}

MCMakerQuote == Quote(20, 60, 2, 2)
MCMakerQuotes == {MCMakerQuote}

Array(messages) == [form |-> "array", messages |-> messages]
Success(msg) == [type |-> "success", msg |-> msg]
Quoted(q) == [type |-> "q", quote |-> q]

\* Single messages, an authentication reply and a quote behind another message,
\* an element that is no object, and frames that are no arrays.
MCFrames ==
    {Array(<<Quoted(q)>>) : q \in MCStream}
    \cup {Array(<<Success("connected"), Success("authenticated")>>),
          Array(<<Success("authenticated"), Quoted(Quote(20, 40, 1, 2))>>),
          Array(<<[type |-> "text"]>>),
          [form |-> "value", messages |-> <<>>]}
=============================================================================
