------------------------------- MODULE FeedBot -------------------------------
(***************************************************************************)
(* TestBOT is both a Bot and a WebSocket: processMessage of QuoteBot runs  *)
(* inside on_read of its market-data session, on the thread of the         *)
(* io_context.  The next read is asked for only when processMessage has    *)
(* returned, so the session is deaf while the order book is at work.       *)
(***************************************************************************)
EXTENDS QuoteBot, MarketDataSession

ASSUME FeedAssumption ==
    \A f \in Frames : \A m \in Range(f.messages) : m.type = "q" => m.quote \in Quotes

feedVars == <<systemVars, sessionVars>>

FeedInit == BotInit /\ SessionInit

\* processMessage handles quotes; it prints trades and ignores what is left, a
\* value that is no object and a quote it cannot convert included.
FeedReads(f) ==
    /\ OnRead(f)
    /\ IF handed' # handed /\ Last(handed').type = "q"
       THEN OnQuote(Last(handed').quote)
       ELSE UNCHANGED systemVars

FeedReturns ==
    /\ stage = "done"
    /\ FeedFree
    /\ HandlerReturns
    /\ UNCHANGED systemVars

\* Steps of the thread inside processMessage.
FeedHandles ==
    /\ AddAtAsk \/ AddAtBid \/ RunStrategy \/ Inside
    /\ UNCHANGED sessionVars

FeedNext ==
    \/ Chain /\ UNCHANGED systemVars
    \/ \E f \in Frames : FeedReads(f)
    \/ FeedHandles
    \/ FeedReturns

FeedSpec == FeedInit /\ [][FeedNext]_feedVars

\* The thread runs on while it is inside a handler; the server and the network
\* owe nothing.
FeedFairSpec == FeedSpec /\ WF_feedVars(FeedHandles \/ FeedReturns)

-----------------------------------------------------------------------------
(* Properties. *)

(* The bot listens again after everything it was sent, unless the empty level   *)
(* of the order book keeps the thread for good (Websocket.cpp:225, 238-241).    *)
ListensAgain == handling = "on_read" ~> reads = 1 \/ TurnsOverEmptyLevel
=============================================================================
