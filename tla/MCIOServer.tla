----------------------------- MODULE MCIOServer -----------------------------
(* IOServer on small instances. *)
EXTENDS IOServer

CONSTANTS c1, listed

MCRequests ==
    {[op |-> "CreateOrder", form |-> "legal", client |-> c1, ticker |-> listed, strategy |-> None]}

\* The same trade may come again; one text parses and one does not; a ticker
\* update is stored and never marked.
trade == [channel |-> "trades", text |-> "AAPL"]
garbled == [channel |-> "trades", text |-> "?"]
ticker == [channel |-> "tickers", text |-> "AAPL"]

MCMessages == {trade, garbled, ticker}
MCWellformed == {trade, ticker}
=============================================================================
