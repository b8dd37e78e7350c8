---------------------------- MODULE MCStoreReads ----------------------------
(* StoreReads on small instances. *)
EXTENDS StoreReads

\* Lists in both orders with pages of one and two rows and without a limit, lookups,
\* rates of change with a limit that cuts the series, and correlations over two bars, of
\* series that the limit cuts and of whole ones.
MCRequests ==
    {get_orders(1), get_orders(2), get_ohlcv("ASC", 1), get_positions_by_strategy,
     get_order, get_latest_ohlcv,
     rca(1, 1), rca(1, 2), rca(2, 1), mca(2, 1), mca(2, 2)}
=============================================================================
