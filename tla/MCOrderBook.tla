----------------------------- MODULE MCOrderBook -----------------------------
(* OrderBook on small instances. *)
EXTENDS OrderBook, TLC

\* Threads and order ids are interchangeable.
Symmetry == Permutations(Threads) \cup Permutations(OrderIds)
=============================================================================
