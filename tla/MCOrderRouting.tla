--------------------------- MODULE MCOrderRouting ---------------------------
(* Four orders, whole or divisible by three with a remainder, and a queue that  *)
(* is full with one order: the wrap of a difference is one order away.          *)
EXTENDS OrderRouting
=============================================================================
