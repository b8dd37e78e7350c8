---------------------------- MODULE MCOrderStore ----------------------------
(* OrderStore on small instances. *)
EXTENDS OrderStore, TLC

CONSTANTS c1, c2, momentum, reversal, listed, unlisted

Order(form, c, ticker, strategy) ==
    [op |-> "CreateOrder", form |-> form, client |-> c, ticker |-> ticker, strategy |-> strategy]

\* Orders that name a strategy before and after it is created, the same client id
\* from two threads, and every way to be refused.
MCRequests ==
    {Order("legal", c1, listed, momentum),
     Order("legal", c2, listed, momentum),
     Order("legal", c2, unlisted, None), Order("illegal", c2, listed, None),
     [op |-> "CreateSignal", form |-> "legal", ticker |-> listed, strategy |-> momentum],
     [op |-> "CreateStrategy", form |-> "legal", name |-> momentum],
     [op |-> "CreateStrategy", form |-> "legal", name |-> reversal],
     [op |-> "CreateStrategy", form |-> "malformed", name |-> momentum],
     [op |-> "CancelOrder", form |-> "legal", id |-> 1],
     [op |-> "UpdateStrategy", form |-> "illegal", id |-> 1],
     [op |-> "UpdateStrategy", form |-> "malformed", id |-> 1]}

Symmetry == Permutations(Workers)
=============================================================================
