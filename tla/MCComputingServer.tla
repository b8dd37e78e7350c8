-------------------------- MODULE MCComputingServer --------------------------
(* ComputingServer on small instances. *)
EXTENDS ComputingServer

MCCandleSize == [s \in AllStrategies |-> IF s \in {"TrendFollowing", "MeanReversion"} THEN 1 ELSE 2]

MCPeriod ==
    [SMA |-> 2, EMA |-> 2, ADX |-> 2, RSI |-> 2, Bands |-> 3, Stochastic |-> 2]

Bar(low, high, close) == [low |-> low, high |-> high, close |-> close]

\* A quiet minute, a high one, a wide one that closes low.
MCBars == {Bar(3, 4, 4), Bar(5, 6, 6), Bar(2, 6, 2)}

\* None, fewer than a period, a fall, a rise.
MCHistories ==
    {<<>>, <<Bar(3, 4, 4)>>, <<Bar(5, 6, 6), Bar(3, 5, 4), Bar(2, 4, 3)>>,
     <<Bar(2, 3, 3), Bar(3, 4, 4)>>}

MCPasts == {<<>>, <<3>>, <<5, 3>>}

Volumed(low, high, close, volume) ==
    [low |-> low, high |-> high, close |-> close, volume |-> volume]

\* A gap up in which nothing is traded, and a wide fall.
MCGiven == {Volumed(3, 4, 4, 1), Volumed(5, 6, 6, 0), Volumed(2, 6, 2, 2)}
=============================================================================
