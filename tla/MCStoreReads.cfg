SPECIFICATION ReadsSpec
CONSTANTS
    Requests <- MCRequests
    Times = {1, 2, 3, 4}
    MaxRows = 4
    \* Four bars of one symbol and three of the other: enough for one that only one has,
    \* and one that both have, between two that are shared.
    MaxBarsOfTwo = 7
    StatementsMayFail = TRUE
\* The client has what it asked for.
CHECK_DEADLOCK FALSE
INVARIANT
    ReadsMissNothing
    RatesLookBackAWindow
    CorrelationsHaveNoHoles
