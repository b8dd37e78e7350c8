SPECIFICATION StoreSpec
CONSTANTS
    Workers = {w1}
    c1 = c1
    c2 = c2
    momentum = momentum
    reversal = reversal
    listed = listed
    unlisted = unlisted
    ClientIds = {c1, c2}
    StrategyNames = {momentum, reversal}
    Tickers = {listed, unlisted}
    Listed = {listed}
    Requests <- MCRequests
    StatementsMayFail = FALSE
    OtherIds = {}
    MaxSignals = 1
    None = None
INVARIANT
    CancellableOrdersAreCancelled
