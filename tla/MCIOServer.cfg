SPECIFICATION ServerSpec
CONSTANTS
    Workers = {w1}
    c1 = c1
    listed = listed
    ClientIds = {c1}
    StrategyNames = {}
    Tickers = {listed}
    Listed = {listed}
    Requests <- MCRequests
    Messages <- MCMessages
    Wellformed <- MCWellformed
    StatementsMayFail = TRUE
    OtherIds = {}
    MaxSignals = 0
    MaxDeliveries = 3
    None = None
INVARIANT
    MarksTellTheTruth
    EveryMessageIsAudited
    StoredOncePerDelivery
