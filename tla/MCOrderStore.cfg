SPECIFICATION StoreSpec
CONSTANTS
    Workers = {w1, w2}
    c1 = c1
    c2 = c2
    momentum = momentum
    reversal = reversal
    listed = listed
    unlisted = unlisted
    ClientIds = {c1, c2}
    StrategyNames = {momentum, reversal}
    Tickers = {listed, unlisted}
    Listed = {listed}
    Requests <- MCRequests
    StatementsMayFail = TRUE
    OtherIds = {7}
    MaxSignals = 1
    None = None
SYMMETRY Symmetry
INVARIANT
    AnswersMatchTables
    OrdersAreAnsweredFor
    OwnIdUnlessOvertaken
PROPERTY
    CreatedOnce
