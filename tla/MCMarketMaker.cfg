SPECIFICATION MakerFairSpec
CONSTANTS
    Threads = {t1, t2}
    OrderIds = {1, 2}
    Prices = {1, 2}
    Quantities = {0, 1, 2}
    QuantityRange = 4
    None = None
    MakerIds = {1}
    MakerQuotes <- MCQuotes
    UserCalls <- MCUserCalls
    Tick = 20
    HalfThreshold = 1
    PositionLimit = 1
    Clip = 2
\* A thread that waits for itself, and those behind it, stop for good.
CHECK_DEADLOCK FALSE
INVARIANT
    PositionInBand
PROPERTY
    MutexIsReleasedUnlessStuck
