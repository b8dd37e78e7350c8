SPECIFICATION ServerSpec
CONSTANTS
    Strategies = {"TrendFollowing", "MeanReversion", "Reversal", "VolatilityBreakout", "TestBot"}
    CandleSize <- MCCandleSize
    Period <- MCPeriod
    Deviations = 1
    Bars <- MCBars
    Histories <- MCHistories
    MaxBars = 4
    Programs = {"bot", "backtest", "calls", "cci"}
    Pasts <- MCPasts
    Prices = {3, 5, 8}
    MaxDays = 7
    AveragePeriod = 2
    Cash = 10
    TicksPerUnit = 2
    Labels = 3
    MaxLabels = 6
    Kinds = {"SMA", "MA", "EMA", "RSI", "ADX", "OBV", "VWAP", "MFI", "ATR", "APO", "Stochastic", "Fibonacci", "Bands",
             "PERatio", "DividendYield"}
    PerShare = 2
    Periods = {1, 2}
    LongPeriod = 3
    Smoothings = {1, 2}
    Given <- MCGiven
    MaxGiven = 4
    MaxCalls = 3
    Excesses = {0, 1, 2, 3, 5}
    Longer = {0, 2}
    ThreadCounts = {0, 1, 2, 3}
\* main returns, the program ends, or the bound on calls is reached.
CHECK_DEADLOCK FALSE
INVARIANT
    EveryBarInOneCandle
    CrashesOnlyOnFreedMemory
    OffByMissedOrders
    AtMostOneOrderAfterStop
    SilentAtRealPrices
    MoneyAccounted
    LabelsFit
    SignalsAreSound
    GapsNeverCount
    CciRangesPartition
PROPERTY
    StopEndsRun
