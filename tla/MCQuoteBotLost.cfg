SPECIFICATION BotSpec
CONSTANTS
    Threads = {feed}
    Feed = feed
    OrderIds = {0, 1, 2, 3, 4, 5, 6, 7, 8, 9, 10, 11, 12}
    Prices = {1, 2, 3}
    Quantities = {1, 2}
    QuantityRange = 4
    None = None
    MakerIds = {0, 1, 2, 3, 4, 5, 6, 7, 8, 9, 10, 11}
    MakerQuotes <- MCMakerQuotes
    MakerQuote <- MCMakerQuote
    UserCalls = {}
    Tick = 20
    HalfThreshold = 1
    PositionLimit = 3
    Clip = 2
    Quotes <- MCStream
    MaxQuotes = 3
\* The stream is cut off, and MatchOrders may never end.
CHECK_DEADLOCK FALSE
PROPERTY
    ReportedOrdersAreTaken
