SPECIFICATION FairSpec
CONSTANTS
    Threads = {t1}
    OrderIds = {o1, o2, o3}
    Prices = {1, 2}
    Quantities = {1, 2}
    QuantityRange = 4
    None = None
CHECK_DEADLOCK FALSE
PROPERTY
    EveryOrderIsAnswered
