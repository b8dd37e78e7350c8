SPECIFICATION Spec
CONSTANTS
    Threads = {t1, t2}
    OrderIds = {o1, o2, o3}
    Prices = {1, 2}
    Quantities = {1, 2}
    QuantityRange = 4
    None = None
SYMMETRY Symmetry
\* A thread that waits for itself, and those behind it, stop for good.
CHECK_DEADLOCK FALSE
INVARIANTS
    TypeOK
    IndexConsistent
    NotCrossedAtRest
    TradesWalkTheBook
    TakerAccounted
    ReportsMatchIndex
PROPERTY
    ImplementsPriceTimePriority
