SPECIFICATION RoutingFairSpec
CONSTANTS
    Policies = {"RoundRobin", "Equalizer", "Latency_Based", "Liquidity_Based"}
    Quantities = {1, 4}
    MaxOrders = 4
    FastLimit = 0
    Gap = 1
    SizeRange = 8
INVARIANTS
    NobodyBlocksInPop
    QuantityConserved
    PlacedByPolicy
PROPERTIES
    WrapsToTheLonger
    EveryOrderIsTried
CHECK_DEADLOCK FALSE
