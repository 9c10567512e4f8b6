SPECIFICATION FairSpec
CONSTANTS
    Buys = TRUE
    Qty = 5
    MaxCommands = 2
    MaxFills = 3
    MaxRuns = 1
    MaxFaults = 1
INVARIANTS
    TypeOK
    PositionMatchesTrades
    OrdersAreLogged
PROPERTIES
    EveryOrderTraded
CHECK_DEADLOCK FALSE
