SPECIFICATION FairSpec
CONSTANTS
    Orders <- OrderIds
    NoOrder = NoOrder
    Accounts <- OneAccount
    Symbols <- OneSymbol
    Details <- TwoOrders
    NoLimit = NoLimit
    StaticLimits <- BtcLimit
    MaxNotional = 1
    Limits <- LimitValues
    MaxLog = 2
    MaxChanges = 2
    MaxRewinds = 1
    MaxFaults = 2
INVARIANTS
    TypeOK
    KillSwitchHolds
    LimitHolds
    DecisionsAreCharged
PROPERTIES
    EveryOrderDecided
CHECK_DEADLOCK FALSE
