SPECIFICATION FairSpec
CONSTANTS
    Symbols <- TwoSymbols
    EmaFast = 1
    EmaSlow = 2
    RsiPeriod = 2
    SignalPeriod = 1
    BarsPerDay = 2
    Throttles = {0}
    MaxRetries = 1
    Feeds <- ThreeFeeds
    MaxClock = 0
    MaxFaults = 0
    MaxCrashes = 0
INVARIANTS
    MacdBitMeansValues
CHECK_DEADLOCK FALSE
