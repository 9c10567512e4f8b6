SPECIFICATION FairSpec
CONSTANTS
    Symbols <- TwoSymbols
    EmaFast = 1
    EmaSlow = 2
    RsiPeriod = 2
    SignalPeriod = 1
    BarsPerDay = 2
    Throttles = {0, 1}
    MaxRetries = 1
    Feeds <- ThreeFeeds
    MaxClock = 1
    MaxFaults = 2
    MaxCrashes = 1
INVARIANTS
    TypeOK
    NoGap
    QualityIsExact
    VwapOfTheDay
    VectorsAreCharged
PROPERTIES
    EveryRecordAnswered
CHECK_DEADLOCK FALSE
