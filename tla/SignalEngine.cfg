SPECIFICATION Spec
CONSTANTS
    MinHistory = 2
    RollingWindow = 3
    MinAbsCorrelation = 3
    RankDecay = 85
    Winsorize = 400
    AllowedRegimes <- Allowed
    VolMinZ <- Calm
    VolMaxZ = 150
    NaN = NaN
    Symbols <- TwoSymbols
    SignalThreshold = 20
    HistoryCapacity = 4
    WeightModes = {"equal", "ranked"}
    RegimeFilters = {TRUE}
    VolFilters = {TRUE}
    Feeds <- SomeFeeds
    MaxFaults = 1
    MaxCrashes = 1
INVARIANTS
    TypeOK
    SignalOfTruePairs
    MirrorImage
    GateNeedsHistory
CHECK_DEADLOCK FALSE
