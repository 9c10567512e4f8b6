SPECIFICATION FairSpec
CONSTANTS
    Orders <- OrderIds
    Symbols <- OneSymbol
    Details <- RealDetails
    NoId = NoId
    Mode = "REAL"
    Exchange = "BINANCE"
    HasClient = TRUE
    TTL = 0
    CleanupThreshold = 2
    Submissions <- RealSubmissions
    MaxLog = 2
    MaxTime = 1
    MaxCrashes = 1
    MaxFaults = 1
INVARIANTS
    PlacedOncePerWindow
PROPERTIES
    EveryRecordCommitted
CHECK_DEADLOCK FALSE
