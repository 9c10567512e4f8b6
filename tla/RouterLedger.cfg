SPECIFICATION Spec
CONSTANTS
    Orders <- OrderIds
    Symbols <- OneSymbol
    Details <- PaperDetails
    NoId = NoId
    Mode = "PAPER"
    Exchange = "BINANCE"
    HasClient = FALSE
    TTL = 1
    CleanupThreshold = 2
    Submissions <- PaperSubmissions
    MaxLog = 3
    MaxTime = 1
    MaxCrashes = 0
    MaxFaults = 2
PROPERTIES
    IsOrderLedger
CHECK_DEADLOCK FALSE
