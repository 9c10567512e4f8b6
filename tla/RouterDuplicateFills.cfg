SPECIFICATION Spec
CONSTANTS
    Orders <- OrderIds
    Symbols <- OneSymbol
    Details <- PaperDetails
    NoId = NoId
    Mode = "PAPER"
    Exchange = "BINANCE"
    HasClient = FALSE
    TTL = 0
    CleanupThreshold = 2
    Submissions <- PaperSubmissions
    MaxLog = 2
    MaxTime = 0
    MaxCrashes = 1
    MaxFaults = 1
INVARIANTS
    NoDuplicateFills
CHECK_DEADLOCK FALSE
