SPECIFICATION GatewaySpec
CONSTANTS
    Orders <- OrderIds
    Symbols <- OneSymbol
    Details <- GatewayDetails
    NoId = NoId
    Mode = "PAPER"
    Exchange = "BINANCE"
    HasClient = FALSE
    TTL = 0
    CleanupThreshold = 2
    Submissions <- NoSubmissions
    MaxLog = 0
    MaxTime = 0
    MaxCrashes = 1
    MaxFaults = 1
    Tasks = {t1}
    MaxInbox = 3
    Listed = 1
INVARIANTS
    GatewayTypeOK
    CancelFollowsCreate
PROPERTIES
    FilledLostToStaleCancel
CHECK_DEADLOCK FALSE
