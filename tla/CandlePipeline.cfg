SPECIFICATION FairSpec
CONSTANTS
    Workers <- TwoWorkers
    Candles <- ThreeCandles
    Owner <- OwnerOf
    DedupeCapacity = 1
    ChannelCapacity = 1
    BatchSize = 2
    MaxRepeats = 1
    MaxFaults = 1
    MaxCrashes = 1
INVARIANTS
    TypeOK
    AcceptedOncePerWindow
    StoredFirst
    AcceptedIsKept
    PublishedInOrder
PROPERTIES
    EveryCandlePublished
CHECK_DEADLOCK FALSE
