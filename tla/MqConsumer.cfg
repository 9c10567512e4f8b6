SPECIFICATION FairSpec
CONSTANTS
    Members = {m1, m2}
    Nobody = Nobody
    MaxRetries = 1
    HasDlq = TRUE
    HaltOnFailure = TRUE
    MaxLog = 2
    MaxMoves = 2
    MaxFaults = 1
INVARIANTS
    TypeOK
    NothingLost
PROPERTIES
    IsAtLeastOnce
    EveryRecordSettled
CHECK_DEADLOCK FALSE
