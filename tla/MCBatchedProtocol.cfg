SPECIFICATION FairSpec
CONSTANTS
    Budget = 6
    Batch = 3
    NRegions = 1
    MayAbort = TRUE
INVARIANTS
    LedgerMatchesDriver
    EndsForACause
PROPERTIES
    BothEnd
CHECK_DEADLOCK FALSE
