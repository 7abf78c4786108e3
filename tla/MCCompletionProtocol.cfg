SPECIFICATION FairSpec
CONSTANTS
    Budget = 5
    Workers = 3
    Initial = 3
    MayAbort = TRUE
INVARIANTS
    LockStep
    ToldUnderItsOwnPoint
    EndsAsItDeserves
    LedgerIsAudited
PROPERTIES
    RunEnds
    RunImplementsLedger
CHECK_DEADLOCK FALSE
