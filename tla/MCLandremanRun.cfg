SPECIFICATION FairRunSpec
CONSTANTS
    Budget = 4
    Workers = 3
    Initial = 2
    MayAbort = TRUE
INVARIANTS
    RanksInStep
    LedgerIsWhatWasTold
PROPERTIES
    EveryRankEnds
CHECK_DEADLOCK FALSE
