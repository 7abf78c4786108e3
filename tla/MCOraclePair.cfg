SPECIFICATION FairSpec
CONSTANTS
    SystemFails = TRUE
INVARIANTS
    CompletePairsAreComparable
    FailedPairsAreRecorded
    NothingOutlivesThePair
PROPERTIES
    FailureEndsThePair
CHECK_DEADLOCK FALSE
