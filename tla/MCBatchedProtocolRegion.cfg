SPECIFICATION Spec
CONSTANTS
    Budget = 3
    Batch = 3
    NRegions = 2
    MayAbort = FALSE
INVARIANT RecordedRegionsAreValid
CHECK_DEADLOCK FALSE
