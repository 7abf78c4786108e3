SPECIFICATION DriverSpec
CONSTANTS
    LengthMax = 1
    LengthMin <- MCLengthMin
    SuccessTolerance = 2
    FailureTolerance = 1
    Values <- MCThreeValues
    Huge <- MCHuge
    NaN = NaN
    Nowhere = Nowhere
    Missing = Missing
    NoGradient = NoGradient
    Worst <- MCHuge
    Configs <- MCConfigs
INVARIANTS
    AskedIsPendingOrTold
    HistoriesAreLocal
    CenterIsHistoryIncumbent
    BestIsGlobal
    WaitsOnlyForPending
    DesignsAdvanceTogether
    FailuresAcceptedBeforeRestart
    BatchesRestartFresh
    DividingBatchesAreServed
ACTION_CONSTRAINT ValuesMatter
CHECK_DEADLOCK FALSE
