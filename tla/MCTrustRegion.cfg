SPECIFICATION FairSpec
CONSTANTS
    LengthMax = 1
    LengthMin <- MCLengthMin
    SuccessTolerance = 2
    FailureTolerance = 3
    Values <- MCValues
    Huge <- MCHuge
    NaN = NaN
    Nowhere = Nowhere
    Points = {p1, p2}
    BatchSize = 2
    Observable <- MCObservable
    Tolerances <- MCTolerances
    MaxRestarts = 1
INVARIANTS
    CenterIsIncumbent
    CountersAreStreaks
PROPERTIES
    ResizeOnlyOnStreak
    EveryRegionExhausts
CHECK_DEADLOCK FALSE
