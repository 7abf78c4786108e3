SPECIFICATION Spec
CONSTANTS
    LengthMax = 1
    LengthMin <- MCLengthMin
    SuccessTolerance = 2
    FailureTolerance = 1
    Values <- MCValues
    Huge <- MCHuge
    NaN = NaN
    Nowhere = Nowhere
    Missing = Missing
    NoGradient = NoGradient
    Worst <- MCHuge
    Configs <- MCOneRegion
INVARIANT FailuresAreAccepted
CHECK_DEADLOCK FALSE
