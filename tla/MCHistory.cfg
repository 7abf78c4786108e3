SPECIFICATION Spec
CONSTANTS
    Missing = Missing
    NoGradient = NoGradient
    Worst <- MCWorst
    Inputs = {x1, x2}
    Objectives <- MCObjectivesTwo
    Outcomes <- MCAnyOutcome
    Constraints <- MCConstraints
    NConstraints = 1
    MissingPolicies <- MCAllMissing
    DuplicatePolicies <- MCAllDuplicates
    MaxCalls = 3
INVARIANTS
    TrainsOnMeasuredValues
    OwedRowsArePending
    BestIndexIsEarliestMinimum
PROPERTIES
    ResumesWhatWasWritten
    RowsKeepTheirPlace
SYMMETRY MCSymmetry
CHECK_DEADLOCK FALSE
