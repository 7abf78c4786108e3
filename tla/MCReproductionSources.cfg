SPECIFICATION Spec
CONSTANTS
    Jobs = {j1, j2, j3}
    MaxStarts = 3
INVARIANTS
    FetchedSourcesVerify
    ReplaysArePinned
    RefusalsAreExplained
SYMMETRY MCSymmetry
CHECK_DEADLOCK FALSE
