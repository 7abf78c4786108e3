SPECIFICATION Spec
CONSTANTS
    NWorkers = 2
    MaxAttempts = 3
    Points = {p1}
    Origin = p0
    Values <- MCValues
    Costs <- MCCosts
    MaxDispatches = 3
INVARIANTS
    Conservation
    RetryBounds
PROPERTIES
    ImplementsLedger
CHECK_DEADLOCK FALSE
