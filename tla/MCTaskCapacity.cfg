SPECIFICATION Spec
CONSTANTS
    Executions = {e1, e2, e3}
    Branches = {b1, b2}
    Claims = {c1}
    None = None
    MaxTotal = 3
    MaxActive = 2
    MaxParallel = 1
    MaxBranches = 2
    MaxDepth = 1
    MaxRevision = 4
    DirectResume = FALSE
SYMMETRY Symmetry
INVARIANTS
    ActiveCapacityExact
    WithinLimits
PROPERTIES
    ImplementsCapacity
CHECK_DEADLOCK FALSE
