SPECIFICATION Spec
CONSTANTS
    Executions = {e1, e2}
    Branches = {b1, b2}
    Claims = {c1}
    None = None
    MaxTotal = 2
    MaxActive = 1
    MaxParallel = 1
    MaxBranches = 2
    MaxDepth = 1
    MaxRevision = 5
    DirectResume = TRUE
SYMMETRY Symmetry
INVARIANTS
    ActiveCapacityExact
    SingleWriter
    Lineage
CHECK_DEADLOCK FALSE
