SPECIFICATION Spec
CONSTANTS
    Executions = {e1, e2}
    Branches = {b1, b2}
    Claims = {}
    None = None
    MaxTotal = 2
    MaxActive = 1
    MaxParallel = 0
    MaxBranches = 2
    MaxDepth = 0
    MaxRevision = 3
    DirectResume = FALSE
SYMMETRY Symmetry
INVARIANTS
    CanonicalActivity

CHECK_DEADLOCK FALSE
