SPECIFICATION Spec
CONSTANTS
    Executions = {e1, e2}
    Branches = {b1}
    Claims = {}
    None = None
    MaxTotal = 2
    MaxActive = 1
    MaxParallel = 0
    MaxBranches = 1
    MaxDepth = 0
    MaxRevision = 3
    DirectResume = FALSE
SYMMETRY Symmetry
INVARIANTS
    NoStrandedAdmission

CHECK_DEADLOCK FALSE
