SPECIFICATION Spec
CONSTANTS
    Executions = {e1, e2, e3, e4}
    Branches = {b1, b2, b3}
    Claims = {}
    None = None
    MaxTotal = 4
    MaxActive = 2
    MaxParallel = 1
    MaxBranches = 3
    MaxDepth = 0
    MaxRevision = 4
    DirectResume = FALSE
SYMMETRY Symmetry
INVARIANTS
    AdmissionAccountingExact
    AdoptionUnique
    UnsettledIsHead
    DormantActivatable
PROPERTIES
    SettledForever
CHECK_DEADLOCK FALSE
