SPECIFICATION Spec
CONSTANTS
    Executions = {e1, e2}
    Branches = {b1, b2}
    Claims = {c1, c2}
    None = None
    MaxTotal = 2
    MaxActive = 2
    MaxParallel = 1
    MaxBranches = 2
    MaxDepth = 1
    MaxRevision = 6
    DirectResume = FALSE
SYMMETRY Symmetry
INVARIANTS
    TypeOK
    TerminalIsClosed
    ConsumedOnce
    SingleWriter
    RunningHeadShown
    UnsettledIsHead
PROPERTIES
    SettledForever
CHECK_DEADLOCK FALSE
