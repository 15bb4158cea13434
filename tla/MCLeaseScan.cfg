SPECIFICATION Spec
SYMMETRY Symmetry
CONSTANTS
    Executions = {1, 2, 3}
    Owners = {o1}
    Sweepers = {s1}
    None = None
    LeaseTime = 1
    Horizon = 3
    MaxGeneration = 1
    PageSize = 1
    MaxPages = 4
    MaxRows = 3
    Malformed = {}
    Unready = {}
    Corrupt = {2}
INVARIANTS
    ScanMissesNothing
