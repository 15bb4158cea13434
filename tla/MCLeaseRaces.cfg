SPECIFICATION Spec
SYMMETRY Symmetry
CONSTANTS
    Executions = {1}
    Owners = {o1, o2}
    Sweepers = {s1, s2}
    None = None
    LeaseTime = 2
    Horizon = 4
    MaxGeneration = 4
    PageSize = 1
    MaxPages = 2
    MaxRows = 2
    Malformed = {}
    Unready = {}
    Corrupt = {}
INVARIANTS
    TypeOK
    FencingTokensUnique
PROPERTIES
    NewestCompletes
    NoLiveTakeover
