SPECIFICATION FairSpec
CONSTANTS
    Executions = {1, 2, 3}
    Owners = {o1}
    Sweepers = {s1}
    None = None
    LeaseTime = 1
    Horizon = 2
    MaxGeneration = 1
    PageSize = 1
    MaxPages = 1
    MaxRows = 1
    Malformed = {1}
    Unready = {2}
    Corrupt = {}
PROPERTY
    ExpiredLeasesEnd
