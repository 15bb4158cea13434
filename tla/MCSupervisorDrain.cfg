SPECIFICATION FairSpec
CONSTANTS
    Executions = {"parent", "child"}
    Tasks = {"task"}
    Requests = {q1, q2}
    None = None
    TaskOf <- MCTaskOf
    ParentOf <- MCParentOf
    PROPERTY ShutdownCompletes
