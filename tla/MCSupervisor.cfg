SPECIFICATION Spec
SYMMETRY RequestSymmetry
CONSTANTS
    Executions = {"parent", "child", "other"}
    Tasks = {"task"}
    Requests = {q1, q2, q3}
    None = None
    TaskOf <- MCTaskOf
    ParentOf <- MCParentOf
INVARIANTS
    TypeOK
    OneRunner
    IndexesExact
    NoAbandonedRunner
    DownIsQuiet
PROPERTY
    CancelTaskReaches
