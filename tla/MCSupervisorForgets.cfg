SPECIFICATION Spec
SYMMETRY RequestSymmetry
CONSTANTS
    Executions = {"parent", "child"}
    Tasks = {"task"}
    Requests = {q1, q2}
    None = None
    TaskOf <- MCTaskOf
    ParentOf <- MCParentOf
INVARIANT RunnerForgotten
