CONSTANTS
    j1 = j1
    j2 = j2
    JobIds = {j1, j2}
    Capacity = 2
    MaxConcurrent = 1
    MaxAttempts = 1
    NoJob = NoJob
SPECIFICATION Spec
SYMMETRY Symmetry
INVARIANTS
    ManagerTypeOK
    ManagerInv
    BacklogBounded
    ClosedIsQuiet
    ActiveIsSupervised
    WorkersBounded
