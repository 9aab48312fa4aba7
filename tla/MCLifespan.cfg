CONSTANTS
    j1 = j1
    j2 = j2
    JobIds = {j1, j2}
    Capacity = 1
    MaxConcurrent = 1
    MaxAttempts = 2
    NoJob = NoJob
    MaxLives = 2
    JobsPerLife = 1
SPECIFICATION LifespanSpec
SYMMETRY Symmetry
INVARIANTS
    LifespanTypeOK
    DiskIsAccountedFor
    StopLeavesNoWorker
PROPERTIES
    LifespanImplementsContract
