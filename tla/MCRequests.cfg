CONSTANTS
    j1 = j1
    j2 = j2
    j3 = j3
    JobIds = {j1, j2, j3}
    Capacity = 2
    NoJob = NoJob
    r1 = r1
    r2 = r2
    Calls = {r1, r2}
    MaxConcurrent = 1
    MaxTries = 3
SPECIFICATION RequestsSpec
SYMMETRY Symmetry
INVARIANTS
    StoreTypeOK
    CapacityRespected
    CancelWins
    ExtractionTypeOK
    InspectionGivesBack
PROPERTIES
    Lifecycle
