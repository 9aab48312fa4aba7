CONSTANTS
    j1 = j1
    JobIds = {j1}
    Capacity = 1
    MaxConcurrent = 1
    MaxAttempts = 2
    NoJob = NoJob
SPECIFICATION FairSpec
INVARIANTS
    CompletedHasFile
    NothingLeftBehind
    NoStrayWorker
PROPERTIES
    ImplementsContract
    SupervisionEnds
    AdmittedFinishes
    ShutdownEnds
