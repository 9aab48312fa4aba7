CONSTANTS
    j1 = j1
    JobIds = {j1}
    Capacity = 1
    MaxConcurrent = 1
    MaxAttempts = 1
    NoJob = NoJob
SPECIFICATION FairSpec
PROPERTIES
    CancellationFinishes
