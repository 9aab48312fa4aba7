CONSTANTS
    j1 = j1
    JobIds = {j1}
    Capacity = 2
    NoJob = NoJob
    Deliveries = {TRUE, FALSE}
    UsesPaste = TRUE
SPECIFICATION FairSpec
PROPERTIES
    FinishedIsShown
