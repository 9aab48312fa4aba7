CONSTANTS
    j1 = j1
    j2 = j2
    JobIds = {j1, j2}
    Capacity = 2
    NoJob = NoJob
    Deliveries = {TRUE, FALSE}
    UsesPaste = TRUE
SPECIFICATION Spec
SYMMETRY Symmetry
CONSTRAINT FewRequests
INVARIANTS
    FrontendTypeOK
    UnfinishedIsWatched
    OnePoller
    
PROPERTIES
    PanelFollowsSubmission
    PolledTransitions
