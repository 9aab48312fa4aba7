CONSTANTS
    Names = {"video", "audio", "rest"}
    PartNames = {"rest"}
    Limits = {1}
    DefaultLimit = 2
    Magnitudes = {0, 1, 2}
    Media <- EachMedia
    Nothing = Nothing
SPECIFICATION Spec
INVARIANTS
    WorkerTypeOK
    CookieWhileNeeded
    OutputOfLastTransfer
    CompletedWasAcceptable
PROPERTIES
    ImplementsSupervisedWorker
