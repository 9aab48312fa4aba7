CONSTANTS
    Names = {"video"}
    PartNames = {}
    Limits = {1}
    DefaultLimit = 2
    Magnitudes = {0, 1, 2}
    Media <- EachMedia
    Nothing = Nothing
SPECIFICATION Spec
INVARIANTS
    RetryWithinLimits
