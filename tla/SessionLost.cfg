SPECIFICATION Spec
CONSTANTS
    Durations = {2}
    MaxBytes = 1
INVARIANTS
    LostLinkExitsOne
CHECK_DEADLOCK FALSE
