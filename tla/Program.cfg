SPECIFICATION FairSpec
CONSTANTS
    Durations = {0, 1, 2, 3}
    MaxBytes = 3
    MaxTimeout = 1000
    Launches <- MCLaunches
INVARIANTS
    DisconnectedAtExit
    CaptureCompleteAtExit
    ExitCodeTellsTruth
    FlagsAnywhere
    RefusedSettings
PROPERTIES
    CommandEnds
CHECK_DEADLOCK FALSE
