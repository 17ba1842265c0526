SPECIFICATION Spec
CONSTANTS
    Levels = {"TCP_CONNECTED"}
    Replaying = FALSE
    Faults = {}
    MaxLines = 3
INVARIANTS
    ClosedCaptureLoads
