SPECIFICATION Spec
CONSTANTS
    Levels = {"TCP_CONNECTED"}
    Replaying = TRUE
    Faults = {"crash", "disk_full"}
    MaxLines = 4
INVARIANTS
    NothingAcknowledgedIsLost
    DiskInOrder
    HeaderBeforePackets
    ExportsAgree
    LoadReturnsRecorded
PROPERTIES
    CaptureOnlyGrows
