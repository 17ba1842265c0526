SPECIFICATION Spec
CONSTANTS
    Captures <- MCCaptures
    Payloads <- MCPayloads
    Sizes = {1, 2}
    MaxPackets = 7
    MaxMismatches = 1
    MaxShown = 9
INVARIANTS
    FirstPassOnceInOrder
    SentFollowsRecording
PROPERTIES
    NothingWithheld
    ImplementsContract
