SPECIFICATION Spec
CONSTANTS
    Configs <- AllConfigs
    Sizes = {0, 1, 2}
    Timeouts = {0, 2}
    MaxTimeout = 2
    MaxBytes = 2
INVARIANTS
    SocketMatchesState
    TimeoutRestored
    WholeReadDeadline
PROPERTIES
    FailedSendEndsLink
    LostMeansPeerGone
    TimedOutReadIsHarmless
    FailureSpendsAttempts
    CallsRunDown
    ConnectingIsTransient
    ImplementsContract
