SPECIFICATION FairSpec
CONSTANTS
    Configs <- Retrying
    Sizes = {1, 2}
    Timeouts = {2}
    MaxTimeout = 2
    MaxBytes = 2
PROPERTY
    CallsReturn
