SPECIFICATION Spec
CONSTANTS
    Observers = {o1, o2}
    MaxObservers = 2
    Sizes = {1, 2}
    NoDrop = NoDrop
    DropAfters = {NoDrop, 1}
    MaxBytes = 3
    MaxCalls = 2
INVARIANTS
    StreamInOrder
    EveryObserverHears
    PeerDisappears
PROPERTIES
    ImplementsContract
