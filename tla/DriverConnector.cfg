SPECIFICATION Spec
CONSTANTS
    Owner = owner
    Others = {reader}
    Threads = 2
    Tables = 1
INVARIANTS
    NothingLeftOpen
PROPERTIES
    ReleasedForGood
    BoundedCallsEnd
    EveryCallEnds
CHECK_DEADLOCK FALSE
