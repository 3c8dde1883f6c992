\* Three definitions of every kind and of colliding names, cancelled anywhere but
\* in the cleanup.
CONSTANTS
    N = 3
    Bases <- MCBases
    Names <- MCNames
    StressEnabled = TRUE
    CancelAt <- NotInCleanup
    MaxCancels = 1
SPECIFICATION FairSpec
CHECK_DEADLOCK FALSE
INVARIANTS
    OnlyFailedClosesLeftOpen
    NothingSkippedSilently
PROPERTIES
    ImplementsContract
    CallEnds
