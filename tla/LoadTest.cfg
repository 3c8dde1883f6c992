\* Two workers and a full queue; queries may hang for longer than the drain.
SPECIFICATION FairLoadSpec
CONSTANTS
    w1 = w1
    w2 = w2
    Workers <- MCWorkers
    Duration = 2
    Timeout = 3
    Drain = 3
    MaxSent = 7
    Cancellable = TRUE
    Swallows = TRUE
INVARIANTS
    UncountedOnlyAfterDrain
    DeadSystemIsCritical
    ReturnsInTime
PROPERTIES
    WorkersEnd
