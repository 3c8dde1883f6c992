SPECIFICATION Spec
CONSTANTS
    Runs = {r1, r2}
    Calls = {c1, c2, c3}
INVARIANTS
    ExecutedOnce
    EventsOfARun
    UnderWayIsWorkedOn
PROPERTIES
    ImplementsLifecycle
    StartedRunEnds
CHECK_DEADLOCK FALSE
