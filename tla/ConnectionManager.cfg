\* Three systems, two permits: one attempt always has to wait. One of the
\* connectors may fail to disconnect, and both calls may be cancelled.
CONSTANTS
    Specs = {s1, s2, s3}
    MaxConcurrency = 2
    Stubborn = {s3}
    MayCancel = TRUE
SPECIFICATION FairSpec
CHECK_DEADLOCK FALSE
INVARIANTS
    PermitsConserved
    ChecksBeforeClose
    ClosedUnlessGivenUp
PROPERTIES
    BothCallsEnd
