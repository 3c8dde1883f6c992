\* Two runs over two connections, every interleaving of handlers and tasks; a
\* task may be cancelled at any await.  No symmetry: one property is a liveness.
CONSTANTS
    Runs = {r1, r2}
    Conns = {c1, c2}
    MayCancel = TRUE
SPECIFICATION FairSpec
CHECK_DEADLOCK FALSE
INVARIANTS
    ReportCoversRequest
PROPERTIES
    ImplementsLifecycle
    EveryRunEnds
