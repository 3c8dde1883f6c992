\* Two callers that keep their calls on a key apart and give every value a ttl, and
\* two that do neither.
SPECIFICATION Spec
CONSTANTS
    c1 = c1
    c2 = c2
    k1 = k1
    k2 = k2
    Callers <- MCCallers
    Keys <- TwoKeys
    Patterns <- TwoPatterns
    Uses <- BothUses
    MaxSets = 2
    MaxTime = 4
SYMMETRY Symmetric
INVARIANTS
    LivesForItsTtl
    NeverServedAfterDelete
