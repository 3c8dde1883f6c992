SPECIFICATION DiagnosisSpec
CONSTANTS
    Weight <- DefaultWeights
    Found = {}
    MaxEach = 0
    Canonical <- TwoNamesakes
    Normal <- Normalized
    Ratio <- Ratios
    Keylike <- Ids
    Alike <- TypesAlike
    Threshold = 80
    Menu <- Systems
    MaxSystems = 3
    MaxTables = 3
    MaxRegrouped = 2
INVARIANT
    CriticalMeansNotReady
CHECK_DEADLOCK FALSE
