SPECIFICATION DiagnosisSpec
CONSTANTS
    Weight <- DefaultWeights
    Found <- Worst
    MaxEach = 7
    Canonical <- TwoNamesakes
    Normal <- Normalized
    Ratio <- Ratios
    Keylike <- Ids
    Alike <- TypesAlike
    Threshold = 80
    Menu <- Systems
    MaxSystems = 5
    MaxTables = 4
    MaxRegrouped = 3
INVARIANTS
    GoHides
    PlanExplainsVerdict
PROPERTIES
    VerdictNeverImproves
    OnlyRegroupingImproves
CHECK_DEADLOCK FALSE
