SPECIFICATION Spec
CONSTANTS
    Names = {n1, n2, n3}
    Fields = {id}
    Family <- Groups
    Definitions <- Said
    Severities = {"CRITICAL", "MEDIUM", "INFO"}
    Efforts <- GapEstimates
    Priorities = {4}
    MaxSize = 4
    MaxFindings = 2
INVARIANTS
    PerfectScoreHides
    BlockingHeldBack
    TotalCoversItems
PROPERTIES
    ScoreNeverRises
SYMMETRY Symmetry
CHECK_DEADLOCK FALSE
