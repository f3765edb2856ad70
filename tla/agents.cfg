SPECIFICATION FairSpec
CONSTANTS
    c1 = c1
    c2 = c2
    c3 = c3
    n1 = n1
    n2 = n2
    n3 = n3
    Cached <- CachedList
    Refs <- NodesOf
    Suppressed = {c3}
    BatchSize = 1
    MaxRunning = 2
    MaxTries = 2
    Classes = {"merge", "defer"}
    Scenarios <- AllScenarios
    None = None
INVARIANTS
    TypeOK
    WorkedOnHasJob
    
    NodeSafe
PROPERTIES
    EveryCandidateEnds
CHECK_DEADLOCK FALSE
