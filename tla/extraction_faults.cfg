SPECIFICATION Spec
CONSTANTS
    Chunks = {c1, c2}
    Calls = {h1, h2}
    Workers = {w1, w2}
    BatchSize = 1
    MaxTries = 1
    Ops = {"run", "cancel"}
    Faults = {"redis", "api", "source", "graph", "worker"}
    MaxRequests = 2
    MaxFaults = 1
    None = None
SYMMETRY Symmetry
INVARIANTS
    TypeOK
    CompleteMeansWritten
CHECK_DEADLOCK FALSE
