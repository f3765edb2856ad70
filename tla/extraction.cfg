SPECIFICATION FairSpec
CONSTANTS
    Chunks = {c1, c2}
    Calls = {h1, h2}
    Workers = {w1}
    BatchSize = 2
    MaxTries = 2
    Ops = {"run", "cancel"}
    Faults = {"source", "graph", "interrupt", "worker"}
    MaxRequests = 2
    MaxFaults = 1
    None = None
INVARIANTS
    UnresolvedHasJob
PROPERTIES
    EveryChunkResolves
CHECK_DEADLOCK FALSE
