SPECIFICATION Spec
CONSTANTS
    low = low
    high = high
    None = None
    Proposals = {low, high}
    HighRisk = {high}
    Candidates = {low, high}
    CandidateOf <- MCCandidateOf
    Preloaded = {high}
    Actors = {a1}
    Slots = {t1}
    Versions = {v1}
    NSteps = 2
    DryRun = FALSE
    Ops <- MCSerialOps
    MaxRequests = 7
    MaxFaults = 0
INVARIANTS
    CacheAgreesAtRest
    IndexCompleteAtRest
    ExcludedIsFiltered
    
PROPERTIES
    ImplementsLifecycle
CHECK_DEADLOCK FALSE
