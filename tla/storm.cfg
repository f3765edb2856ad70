SPECIFICATION Spec
CONSTANTS
    low = low
    high = high
    None = None
    Proposals = {high}
    HighRisk = {high}
    Candidates = {high}
    CandidateOf <- MCCandidateOf
    Preloaded = {high}
    Actors = {a1}
    Slots = {t1, t2}
    Versions = {v1}
    NSteps = 1
    DryRun = FALSE
    Ops <- MCStormOps
    MaxRequests = 3
    MaxFaults = 1
INVARIANTS
    TypeOK
    MutationAuthorised
    CacheNeverAhead
CHECK_DEADLOCK FALSE
