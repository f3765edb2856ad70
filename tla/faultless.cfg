SPECIFICATION Spec
CONSTANTS
    low = low
    high = high
    None = None
    Proposals = {low, high}
    HighRisk = {high}
    Candidates = {low, high}
    CandidateOf <- MCCandidateOf
    Preloaded = {low, high}
    Actors = {a1}
    Slots = {t1, t2}
    Versions = {v1}
    NSteps = 2
    DryRun = FALSE
    Ops <- MCFaultlessOps
    MaxRequests = 4
    MaxFaults = 0
INVARIANTS
    EveryWriteAccounted
    ApprovedIsExecutable
CHECK_DEADLOCK FALSE
