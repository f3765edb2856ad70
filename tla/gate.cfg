SPECIFICATION Spec
CONSTANTS
    low = low
    high = high
    None = None
    Proposals = {low, high}
    HighRisk = {low, high}
    Candidates = {low, high}
    CandidateOf <- MCCandidateOf
    Preloaded = {low, high}
    Actors = {a1}
    Slots = {t1, t2}
    Versions = {v1}
    NSteps = 2
    DryRun = FALSE
    Ops <- MCGateOps
    MaxRequests = 4
    MaxFaults = 1
INVARIANTS
    TwoPhase
    
    ExecutedMeansApplied
CHECK_DEADLOCK FALSE
