SPECIFICATION Spec
CONSTANTS
    None = None
    NoPage = NoPage
    d1 = d1
    d2 = d2
    t1 = t1
    t2 = t2
    Slots = {t1, t2}
    Docs = {d1, d2}
    Tiers <- Tiers3
    UpsertBatch = 2
    MaxAttempts = 3
    MaxChars = 9
    MaxTokens = 2
    CharsPerToken = 4
    Scenarios <- MCScenarios
SYMMETRY Alike
INVARIANTS
    TypeOK
    ChunksAreSound
    
CHECK_DEADLOCK FALSE
