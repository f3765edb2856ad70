SPECIFICATION Spec
CONSTANTS
    Blank = 0
    Stopwords <- MCStopwords
    Window = 2
    MaxCluster = 2
    Graphs <- MCGraphs
    Others <- MCOthers
    k1 = k1
    k2 = k2
    x = x
    y = y
    Chunks = {k1, k2}
    BaseBudget = 1400
    MaxRounds = 3
    RoundCost = 500
    None = None
INVARIANTS
    TypeOK
    
    RecommendationFits
    
    
    SearchesArePaid

    
CHECK_DEADLOCK FALSE
