SPECIFICATION ReopenSpec
CONSTANTS
    Dim = 5
    Cushion = 2
    HdrLen = 2
    EvLens = {2, 3}
    Levels = 2
    MaxHits = 2
    MaxOpens = 1
INVARIANT
    GateSurvivesReopen
CHECK_DEADLOCK FALSE
