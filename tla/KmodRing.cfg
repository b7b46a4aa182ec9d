SPECIFICATION FairSpec
CONSTANTS
    Dim = 7
    Cushion = 2
    HdrLen = 2
    EvLens = {2, 3}
    Levels = 2
    MaxHits = 4
INVARIANTS
    TypeOK
    UnreleasedIntact
    HeldIntact
    NoCorruption
    Accounting
    GateExclusive
PROPERTIES
    IsChannel
    EveryPublishedDelivered
