SPECIFICATION FairSpec
CONSTANTS
    NCpus = 3
    CpusPerRing = 2
    Size = 3
    Lens = {1, 2}
    Discards = TRUE
    MaxEvents = 3
INVARIANTS
    TypeOK
    HeldIntact
    InOrder
    Accounting
    LowestFront
PROPERTY
    EveryCommittedDelivered
