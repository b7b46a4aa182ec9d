SPECIFICATION FairSpec
CONSTANTS
    NDevs = 2
    Cap = 2
    MaxEvents = 4
    MaxFlushes = 1
INVARIANTS
    TypeOK
    HeldStays
    ExactlyOnce
    
    NoStaleEvents
PROPERTY
    EveryPublishedHandled
