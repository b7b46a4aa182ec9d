SPECIFICATION FairSpec
CONSTANTS
    Producers = {p1, p2}
    Capacity = 4
    MaxAsync = 5
    MaxScap = 1
    MaxTime = 2
    Ahead = 1
INVARIANTS
    TypeOK
    NoDanglingTop
    AsyncExactlyOnce
PROPERTIES
    MergesByTimestamp
    AsyncDrained
