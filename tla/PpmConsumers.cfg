SPECIFICATION FairSpec
CONSTANTS
    Tasks = {t1, t2}
    Cpus = {c1, c2}
    NTps = 2
    MaxConsumers = 2
    Failing = {0}
    NoTask = NoTask
INVARIANTS
    TypeOK
    NoUseAfterFree
    FileHasConsumer
    AttachedWhileReferenced
    RefsAreLive
    RefsAreExact
PROPERTY
    RemovalEnds
