SPECIFICATION Spec
CONSTANTS
    Tasks = {t1, t2}
    Cpus = {c1, c2}
    NTps = 1
    MaxConsumers = 2
    Failing = {}
    NoTask = NoTask
INVARIANT
    LimitCountsOpeners
