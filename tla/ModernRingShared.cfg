SPECIFICATION Spec
CONSTANTS
    NCpus = 2
    CpusPerRing = 2
    Size = 4
    Lens = {1}
    Discards = FALSE
    MaxEvents = 2
INVARIANT
    LowestFirst
