SPECIFICATION Spec
CONSTANTS
    NDevs = 1
    Cap = 2
    MaxEvents = 2
    MaxFlushes = 1
INVARIANT
    NoOldSnaplen
