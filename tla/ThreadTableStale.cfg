SPECIFICATION FairSpec
CONSTANTS
    Tids = {1, 2}
    TableSizes = {3}
    Kinds = {"vfork"}
    MaxLost = 2
    LossyTids = {1, 2}
    MaxClones = 2
PROPERTY
    StaleEventuallyPurged
