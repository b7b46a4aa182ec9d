SPECIFICATION Spec
CONSTANTS
    Tids = {1, 2, 3, 4}
    TableSizes = {2, 4}
    Kinds = {"process", "thread", "vfork"}
    MaxLost = 1
    LossyTids = {1, 2, 3}
    MaxClones = 3
INVARIANTS
    TypeOK
    GroupCountExact
    ChildrenPointBack
    NeverOwnReaper
    SweepClears
    
