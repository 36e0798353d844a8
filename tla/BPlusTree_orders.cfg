SPECIFICATION Spec
CONSTANTS
    Keys = {1, 2, 3, 4, 5, 6}
    Rids = {r1, r2}
    None = None
    MaxPages = 13
    MayFail = FALSE
    MAX_LEAF_ENTRIES = 2
    MAX_INTERNAL_KEYS = 2
INVARIANT
    TypeOK
    Balanced
    NoPageLost
    ScanIsIndex
PROPERTY
    ImplementsIndexMap
