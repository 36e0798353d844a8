SPECIFICATION FileSpec
CONSTANTS
    Keys = {1, 2, 3}
    Rids = {r1}
    None = None
    MaxPages = 6
    MayFail = FALSE
    MAX_LEAF_ENTRIES = 2
    MAX_INTERNAL_KEYS = 2
INVARIANT
    FlushedIndexKept
    ChainsEnd
\* An index file that cannot be opened stays as it is.
CHECK_DEADLOCK FALSE
