SPECIFICATION Spec
CONSTANTS
    Keys = {1, 2, 3}
    Rids = {r1, r2}
    None = None
    MaxPages = 7
    MayFail = TRUE
    MAX_LEAF_ENTRIES = 1
    MAX_INTERNAL_KEYS = 2
INVARIANT
    FoundIsScanned
    LoopsEnd
PROPERTY
    ImplementsIndexMap
\* A tree whose creation failed cannot be opened again: nothing more happens.
CHECK_DEADLOCK FALSE
