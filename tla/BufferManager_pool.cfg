SPECIFICATION Spec
CONSTANTS
    pool_size = 2
    MaxPages = 3
    Clients = {c1, c2}
    Values = {a}
    Fresh = Fresh
    Hole = Hole
    Torn = Torn
    Faults = {}
    MetricBound = 0
SYMMETRY Symmetry
INVARIANTS
    HandlesStable
    PinAccounting
    TableMirrorsFrames
    VictimsEvictable
    NoFrameLost
    CleanFramesMatchFile
