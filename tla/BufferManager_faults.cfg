SPECIFICATION Spec
CONSTANTS
    pool_size = 1
    MaxPages = 2
    Clients = {c1, c2}
    Values = {a}
    Fresh = Fresh
    Hole = Hole
    Torn = Torn
    Faults = {"write", "fsync", "read", "tear"}
    MetricBound = 1
SYMMETRY Symmetry
INVARIANTS
    TypeOK
    CopiesAreVersions
    FileCoversPool
PROPERTY
    ImplementsPageStore
