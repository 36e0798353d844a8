SPECIFICATION Spec
CONSTANTS
    a = a
    b = b
    PAGE_SIZE = 20
    HEADER_SIZE = 4
    SLOT_SIZE = 4
    Records <- SmallRecords
    MaxPages = 2
    MayFail = TRUE
    MayLosePower = TRUE
    ZeroPages = TRUE
    MaxTorn = 1
    MaxGarbage = 1
INVARIANTS
    RowsReadable
    ScanComplete
SYMMETRY Symmetry
