SPECIFICATION Spec
CONSTANTS
    Keys = {1, 2}
    MaxRows = 3
    MayLosePower = TRUE
INVARIANT
    EntriesLeadToRows
PROPERTY
    OnlyBulkRunsAhead
