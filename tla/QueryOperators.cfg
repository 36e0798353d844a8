SPECIFICATION QuerySpec
CONSTANTS
    Keys = {1, 2}
    MaxRows = 3
    Limits = {0, 1, 2, 3}
    MaxRuns = 3
    MayFail = TRUE
    Values = {1, 2, 3}
    Selected = {1, 2}
    MaxTableRows = 2
    MaxCalls = 5
INVARIANTS
    ReturnsSorted
    ReturnsJoin
PROPERTIES
    RunsRemoved
    ReturnsAll
    NextReturns
