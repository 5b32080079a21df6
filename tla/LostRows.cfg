SPECIFICATION Spec
CONSTANTS
    MaxConnections = 2
    MaxQueries = 1
    InitBy = {"server"}
    Calls = {"connect", "queue", "run", "store", "free"}
    WordAfterMy = {"NULL"}
INVARIANT RowsReachable
CHECK_DEADLOCK FALSE
