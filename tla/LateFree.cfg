SPECIFICATION Spec
CONSTANTS
    MaxConnections = 2
    MaxQueries = 1
    InitBy = {"server"}
    Calls = {"connect", "queue", "store", "free"}
    WordAfterMy = {"NULL"}
INVARIANT OutcomeReported
CHECK_DEADLOCK FALSE
