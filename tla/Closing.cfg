SPECIFICATION Spec
CONSTANTS
    MaxConnections = 1
    MaxQueries = 4
    InitBy = {"server", "query"}
    Calls = {"connect", "close", "queue", "run", "store", "free", "command"}
    WordAfterMy = {"NULL"}
INVARIANTS
    AtMostOnce
    OnceInv
PROPERTY Implements
\* undefined behaviour ends a behaviour
CHECK_DEADLOCK FALSE
