SPECIFICATION Spec
CONSTANTS
    MaxConnections = 2
    MaxQueries = 2
    InitBy = {"server"}
    Calls = {"connect", "queue", "run", "free", "command"}
    WordAfterMy = {"NULL", "other"}
INVARIANTS
    TypeOK
    TakingTurns
    ExactlyOnceInOrder
    PipelineInv
PROPERTY Implements
\* undefined behaviour ends a behaviour
CHECK_DEADLOCK FALSE
