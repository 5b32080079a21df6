SPECIFICATION FairSpec
CONSTANTS
    MaxConnections = 2
    MaxQueries = 1
    InitBy = {"server", "query"}
    Calls = {"connect", "close", "queue"}
    WordAfterMy = {"NULL"}
INVARIANTS
    ExactlyOnceInOrder
    NoDangling
    PipelineInv
PROPERTY AnsweredUnlessGapBelow
\* undefined behaviour ends a behaviour
CHECK_DEADLOCK FALSE
