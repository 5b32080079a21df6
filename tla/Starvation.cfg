SPECIFICATION FairSpec
CONSTANTS
    MaxConnections = 2
    MaxQueries = 1
    InitBy = {"server", "query"}
    Calls = {"connect", "close", "queue"}
    WordAfterMy = {"NULL"}
PROPERTY EveryQueryAnswered
CHECK_DEADLOCK FALSE
