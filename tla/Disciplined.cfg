SPECIFICATION DisciplinedFairSpec
CONSTANTS
    MaxConnections = 3
    MaxQueries = 2
    InitBy = {"server"}
    Calls = {"connect", "queue", "store", "free"}
    WordAfterMy = {"NULL", "other"}
INVARIANTS
    CallbackSeesOwnResult
    ConnectionExclusive
    NoCrash
    OutcomeReported
    RowsReachable
    DisciplineInv
PROPERTY EveryQueryAnswered
