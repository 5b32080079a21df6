SPECIFICATION FreeFirstSpec
CONSTANTS
    MaxQueries = 4
    MaxRows = 2
    UnsetRow = {"NULL", "other"}
INVARIANTS
    TypeOK
    FetchesStoredResult
    RowInv
PROPERTY Implements
