SPECIFICATION Spec
CONSTANTS
    MaxQueries = 2
    MaxRows = 2
    UnsetRow = {"NULL"}
INVARIANT FetchesStoredResult
