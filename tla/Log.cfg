SPECIFICATION Spec
CONSTANTS
    Lines = 1
    MaxServerCalls = 3
    MaxQueryCalls = 2
    MaxOpens = 2
INVARIANTS
    TypeOK
    LoggedIsOnDisk
    WholeLine
    OneStream
\* the threads may stop logging
CHECK_DEADLOCK FALSE
