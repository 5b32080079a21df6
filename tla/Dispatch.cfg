SPECIFICATION Spec
CONSTANTS
    Scripts = {a, b}
    MaxLoads = 3
    MaxQueries = 2
    MaxDepth = 2
SYMMETRY ScriptSymmetry
INVARIANTS
    TypeOK
    EachScriptCalledOnce
    TextOwnership
    FaultCauses
    DispatchInv
PROPERTY AnsweredBeforePop
\* undefined behaviour ends a behaviour
CHECK_DEADLOCK FALSE
