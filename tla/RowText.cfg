SPECIFICATION Spec
CONSTANTS
    Char = {"N", "U", "L", "|"}
    Delimiter = "|"
    NoText = NoText
    MaxPiece = 5
    MaxColumns = 3
    MaxLength = 2
INVARIANTS
    TypeOK
    BufferFits
    RoundTrip
    SplitLossless
\* a call ends
CHECK_DEADLOCK FALSE
