SPECIFICATION FairSpec
CONSTANTS
    MaxChars = 5
    MaxWidth = 2
    ChunkBytes = 3
    MaxPiece = 2
    Ordered = FALSE
INVARIANTS
    StreamInv
PROPERTIES
    ImplementsByteStream
    DoneEndsStream
CHECK_DEADLOCK FALSE
