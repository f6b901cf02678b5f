CONSTANTS
    Counts <- Few
    BlockSizes <- Small
    MAX_HEAP = 8
    NULL = NULL
SPECIFICATION Spec
INVARIANTS
    DestroyStaysInside
PROPERTIES
    LostOnlyByRetry
    StartsAgain
CHECK_DEADLOCK FALSE
