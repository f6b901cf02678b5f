\* Root and two inodes, one block beside the root's, two directory entries, one
\* handle: every table fills up, the blocks before an import has its first.
CONSTANTS
    MAX_INODES = 3
    MAX_BLOCKS = 2
    MAX_OPEN_FILES = 1
    MAX_DIR_ENTRIES = 2
    BLOCK_SIZE = 2
    SIZE_T = 64
    Names = {a, b, long}
    NoName = NoName
    TooLong = {long}
    Malformed = {}
    Cut <- CutNothing
    StaleNames = {a, b}
    Bytes = {x, y}
    Junk = Junk
    MAX_LEN = 1
    MAX_SOURCE = 2
    BUFFER_SIZE = 1
SPECIFICATION CallsSpec
INVARIANTS
    TypeOK
    EntriesAllocated
    LinkCount
    BlocksOwned
    UnlinkClearsWhatItFound
PROPERTIES
    FailedCallHarmless
    ThreeCallsStop
VIEW CallsView
SYMMETRY SwapNamesAndBytes
CHECK_DEADLOCK FALSE
