\* Three usable names, one too long and the path "/"; two directory entries
\* and two files, but a single data block beside the root's.
CONSTANTS
    MAX_INODES = 3
    MAX_BLOCKS = 2
    MAX_OPEN_FILES = 2
    MAX_DIR_ENTRIES = 2
    BLOCK_SIZE = 2
    SIZE_T = 64
    Names = {a, b, c, long, slash}
    NoName = NoName
    None = None
    TooLong = {long}
    Malformed = {slash}
    Cut <- CutNothing
    StaleNames = {}
    Bytes = {x}
    Junk = x
    MAX_LEN = 2
    MAX_SOURCE = 2
    BUFFER_SIZE = 2
SPECIFICATION ClientSpec
INVARIANTS
    NeverStops
    CursorsInsideFiles
    NoBlockLeaks
PROPERTIES
    CopyTerminates
VIEW LiveView
CHECK_DEADLOCK FALSE
