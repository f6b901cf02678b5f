CONSTANTS
    MAX_INODES = 3
    MAX_BLOCKS = 3
    MAX_OPEN_FILES = 2
    MAX_DIR_ENTRIES = 2
    BLOCK_SIZE = 2
    SIZE_T = 64
    Names = {a, b}
    NoName = NoName
    TooLong = {}
    Malformed = {}
    Cut <- CutNone
    StaleNames = {}
    Bytes = {x}
    Junk = Junk
    MAX_LEN = 2
    MAX_SOURCE = 2
    BUFFER_SIZE = 2
SPECIFICATION Spec
PROPERTIES
    UnlinkReturns
CHECK_DEADLOCK FALSE
