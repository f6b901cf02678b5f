\* Two threads, two files of up to one byte but one block, a name too long and
\* the path "/".
CONSTANTS
    Threads = {t1, t2}
    Names = {a, b, long, slash}
    TooLong = {long}
    Malformed = {slash}
    StaleNames = {b}
    Bytes = {x, y}
    NoName = NoName
    NoThread = NoThread
    Junk = x
    None = None
    MAX_INODES = 3
    MAX_BLOCKS = 2
    MAX_OPEN_FILES = 2
    BLOCK_SIZE = 1
    MAX_DIR_ENTRIES = 2
    MAX_LEN = 1
SPECIFICATION Spec
INVARIANTS
    NamesUnique
    NothingLost
    AssertionsHold
PROPERTIES
    MutexReleased
    KeepsPromise
VIEW LockedView
CHECK_DEADLOCK FALSE
