CONSTANTS
    t1 = t1
    t2 = t2
    f1 = f1
    f2 = f2
    Threads = {t1, t2}
    Names = {f1, f2}
    Files <- OwnFiles
    NoName = NoName
    NoThread = NoThread
    MAX_INODES = 3
    MAX_BLOCKS = 3
    MAX_OPEN_FILES = 2
    MAX_DIR_ENTRIES = 2
    MAX_CALLS = 2
SPECIFICATION Spec
INVARIANTS
    FilesKeepContents
CHECK_DEADLOCK FALSE
