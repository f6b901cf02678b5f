CONSTANTS
    Writer = w
    r1 = r1
    r2 = r2
    Readers <- TwoReaders
    Blocks = {1, 2}
    BLOCK_SIZE = 3
    SIZE_T = 64
    MAX_LEN = 2
    Junk = Junk
SPECIFICATION Spec
INVARIANTS
    ReadersSeeWrites
SYMMETRY ReadersAlike
CHECK_DEADLOCK FALSE
