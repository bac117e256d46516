SPECIFICATION Spec
CONSTANTS
    Procs = {p1, p2}
    Names = {a, b}
    Data = {7, 8}
    Modes = {3}
    Workloads <- Cases
    MaxLinks = 2
    MAX_INODE_NUM = 3
    MAX_BLOCK_NUM = 6
    MAP_BITS = 3
    BLOCK_SIZE = 2
    INODE_DATA_DIRECT = 2
    INODE_DATA_L1 = 0
CONSTRAINT Sound
VIEW Seen
SYMMETRY Symmetry
INVARIANTS BlocksHaveOneOwner EntriesAreLive CountersAreExact AssertionsHold FileKeepsWrites
