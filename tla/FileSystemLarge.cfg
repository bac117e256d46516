SPECIFICATION Spec
CONSTANTS
    Procs = {p1, p2}
    Names = {a, b}
    Data = {7}
    Modes = {3}
    Workloads <- OneFile
    MaxLinks = 2
    MAX_INODE_NUM = 3
    MAX_BLOCK_NUM = 6
    MAP_BITS = 3
    BLOCK_SIZE = 4
    INODE_DATA_DIRECT = 1
    INODE_DATA_L1 = 1
CONSTRAINT Sound
SYMMETRY Symmetry
INVARIANT FileKeepsWrites
