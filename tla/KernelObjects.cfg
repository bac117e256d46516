SPECIFICATION Spec
CONSTANTS
    Procs = {p1, p2}
    Keys <- MCKeys
    CPUs = 1
    MaxObjects = 3
    Null = Null
INVARIANTS RefCountIsHolders PoolIsAMap
PROPERTY UnheldIsFreed
CHECK_DEADLOCK FALSE
