SPECIFICATION Spec
CONSTANTS
    MaxProcs = 4
    MaxThreads = 4
INVARIANTS OrphansAreAdopted CleanupIsSafe WaitersWaitForTheLiving
CHECK_DEADLOCK FALSE
