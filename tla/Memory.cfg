SPECIFICATION Spec
CONSTANTS
    CPUs = {c1, c2}
    Procs = {p1, p2, p3}
    p1 = p1
    p2 = p2
    p3 = p3
    k1 = k1
    Keys = {k1}
    Idle = Idle
    UserCapLog = 3
    batch_size = 2
    CapLog = 5
    Reserved = 8
    Bounds = {4, 1, 5}
    FirstBound = 4
    Argv = 3
    SharedStart = 4
    MaxAttach = 2
    Workloads <- Cases
    SectorsPerPage = 2
    StackPages = 4
INVARIANTS SharedCountIsMappings FramesHaveOneUse HeapsAreExact StaleIsInterrupted ImageIsLoaded
CHECK_DEADLOCK FALSE
