CONSTANTS
    NFrames = 11
    Procs = {sh, p1, p2}
    Shell = sh
    Loader = ldr
    Kernel = kpcb
    NoOwner = none
    Pages = {v1, v2}
    NoPage = nov
    Values = {a, b}
    InitialValue = a
    Zero = zero
    Other = other
    Strategy = "FIFO"
    DiskMayFail = FALSE
SPECIFICATION Spec
SYMMETRY Symmetry
INVARIANTS
    FrameAccounting
    MappingAgrees
    FifoComplete
PROPERTIES
    ContentsStable
    MemoryLostOnlyAtUnmap
CHECK_DEADLOCK FALSE
