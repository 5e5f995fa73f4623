CONSTANTS
    NFrames = 10
    Procs = {sh, p1}
    Shell = sh
    Loader = ldr
    Kernel = kpcb
    NoOwner = none
    Pages = {v1, v2}
    NoPage = nov
    Values = {a, b}
    InitialValue = a
    Zero = zero
    Other = other
    Strategy = "FIFO"
    DiskMayFail = FALSE
SPECIFICATION Spec
PROPERTIES
    MemoryChangesByOwner
CHECK_DEADLOCK FALSE
