CONSTANTS
    NPcbs = 4
    Boot = 2
    Clock = 2
    MaxStacks = 4
    WaitQueues = {q1, q2}
    Threads = {k1}
    Users = {u1}
    Irqs = {0, 1, 11}
    PAGEABLE_PAGES = 33
    AVERAGE_PAGES_PER_PROCESS = 7
    MAX_WAITS = 2
    Word = 65536
    NStacks = 5
SPECIFICATION KernelFairSpec
INVARIANTS
    RingsSound
    NestingSound
    GateHolds
PROPERTIES
    ImplementsTaskQueues
    PcbNeverReused
    EverybodyRuns
    
CHECK_DEADLOCK FALSE
