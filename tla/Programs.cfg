CONSTANTS
    Bthreads = {b1, b2, b3}
    NoHolder = nobody
    Iterations = 3
    Phils <- MCPhils
    Forks <- MCPhils
    ForkA <- MCForkA
    ForkB <- MCForkB
    Callers = {b1, b2, b3}
    Nobody = nobody
    BUFFER_SIZE = 3
    Bodies <- MCBodies
    NoMessage = none
    a = a
    b = b
SPECIFICATION FairSpec
INVARIANTS
    BarrierInSync
    ForksCounted
    SpaceAccounts
PROPERTIES
    BroadcastEnds
    
    ImplementsMessageQueue
    LostOnlyByBlock
    
CHECK_DEADLOCK FALSE
