CONSTANTS
    Threads = {t1, t2, t3, t4}
SPECIFICATION FairSpec
INVARIANTS
    Inv
PROPERTIES
    ImplementsMutex
    StrandedOnlyByBlock
    SomebodyEnters
