CONSTANTS
    w1 = w1
    w2 = w2
SPECIFICATION Spec
INVARIANTS
    SnprintfContract
    WindowSound
    LoadsWhatWasLinked
CHECK_DEADLOCK FALSE
