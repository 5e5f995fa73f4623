CONSTANTS
    t1 = t1
    t2 = t2
    k1 = k1
    Tasks = {t1, t2}
    Readers = {r1, r2}
    NoTask = nobody
    Keys = {1, 29, 30, 42, 58, 72}
    Extended = {72}
    Capacity = 2
    MaxWire = 1
    Letters = {4}
    Keypad = {89}
    CapsKey = 57
    NumKey = 83
    Slots = 2
SPECIFICATION Spec
INVARIANTS
    ReadersServed
    ModifiersFollow
    ScheduleSound
    HeapSound
 
CHECK_DEADLOCK FALSE
