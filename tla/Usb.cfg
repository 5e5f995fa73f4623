CONSTANTS
    t1 = t1
    k1 = k1
    u1 = u1
    u2 = u2
    none = none
    Users = {u1, u2}
    NPorts = 2
    Kinds = {"disk", "keyboard", "other"}
    Attempts = 1
    MaxTag = 3
    MaxPackets = 2
SPECIFICATION UsbFairSpec
INVARIANTS
    DriverAlive
    StatusIsOwn
PROPERTIES
    
    
    CommandEnds
CHECK_DEADLOCK FALSE
