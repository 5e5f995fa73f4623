CONSTANTS
    Tasks = {t1}
    Keyboards = {k1}
    Nobody = nobody
    Pids = {"in"}
    NUnits = 2
    NTds = 3
    MaxPackets = 1
SPECIFICATION Spec
INVARIANT ToggleInStep
