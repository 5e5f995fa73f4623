CONSTANTS
    Users = {u1}
    NPorts = 2
    Kinds = {"disk"}
    Attempts = 1
SPECIFICATION DevicesSpec
PROPERTY FirstDiskStays
