SPECIFICATION Spec
CONSTANTS
    Sessions = {1, 2}
    Requests = {1, 2}
    None = None
    Gone = Gone
    Life = 1
    MaxFaults = 0
    MaxLoads = 0
PROPERTIES
    NewLoginIsKept
