SPECIFICATION Spec
CONSTANTS
    Tokens = {1}
    Ports = {6222}
    IPs = {i1, i2}
    Users = {u1}
    Checks = {}
    None = None
    Gone = Gone
    Window = 2
    MaxExpiry = 2
    MaxPerms = 1
    DbMayFail = FALSE
    ZoneSkew = 1
    AuthModes = {"token"}
SYMMETRY Symmetry
PROPERTIES
    RefusedForCause
