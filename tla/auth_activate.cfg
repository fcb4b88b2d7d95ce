SPECIFICATION FairSpec
CONSTANTS
    Tokens = {1}
    Ports = {6222}
    IPs = {i1}
    Users = {u1}
    Checks = {c1}
    None = None
    Gone = Gone
    Window = 1
    MaxExpiry = 1
    MaxPerms = 1
    DbMayFail = TRUE
    ZoneSkew = 0
    AuthModes = {"token", "ip"}
INVARIANTS
    TypeOK
    EndsWithinWindow
    IInv
    VerdictJustified
PROPERTIES
    RevocationTakesEffect
