SPECIFICATION Spec
CONSTANTS
    Requests = {r1, r2}
    Configs = {c1, c2, bad}
    ValidConfigs = {c1, c2}
    None = None
    Torn = Torn
    MaxClock = 1
    MaxCrashes = 1
    MaxSpawned = 2
    CopyMayFail = TRUE
    StopMayFail = TRUE
SYMMETRY Symmetry
INVARIANTS
    TypeOK
    GeneratedIsVerified
    IInv
    ReportedOKIsVerified
PROPERTIES
    ManagedSpec
