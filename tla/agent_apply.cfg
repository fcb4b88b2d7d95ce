SPECIFICATION FairSpec
CONSTANTS
    Requests = {r1, r2}
    Configs = {c1, c2, bad}
    ValidConfigs = {c1, c2}
    None = None
    Torn = Torn
    MaxClock = 1
    MaxCrashes = 0
    MaxSpawned = 2
    CopyMayFail = FALSE
    StopMayFail = FALSE
PROPERTIES
    AppliedIsInstalled
    ReplacedIsBackedUp
    RequestsFinish
