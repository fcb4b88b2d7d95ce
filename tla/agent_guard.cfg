SPECIFICATION FairSpec
CONSTANTS
    Requests = {r1}
    Configs = {c1}
    ValidConfigs = {c1}
    None = None
    Torn = Torn
    MaxClock = 0
    MaxCrashes = 0
    MaxSpawned = 2
    CopyMayFail = FALSE
    StopMayFail = FALSE
PROPERTIES
    FrpcIsGuarded
