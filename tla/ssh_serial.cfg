SPECIFICATION FairSpec
CONSTANTS
    Handlers = {h1}
    FirstPort = 6222
    LastPort = 6223
    ManagementPort = 6999
    Bases <- MCBases
    Targets = {t1, t2}
    DefaultPorts = {6222}
    DefaultTarget = t1
    None = None
    MaxId = 3
    AuthPorts = {6222}
    MaxRestarts = 0
    AgentMayFail = TRUE
    DbMayFail = FALSE
INVARIANTS
    TypeOK
    RenderedIsMeant
    GateConfigured
    AppliedIsDeployed
    DeployedIsDesired
    SerialInv
    NothingInherited
PROPERTIES
    RequestsFinish
