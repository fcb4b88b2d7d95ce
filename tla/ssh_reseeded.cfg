SPECIFICATION Spec
CONSTANTS
    Handlers = {h1}
    FirstPort = 6222
    LastPort = 6223
    ManagementPort = 6999
    Bases <- MCBases
    Targets = {t1}
    DefaultPorts = {6222}
    DefaultTarget = t1
    None = None
    MaxId = 2
    AuthPorts = {}
    MaxRestarts = 1
    AgentMayFail = FALSE
    DbMayFail = FALSE
PROPERTIES
    RestartKeepsDeleted
