SPECIFICATION FairSpec
CONSTANTS
    Sessions = {1, 2}
    Requests = {1, 2}
    None = None
    Gone = Gone
    Life = 1
    MaxFaults = 2
    MaxLoads = 2
INVARIANTS
    TypeOK
    AnswerJustified
    LogoutTakesEffect
PROPERTIES
    SessionsEnd
    ExpiredPageLeaves
