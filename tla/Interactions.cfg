SPECIFICATION FairSpec
CONSTANTS
    Requests = {r1, r2, r3}
    Tools = {shell}
    Question = question
    Clients = {c1}
    NoRequest = NoRequest
    NoTool = NoTool
    MaxRestarts = 1
INVARIANTS
    TypeOK
    AllowedByUser
PROPERTIES
    ImplementsFifoLock
    EveryRequestSettled
CHECK_DEADLOCK FALSE
