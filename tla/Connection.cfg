SPECIFICATION FairSpec
CONSTANTS
    Proxies = {p1}
    Requested = {"interval", "action"}
    FailThreshold = 3
    RecoverThreshold = 2
    ReplayLimit = 1
    MaxQueueSize = 2
    MaxConnections = 3
    MaxEvents = 2
    MaxRestarts = 1
INVARIANTS
    TypeOK
    PriorityKept
PROPERTIES
    RecoveryEarned
    SentAtMostOnce
    TracksReachability
CHECK_DEADLOCK FALSE
