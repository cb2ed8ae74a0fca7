SPECIFICATION FairSpec
CONSTANTS
    j1 = j1
    j2 = j2
    Jobs = {j1}
    Runs = {r1, r2}
    NoJob = NoJob
    Threshold = 2
    FailureCap = 2
    MaxCatchup = 1
    MaxRestarts = 1
    Schedules = {"recurring", "invalid"}
    InitialJobs <- MCInitialJobs
INVARIANTS
    MutualExclusion
    DegradedIffThreshold
    RunningIsOwned
PROPERTIES
    ImplementsFifoLock
    RequestsServed
CHECK_DEADLOCK FALSE
