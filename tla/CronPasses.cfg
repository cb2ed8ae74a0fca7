SPECIFICATION FairSpec
CONSTANTS
    j1 = j1
    j2 = j2
    Jobs = {j1, j2}
    Runs = {}
    NoJob = NoJob
    Threshold = 1
    FailureCap = 1
    MaxCatchup = 1
    MaxRestarts = 0
    Schedules = {"recurring"}
    InitialJobs <- MCInitialJobs
INVARIANTS
    TypeOK
    TimerCoversSchedule
PROPERTIES
    DueJobsClaimed
CHECK_DEADLOCK FALSE
