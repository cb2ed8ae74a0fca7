SPECIFICATION FairSpec
CONSTANTS
    j1 = j1
    j2 = j2
    Jobs = {j1}
    Runs = {}
    NoJob = NoJob
    Threshold = 1
    FailureCap = 1
    MaxCatchup = 1
    MaxRestarts = 1
    Schedules = {"recurring"}
    InitialJobs <- MCInitialJobs
PROPERTIES
    MissedJobsRun
CHECK_DEADLOCK FALSE
