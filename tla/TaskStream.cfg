SPECIFICATION FairSpec
CONSTANTS
    Tasks = {t1}
    Streams = {s1, s2}
    NoTask = NoTask
    MaxPushes = 2
    MaxRestarts = 1
INVARIANTS
    TypeOK
    OneOutcomePerStream
    RunningIsStreamed
    FinishedTasksAreClosed
PROPERTIES
    MirrorConverges
CHECK_DEADLOCK FALSE
