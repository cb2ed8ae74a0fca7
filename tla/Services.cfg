SPECIFICATION BothSpec
CONSTANTS
    Processes = {p1, p2, p3}
    Terminals = {t1, t2}
    MaxSpawns = 2
    MaxCommands = 2
    MaxFaults = 1
    None = None
    MaxTurns = 3
    MaxJudgeRounds = 1
    Plans <- SomePlans
INVARIANTS
    TypesOK
    StoppedIsGone
    ShownIsSaid
    HistoryPaired
PROPERTIES
    WatchdogAnswers
    ImplementsMessageStream
CHECK_DEADLOCK FALSE
