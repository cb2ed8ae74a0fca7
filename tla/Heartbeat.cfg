SPECIFICATION FairSpec
CONSTANTS
    a1 = a1
    a2 = a2
    Agents = {a1, a2}
    Loops = {l1, l2}
    NoAgent = NoAgent
    MaxReloads = 3
    MaxStarts = 1
INVARIANTS
    TypeOK
    OnePassAtATime
    ChainUnbroken
PROPERTIES
    QuietAfterStop
    ReloadKeepsDue
    DueAgentsRun
CHECK_DEADLOCK FALSE
