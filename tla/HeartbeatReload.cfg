SPECIFICATION FairSpec
CONSTANTS
    a1 = a1
    a2 = a2
    Agents = {a1}
    Loops = {l1}
    NoAgent = NoAgent
    MaxReloads = 2
    MaxStarts = 1
PROPERTIES
    ReloadedAgentsRun
CHECK_DEADLOCK FALSE
