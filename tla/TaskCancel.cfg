SPECIFICATION Spec
CONSTANTS
    Tasks = {t1}
    Streams = {s1}
    NoTask = NoTask
    MaxPushes = 2
    MaxRestarts = 0
PROPERTIES
    CancelSticks
CHECK_DEADLOCK FALSE
