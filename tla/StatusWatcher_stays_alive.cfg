CONSTANTS
    Commands = {c1}
    Interval = 5
    MaxRetry = 30
    FloatLimit = 1024
SPECIFICATION Spec
INVARIANTS
    WatcherStaysAlive
CHECK_DEADLOCK FALSE
