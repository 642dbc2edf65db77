CONSTANTS
    Notifiers = {n1, n2}
    NoNotifier = NoNotifier
    Workers = {w1, w2}
    Hooks = 2
    QueueSize = 2
    MaxAttempts = 2
    MaxEvents = 2
SPECIFICATION FairSpec
INVARIANTS
    TypeOK
    Accounted
    InflightIsHeld
    HeldJobHasClient
    JobsInOrder
PROPERTIES
    EveryJobSettles
CHECK_DEADLOCK FALSE
