CONSTANTS
    Commands = {c1, c2}
    Interval = 5
    MaxRetry = 30
    FloatLimit = 8
SPECIFICATION FairSpec
INVARIANTS
    TypeOK
    ThreadHasWaiter
    NothingRunsAfterClose
PROPERTIES
    TimeoutsAreTold
    DueWorkIsDone
CHECK_DEADLOCK FALSE
