CONSTANTS
    Commands = {1, 2}
    Conns = {11, 12, 13}
    NoConn = NoConn
    NoCommand = NoCommand
    AuthOk = AuthOk
SPECIFICATION MCSpec
INVARIANTS
    TypeOK
    ResultIsTrue
    SendFailedUnacknowledged
    ExecutedAtMostOnce
PROPERTIES
    FinalAfterDelivery
    ServedStaysRegistered
    ImplementsLifecycle
    EveryCommandEnds
