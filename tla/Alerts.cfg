CONSTANTS
    NumMetrics = 2
    Values <- MCValues
    Off = Off
    Handlers = {h1, h2}
    None = None
    MaxAlerts = 2
SPECIFICATION Spec
INVARIANTS
    TypeOK
    AlertsAreJustified
PROPERTIES
    ResolvedFollowsCreated
    ImplementsStream
