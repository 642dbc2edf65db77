CONSTANTS
    Nodes = {n1, n2}
    Bucket = 2
    Retention = 8
    RollupRetention = 10
    Range = 5
    Batch = 1
    Late = 1
    Ahead = 0
    RollupWithin = 1
    MaxSilence = 3
    MaxRows = 5
    MaxTime = 12
SPECIFICATION Spec
SYMMETRY Symmetry
INVARIANTS
    TypeOK
PROPERTIES
    RollupKeepsSamples
    PrunedAfterRollup
    ChartKeepsSamples
CHECK_DEADLOCK FALSE
