CONSTANTS
    Nodes = {n1, n2}
    Bucket = 2
    Retention = 6
    RollupRetention = 8
    Range = 5
    Batch = 1
    Late = 1
    Ahead = 3
    RollupWithin = 3
    MaxSilence = 2
    MaxRows = 4
    MaxTime = 9
SPECIFICATION Spec
SYMMETRY Symmetry
PROPERTIES
    RollupKeepsSamples
CHECK_DEADLOCK FALSE
