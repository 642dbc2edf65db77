CONSTANTS
    MaxChanges = 2
    MaxSockets = 3
SPECIFICATION FairSpec
INVARIANTS
    ClientsMissNothing
PROPERTIES
    FeedConverges
