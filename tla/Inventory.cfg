CONSTANTS
    Contents <- MCContents
    Keys = {"docker_inventory", "host_info"}
    Stuck = {"host_info"}
    Workers = 2
    MaxWire = 1
    MaxFaults = 2
SPECIFICATION FairSpec
INVARIANTS
    TypeOK
    OneJobPerKey
    ListsAreFresh
PROPERTIES
    FollowsDocker
    TableConverges
