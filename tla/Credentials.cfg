CONSTANTS
    n1 = n1
    n2 = n2
    Nodes = {n1, n2}
    Credentials <- MCCredentials
    NoTokenId = "none"
    Hosts = {h1}
    MaxFailures = 2
    MaxOpen = 2
SPECIFICATION FairSpec
INVARIANTS
    TypeOK
    ServedIsEnabled
    RevokedStaysOut
    FailuresAreLimited
PROPERTIES
    RevokedSecretStaysOut
    ReloadEnds
