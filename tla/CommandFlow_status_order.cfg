CONSTANTS
    Commands = {1}
    Conns = {11}
    NoConn = NoConn
    NoCommand = NoCommand
    AuthOk = AuthOk
SPECIFICATION Spec
PROPERTIES
    StatusFollowsOrder
