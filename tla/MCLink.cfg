CONSTANTS
    Namespaces = {"host", "board"}
    Names = {"rpc", "data"}
    t = t
    u = u
    Types = {t, u}
    NoType = "none"
    EndpointHash <- MCHash
    Ends = {"host", "board"}
    Builds <- Versions
    Capacity <- MCCapacity
    TxCap = 2
    PingInterval = 1
    Timeout = 1
    TickFirst = {"host"}
    Restarting = {"host", "board"}
    Disturbances = {"any"}
    MaxRestarts = 2
SPECIFICATION Spec
SYMMETRY TypeSymmetry
INVARIANTS
    TypeOK
    DeliveredAsDeclared
PROPERTIES
    DisconnectedAfterSilence
