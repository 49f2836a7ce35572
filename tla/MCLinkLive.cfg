CONSTANTS
    Namespaces = {"host", "board"}
    Names = {"rpc", "data"}
    t = t
    u = u
    Types = {t, u}
    NoType = "none"
    EndpointHash <- MCHash
    Ends = {"host", "board"}
    Builds <- Reflash
    Capacity <- MCCapacity
    TxCap = 2
    PingInterval = 1
    Timeout = 2
    TickFirst = {"host", "board"}
    Restarting = {"board"}
    Disturbances = {"loss", "change"}
    MaxRestarts = 1
SPECIFICATION FairSpec
PROPERTIES
    ViewsConverge
