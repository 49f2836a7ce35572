CONSTANTS
    Namespaces = {"board", "host"}
    Names = {"a", "b"}
    Types = {"t", "u"}
    NoType = "none"
    EndpointHash <- MCHash
    Ends = {"board", "host"}
    Rows <- MCRows
    Capacity <- MCCapacity
SPECIFICATION Spec
INVARIANTS
    TypeOK
    ValidationSymmetric
    AcceptedHashesAgree
CHECK_DEADLOCK FALSE
