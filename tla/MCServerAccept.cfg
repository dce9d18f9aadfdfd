SPECIFICATION FairSpec
CONSTANTS
    a = a
    b = b
    q1 = q1
    q2 = q2
    q3 = q3
    Connections <- TwoConnections
    Requests <- ThreeRequests
    ConnOf <- Asked
    RpcRequests <- Rpc
    NoOne = NoOne
PROPERTIES
    ConnectionTakenUp
    RequestDecided
    ServeWindsUp
    LostConnectionCleared
    ConnectionKept
INVARIANTS
    ConnectionsAccounted
