SPECIFICATION FairSpec
CONSTANTS
    c1 = c1
    c2 = c2
    Servers <- MCServers
    Leader = 1
    PoolSize <- Pools12
    Clients = {c1}
    Home <- AtFollower
    Heartbeats <- FollowerBeats
    MaxRequests = 1
    Stoppable = {1, 2}
CHECK_DEADLOCK FALSE
INVARIANTS
    TypeOK
    SocketOwned
    PoolInv
PROPERTIES
    AnsweredOrStarved
    StopReturns
