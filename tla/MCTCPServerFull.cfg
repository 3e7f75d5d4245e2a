SPECIFICATION FairSpec
CONSTANTS
    c1 = c1
    c2 = c2
    Servers <- MCServers
    Leader = 1
    PoolSize <- Pools22
    Clients = {c1, c2}
    Home <- AtFollower
    Heartbeats = {}
    MaxRequests = 1
    Stoppable = {}
CHECK_DEADLOCK FALSE
PROPERTIES
    Answered
