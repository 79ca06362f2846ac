SPECIFICATION StFairSpec
CONSTANTS
    Servers = {"tls"}
    Clients = {}
    PingRoles = {}
    Tasks = {"t1"}
    Items = {"body"}
    MaxConns = 1
    MaxItems = 1
    MaxPings = 0
    Capacity = 1
    MaxSize = 12
PROPERTY TlsSendEnds
CHECK_DEADLOCK FALSE
