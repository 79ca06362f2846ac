SPECIFICATION ProgSpec
CONSTANTS
    Hosts <- MCHosts
    Mapped <- MCMapped
    Topologies <- MCTopologies
    MaxRuns <- MCRunsAnswerer
    Servers = {"tcp"}
    Clients = {"tcp", "tls"}
    PingRoles = {"client"}
    Tasks = {"t1"}
    Items = {"body", "ping"}
    MaxConns = 2
    MaxItems = 2
    MaxPings = 1
    Capacity = 1
    MaxSize = 12
    InitialRate = 32
    MinRate = 6
    MaxRate = 64
    PacketBits = 10
    Step = 10
    Rembs = {3, 20, 40}
    MaxFeedback = 3
    MaxCount = 1
INVARIANTS
    FramesIntact
    CeilingHeld
PROPERTIES
    RunsEnd
    SendEnds
    CodecFollows
CHECK_DEADLOCK FALSE
