SPECIFICATION SvcSpec
CONSTANTS
    T1 = 1
    T2 = 8
    T4 = 2
    TD = 66
    Reliable = FALSE
    MaxRel = 2
    MaxCseq = 4
    MaxNonce = 2
    MaxCalls = 1
    MaxHandles = 2
    MaxExtras = 2
    MaxExchanges = 4
    MaxRefers = 2
    Hosts <- MCHosts
    Mapped <- MCMapped
    Topologies <- MCTopologies
    MaxRuns <- MCRuns
    Retries = 2
    Lifetimes = {0, 2}
    Default = 1
    RelayPeers = {7}
    MaxTxns = 6
    MaxNonces = 2
    SeqSpace = 4
    TsSpace = 128
    RocSpace = 4
    Spp = 2
    MinDelay = 2
    MaxDelay = 6
    InitialDelay = 2
    InitSeqs = {2}
    InitStamps = {124}
    Gaps = {8}
    MaxPackets = 4
    MaxArrivals = 4
    MaxFrames = 5
    Digits = {"1", "2"}
    Durations = {2, 3}
    MaxPresses = 3
INVARIANTS
    OneFate
    RegisteredMeansBound
    TablesAgree
    ConfirmedByBoth
    MediaAgrees
    OutcomeIsTrue
    SessionIsUsable
    PendingIsCurrent
    RelayIsAsTold
    InWindowAccepted
    StatisticsTrue
    EveryPressReported
PROPERTIES
    PlayedInOrder
CHECK_DEADLOCK FALSE
