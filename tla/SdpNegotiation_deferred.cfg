SPECIFICATION CallsSpec
CONSTANTS
    T1 = 1
    T2 = 8
    T4 = 10
    TD = 66
    Codes = {}
    Forks = FALSE
    NxCodes = {100, 200, 404}
    MaxHanded = 2
    MaxCalls = 0
    MaxCSeq = 0
    PortLo = 10000
    PortHi = 10001
    Intervals = {}
    TimerCalls = {}
    MinSE = 4
    SdpOffers <- IceOffers
    Codecs <- MCCodecs
    Paths = {"deferred"}
    CallerPort = 20
    CalleePort = 30
INVARIANT DeferredAnswerAgrees
