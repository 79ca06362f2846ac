SPECIFICATION CallsSpec
CONSTANTS
    T1 = 1
    T2 = 8
    T4 = 10
    TD = 66
    Codes = {180, 200, 486}
    Forks = FALSE
    NxCodes = {100, 200, 404}
    MaxHanded = 2
    MaxCalls = 2
    MaxCSeq = 2
    PortLo = 10000
    PortHi = 10001
    Intervals = {0, 2, 4}
    TimerCalls = {1}
    MinSE = 4
    SdpOffers <- MCOffers
    Codecs <- MCCodecs
    Paths = {"direct", "deferred"}
    CallerPort = 20
    CalleePort = 30
INVARIANTS
    Agreement
    AckMeansTold
    HandedOnce
    NxAgreement
    RoutingConsistent
    RequestsAreRouted
    OfferAnswerAgree
PROPERTIES
    ImplementsOutcome
    TickSettles
    ChangesAreReported
