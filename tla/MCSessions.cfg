SPECIFICATION SessSpec
CONSTANTS
    T1 = 1
    T2 = 1
    T4 = 1
    TD = 1
    Reliable = FALSE
    Local = {"l1"}
    Remote = {"r1"}
    Methods = {"INVITE", "ACK", "CANCEL"}
    Codes = {180, 200, 486}
    MaxHandle = 4
    SE = 6
    MinSE = 6
    MaxDelay = 1
    TimerF = 2
    Callers = {"a", "b"}
    RtpPorts = {2, 4}
    EndCap = 1
    CallTimeout = 0
    MaxInvites = 2
    Texts = {"t1", "t2"}
    SilenceTime = 4
    StableBonus = 1
    MinUtterance = 3
    MaxTurns = 2
INVARIANTS
    Consistent
    OrphansHarmless
    OneRefresher
    ActiveIsServed
PROPERTIES
    ResponsesDoNotCross
    NoLeak
    AnsweredCallsStayUp
    SilenceEndsTheCall
    CallsEnd
    TurnIsTaken
