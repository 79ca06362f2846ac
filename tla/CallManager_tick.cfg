SPECIFICATION CmSpec
CONSTANTS
    MaxCalls = 1
    MaxCSeq = 3
    PortLo = 10000
    PortHi = 10001
    Intervals = {0, 4}
    TimerCalls = {1}
    MinSE = 4
PROPERTY SecondTickIsIdle
CHECK_DEADLOCK FALSE
