CONSTANTS
    T1 = 1
    T2 = 1
    T4 = 1
    TD = 1
    Reliable = FALSE
    Local = {}
    Remote = {"r1"}
    Methods = {"INVITE", "ACK"}
    Codes = {180, 200, 486}
    MaxHandle = 4
SPECIFICATION MgrSpec
PROPERTIES
    AckReachesTransaction
CHECK_DEADLOCK FALSE
