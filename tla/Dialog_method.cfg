SPECIFICATION DlgSpec
CONSTANTS
    MaxCalls = 1
    MaxHandles = 2
    MaxExtras = 1
INVARIANT EstablishedByCallee
CHECK_DEADLOCK FALSE
