SPECIFICATION RegSpec
CONSTANTS MaxCseq = 6  MaxNonce = 2
PROPERTY UnregisteredMeansUnbound
CHECK_DEADLOCK FALSE
