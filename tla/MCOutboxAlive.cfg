SPECIFICATION FairSpec
CONSTANTS
    File = {f1}
    NbReq = 2
    MaxCrashes = 0
    MaxLost = 0
PROPERTY AliveWhenUp
CHECK_DEADLOCK FALSE
