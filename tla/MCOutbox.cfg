SPECIFICATION FairSpec
CONSTANTS
    File = {f1}
    NbReq = 3
    MaxCrashes = 1
    MaxLost = 1
INVARIANTS
    TypeOK
    NothingLost
    MarkedWasPosted
    RepostNeedsFault
PROPERTIES
    OnlyPostedLeaves
    SaveReturns
CHECK_DEADLOCK FALSE
