SPECIFICATION FairSpec
CONSTANTS
    h1 = h1
    h2 = h2
    Hash = {h1, h2}
    Meta = {f}
    Content <- MCContent
    NoFile = NoFile
    Conn = {c1}
    NoBlock = NoBlock
    MaxArray = 2
    MaxRequests = 3
    MaxCrashes = 1
    MaxFaults = 1
    Batch = 2
    MaxTroubles = 1
INVARIANTS
    TypeOK
    RestoredIsContent
    UncompressIsSafe
PROPERTY RestoreEnds
CHECK_DEADLOCK FALSE
