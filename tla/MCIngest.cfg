SPECIFICATION FairSpec
CONSTANTS
    Conn = {c1, c2}
    Meta = {m1, m2}
    Hash = {h1, h2}
    NoBlock = NoBlock
    MaxArray = 2
    MaxRequests = 2
    MaxCrashes = 1
    MaxFaults = 1
INVARIANTS
    TypeOK
    
    NeededOnce
    OneBlockPerFault
PROPERTIES
    CompleteStays
    QueuedIsStored
CHECK_DEADLOCK FALSE
