SPECIFICATION Spec
CONSTANTS
    Hash = {h1, h2}
    Cut = {h1}
    Void = {h2}
    DataThread = DataThread
    Thread = {t1}
    NoCall = NoCall
    MaxPosts = 2
    MaxAsks = 2
    MaxOutages = 1
    MaxStarts = 2
INVARIANTS
    TypeOK
    UnneededIsStored
    StoredIsInBuckets
    GivenIsContent
CHECK_DEADLOCK FALSE
