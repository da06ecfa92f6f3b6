SPECIFICATION FairSpec
CONSTANTS
    tiny = tiny
    small = small
    big = big
    h1 = h1
    h2 = h2
    File = {tiny}
    Hash = {h2}
    Content <- MCContent
    Small = {tiny}
    NoFile = NoFile
    BufferLen = 1
    Conn = {c1, c2}
    NoBlock = NoBlock
    NoConn = NoConn
    Broken = Broken
    MaxArray = 1
    Compression = "zlib"
    MaxClientCrashes = 1
    MaxCrashes = 0
    MaxFaults = 0
    MaxLost = 2
    MaxRequests = 7
PROPERTIES
    ServerSpec
    CachedIsRestorable
CHECK_DEADLOCK FALSE
