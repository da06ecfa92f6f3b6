SPECIFICATION Spec
CONSTANTS
    tiny = tiny
    small = small
    big = big
    h1 = h1
    h2 = h2
    File = {small, big}
    Hash = {h1, h2}
    Content <- MCContent
    Small = {small}
    NoFile = NoFile
    BufferLen = 1
    Conn = {c1, c2}
    NoBlock = NoBlock
    NoConn = NoConn
    Broken = Broken
    MaxArray = 2
    Compression = "zlib"
    MaxClientCrashes = 0
    MaxCrashes = 1
    MaxFaults = 1
    MaxLost = 0
    MaxRequests = 10
INVARIANTS
    AnswerIsWorth
    CachedIsHeld
PROPERTY ClientSpec
CHECK_DEADLOCK FALSE
