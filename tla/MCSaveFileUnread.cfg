SPECIFICATION Spec
CONSTANTS
    small = small
    big = big
    h1 = h1
    h2 = h2
    File = {small, big}
    Hash = {h1, h2}
    Content <- MCContent
    Small = {small}
    NoFile = NoFile
    BufferLen = 2
    MaxCrashes = 0
INVARIANT EverythingTransmitted
CHECK_DEADLOCK FALSE
