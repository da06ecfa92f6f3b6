SPECIFICATION Spec
CONSTANTS
    NbNames = 3
    NbTimes = 3
    Base <- MCBase
    Dir <- MCDir
    Kind <- MCKind
    Dangling = {1}
    DateString <- MCDateString
    Like <- MCLike
    MaxLines = 3
INVARIANTS
    TypeOK
    LatestIsRestored
    AskedIsRestored
PROPERTY NothingOverwritten
CHECK_DEADLOCK FALSE
