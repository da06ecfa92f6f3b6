SPECIFICATION FairSpec
CONSTANTS
    a = a
    b = b
    top = top
    sub = sub
    link = link
    Name = {a, b}
    Dir = {top, sub, link}
    Root = {top, link}
    Parent <- MCParent
    Excluded = {b}
    Prefixed = {a}
    Inode = {1, 2}
    OnMount <- MCOnMount
    Nil = Nil
    QueueLen = 1
    MaxSecond = 1
    MaxWrites = 2
    MaxRenames = 1
    MaxStarts = 2
    MaxErrors = 1
INVARIANTS
    TypeOK
    LastVersionSaved
PROPERTIES
    SavedOnce
    Settles
CHECK_DEADLOCK FALSE
