SPECIFICATION CatalogueSpec
CONSTANTS
    n1 = n1
    n2 = n2
    target = target
    root = root
    alice = alice
    malice = malice
    empty = empty
    nullText = nullText
    any = any
    tilde = tilde
    h1 = h1
    h2 = h2
    e1 = e1
    e2 = e2
    e3 = e3
    e4 = e4
    e5 = e5
    e6 = e6
    e7 = e7
    e8 = e8
    Text = {n1, n2, target, root, alice, malice, empty, nullText}
    Empty = empty
    NULL = NULL
    NullText = nullText
    Garbled = Garbled
    Chars <- MCChars
    Encoded <- MCEncoded
    Hash = {h1, h2}
    Octets <- MCOctets
    Comma = Comma
    Quote = Quote
    NewLine = NewLine
    MaxInt32 = 7
    Meta <- MCMeta
    ClientQuery <- MCQuery
    Pattern = {any, n1, tilde, root, alice}
    TextsLike <- MCLike
    Plus = {tilde}
    Chunk = {23}
    TornAt = {16, 21}
    NoQuery = NoQuery
    NoAnswer = NoAnswer
    MaxSaved = 3
    MaxTorn = 1
    MaxQueries = 1
INVARIANTS
    CatalogueTypeOK
    AskedIsListed
    ListedIsSaved
CHECK_DEADLOCK FALSE
