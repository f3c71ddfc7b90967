SPECIFICATION ParsesSpec
CONSTANTS
    short = short
    long = long
    Sources <- TwoFiles
    Addr = {1, 2, 3, 4, 5, 6, 7}
    Allocate <- LowestFree
    TokenKinds = {"Word"}
    NodeKinds = {"File", "Key", "Value"}
    Texts = {short, long}
    TextSize <- Sizes
    MaxInterned = 1
    Builders = {b, c}
    Editors = {e}
    Free = Free
    NoText = NoText
    Nothing = Nothing
    MaxCursors = 1
    OutOfRange = FALSE
INVARIANTS
    TypeOK
    CacheExact
    CursorsAgree
PROPERTIES
    Immutable
    KeepsPromise
CHECK_DEADLOCK FALSE
