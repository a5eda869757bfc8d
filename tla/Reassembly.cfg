SPECIFICATION FairSpec
CONSTANTS
    Parts <- MCParts
    SplitIds = 3
INVARIANTS
    TypeOK
    InOrderIntact
    NothingLeftBehind
    NoStall
PROPERTIES
    ImplementsFairChannel
