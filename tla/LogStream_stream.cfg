SPECIFICATION FairSpec
CONSTANTS
    Browsers = {b1}
    MaxChunks = 3
    Capacity = 2
    MaxConns = 2
    Faults = {"crash", "quiet", "lost"}
INVARIANTS
    TypeOK
    HubFollows
PROPERTIES
    ImplementsView
    EndIsSeen
CHECK_DEADLOCK FALSE
