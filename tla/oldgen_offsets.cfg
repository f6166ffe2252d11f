SPECIFICATION Spec
CONSTANTS
    OldStart = 0
    OldEnd = 13
    CardWords = 2
    MAX_DIRECT = 2
    MAX_CHAIN_SKIP = 2
    Segment = 4
    Sizes <- MCSizes
INVARIANTS
    TypeOK
    ResolveFindsHeader
    SlideIsSafe
    ChainStaysInObject
CHECK_DEADLOCK FALSE
