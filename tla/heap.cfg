SPECIFICATION Spec
CONSTANTS
    o1 = o1
    o2 = o2
    o3 = o3
    EdenStart = 1
    EdenWords = 2
    SurvivorWords = 4
    OldStart = 11
    OldEnd = 19
    CardWords = 3
    MAX_DIRECT = 3
    MAX_CHAIN_SKIP = 2
    Segment = 3
    MaxAge = 2
    VmRoots <- MCVmRoots
    CodeRoots <- MCCodeRoots
    Ids <- MCIds
    Shapes <- SmallAndBig
    None = None
    Operations <- All
INVARIANTS
    WellFormed
    GuaranteeHolds
    RememberedSet
    NoDoubleCopy
PROPERTIES
    GraphSpec
    AgesKept
CHECK_DEADLOCK FALSE
SYMMETRY Symmetry
