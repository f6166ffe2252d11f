SPECIFICATION Spec
CONSTANTS
    Classes = {"A", "B", "C"}
    Root = "A"
    Chain <- MCChain
    Selectors = {"c", "f"}
    NumSlots = 2
    SuperHolders = {"B"}
    PolyMax = 2
    InitDicts <- MCInitDicts
    Redefinitions <- MCRedefinitions
    CReceivers = {"B"}
    FReceivers = {"B", "C"}
    ColdSends <- MCColdSends
    Mortal = {"C"}
    Moves <- MCMoves
    MaxDepth = 2
    PicMax = 2
    TrapLimit = 1
    MaxVersions = 1
    Admit = {"skew"}
PROPERTY DispatchIsLookup
