SPECIFICATION Spec
CONSTANTS
    MaxDepth = 4
    MaxSerial = 5
    MaxDoits = 2
INVARIANTS
    FramesWellLinked
    CleanupsRun
    NlrReachesHome
