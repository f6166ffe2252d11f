SPECIFICATION Spec
CONSTANTS
    w1 = w1
    w2 = w2
    primary = primary
    Senders <- MCSenders
    Incs <- MCIncs
    Drainer = primary
    Envelopes <- MCEnvelopes
    Hosts <- EveryHost
    MaxSends = 12
    MAX_WORKERS = 1
    None = None
    MaxCorr = 2
    MaxTraffic = 2
    FatalExits = TRUE
INVARIANTS
    TypeOK
    AnsweredByTarget
    NoOrphan
    NoticesAreReal
    NoLostWakeup
    FlagMeansWake
PROPERTIES
    InboxSpec
CHECK_DEADLOCK FALSE
SYMMETRY Symmetry
