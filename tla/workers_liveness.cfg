SPECIFICATION FairSpec
CONSTANTS
    w1 = w1
    w2 = w2
    primary = primary
    Senders <- MCSenders
    Incs <- MCIncs
    Drainer = primary
    Envelopes <- MCEnvelopes
    Hosts <- Gui
    MaxSends = 12
    MAX_WORKERS = 2
    None = None
    MaxCorr = 1
    MaxTraffic = 1
    FatalExits = FALSE
PROPERTIES
    Drained
    DeathReported
    RequestServedOrDeathReported
    TerminatedThreadEnds
CHECK_DEADLOCK FALSE
