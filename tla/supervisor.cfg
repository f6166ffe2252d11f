SPECIFICATION Spec
CONSTANTS
    MaxGens = 3
    MaxCorr = 2
    MaxNest = 1
    MaxRebuilds = 1
    MaxFileIns = 1
    MaxBootFailures = 2
INVARIANTS
    TypeOK
    AnsweredOnce
    NothingForgotten
PROPERTIES
    Recovered
    RestartReplaces
    FileInServed
