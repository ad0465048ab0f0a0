SPECIFICATION BothSpec
CONSTANTS
    TcMinLen = 13
    TcMaxLen = 256
    MaxTmPerTc = 4
    TmSeqMod = 16384
    Commands <- MCCommands
    MaxCommands = 1
    MaxHarm = 2
    Filling <- MCFilling
    Room = {20, 64}
    StartSeq = 16383
    MaxTm = 2
CHECK_DEADLOCK FALSE
INVARIANTS
    RefusedForItsCause
    ReportsNameTheCommand
    ReadsBack
    CountsWithoutGap
PROPERTIES
    OnlySoundActs
