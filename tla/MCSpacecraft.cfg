SPECIFICATION CraftSpec
CONSTANTS
    Packet <- MCPacket
    Size <- MCSize
    Sent <- MCSent
    StoreCap = 2
    MaxPkt = 64
    Blank = Blank
    MaxStamp = 0
    TcMinLen = 13
    TcMaxLen = 256
    MaxTmPerTc = 4
    TmSeqMod = 16384
    HkSeqMod = 1
    MaxTm = 5
    MaxTc = 2
    MaxPass = 2
    TmKind <- MCTmKind
    Sensor = {}
    Task = {"SAMPLER"}
    MaxAttempts = 1
    ConfirmCycles = 1
    StreakMax = 255
    SeqMod = 3
    CounterMod = 1
CHECK_DEADLOCK FALSE
INVARIANTS
    GroundKnowsFdir
    GapsAreDrops
    ExitEventFirst
    RefusedVisibly
