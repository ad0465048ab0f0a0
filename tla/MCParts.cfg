SPECIFICATION PartsSpec
CONSTANTS
    p1 = p1
    p2 = p2
    big = big
    absent = absent
    Packet <- MCPacket
    Size <- MCSize
    StoreCap = 3
    MaxPkt = 2
    Blank = Blank
    MaxPuts = 7
    MaxStamp = 2

    TcMinLen = 13
    TcMaxLen = 256
    MaxTmPerTc = 4
    TmSeqMod = 5
    MaxTcs = 3
    Sent <- MCSent

    Sensor = {"POWER"}
    Task = {"SAMPLER", "TELEMETRY"}
    MaxAttempts = 3
    ConfirmCycles = 2
    StreakMax = 255
    SeqMod = 2
    CounterMod = 2
CHECK_DEADLOCK FALSE
INVARIANTS
    LossAccounted
    StampsNonDecreasing
    CountedOnce
    GroundKnows
    LogInSequence
    ReportsFit
    PersistentFaultReachesSafe
    LadderInOrder
    TrailTells
    IsolationConsistent
    ModeFollows
PROPERTIES
    ImplementsFifo
    SafeEntryJustified
    NoActionOnNoise
    CauseKept
