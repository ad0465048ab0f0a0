SPECIFICATION ObdhSpec
CONSTANTS
    Packet <- MCPacket
    Size <- MCSize
    Sent <- MCSent
    StoreCap = 2
    MaxPkt = 64
    Blank = Blank
    MaxStamp = 1
    TcMinLen = 13
    TcMaxLen = 256
    MaxTmPerTc = 4
    TmSeqMod = 4
    HkSeqMod = 2
    MaxTm = 4
    MaxTc = 1
    MaxPass = 2
    TmKind <- MCTmKind
CHECK_DEADLOCK FALSE
INVARIANTS
    NothingHeldInContact
    LossVisible
    HoldsTheNewest
    InOrder
    StoredFirst
