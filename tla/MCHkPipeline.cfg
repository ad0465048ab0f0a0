SPECIFICATION PipelineSpec
CONSTANTS
    Frames = 10
    QueueLen = 4
    Profile <- MCProfile
    VMin = 600
    MaxLag = 6
CHECK_DEADLOCK FALSE
INVARIANTS
    EachFrameOnce
    NothingLost
PROPERTIES
    EndsUnlessLost
    ImplementsLoop
