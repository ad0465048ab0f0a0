SPECIFICATION PipelineSpec
CONSTANTS
    Frames = 10
    QueueLen = 4
    Profile <- MCProfile
    VMin = 600
    MaxLag = 3
CHECK_DEADLOCK FALSE
INVARIANTS
    SafeKept
