SPECIFICATION IpcSpec
CONSTANTS
    Frames = 8
    QueueLen = 4
    Profile <- MCProfile
    VMin = 600
    MaxLag = 1
    ReporterPeriod = 3
CHECK_DEADLOCK FALSE
PROPERTIES
    WakesOnEntry
