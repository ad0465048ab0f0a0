SPECIFICATION IpcSpec
CONSTANTS
    Frames = 8
    QueueLen = 4
    Profile <- MCProfile
    VMin = 600
    MaxLag = 5
    ReporterPeriod = 3
CHECK_DEADLOCK FALSE
INVARIANTS
    ReportConsistent
    RespondsFirst
    NoInversion
PROPERTIES
    SignalHandled
