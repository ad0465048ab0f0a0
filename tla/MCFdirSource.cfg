SPECIFICATION FdirSpec
CONSTANTS
    Sensor = {"POWER"}
    Task = {"SAMPLER", "TELEMETRY"}
    MaxAttempts = 3
    ConfirmCycles = 2
    StreakMax = 255
    SeqMod = 2
    CounterMod = 2
INVARIANT
    EveryEventNamesItsSource
