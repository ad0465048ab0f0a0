SPECIFICATION TaskSpec
CONSTANTS
    NTasks = 2
    WMod = 2
    MaxKicks = 1
    SpacecraftState <- MCState
    MaxAttempts = 1
    ConfirmCycles = 1
    StreakMax = 255
    SeqMod = 1
    CounterMod = 1
INVARIANTS
    StallsExact
PROPERTIES
    HungReachesSafe
    SafeNamesHung
