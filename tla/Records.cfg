SPECIFICATION RecordsSpec
CONSTANTS
    Parts = {"journal", "log", "reset", "pass", "contact", "bus", "card"}
    Keys <- MCKeys SevOf <- MCSevOf Slots = 2 Repeat = 2 ClearAfter = 3 DrainEvery = 1 MaxTime = 4
    Capacity = 2 RetryAfter = 2 MaxPushes = 5
    Window = 1 Timeout = 3 Hangs <- MCHangs MaxResets = 2
    MaxRows = 3 Interval = 4 MaxAsks = 4 MaxSamples = 3 MaxFails = 2
    Debounce = 2 FaultLimit = 3 StaleAfter = 2 Pressures = {0, 2, 4} Thresholds <- MCThresholds MaxConfigs = 2
    Feet = 2 MaxFaults = 2 MaxReseats = 1 MaxScans = 1
    CacheSize = 3 MaxBytes = 4 MaxBusFaults = 3
PROPERTY RecordsAreTrue
PROPERTY StallsAreCaught
PROPERTY ContactIsTrue
PROPERTY ServiceResumes
CHECK_DEADLOCK FALSE
