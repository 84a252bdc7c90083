SPECIFICATION HostSpec
CONSTANTS
    Parts = {"frames", "telemetry", "jobs", "targets", "bindings", "requests", "trace", "fragments"}
    ByteBits = 2 Poly = 3 CrcInit = 15 Magic = 2 MsgIds = {1} MaxPayload = 2 MaxNoise = 13 MaxFrames = 2
    NumStreams = 2 MaxRate <- MCMaxRate AlwaysSent = {0} Rates = {1, 3} Second = 2
    TimeMod = 6 MaxLate = 3 MaxTime = 6 MaxRequests = 2
    Servos = {1, 2} Ranges <- MCRanges Values = {1} IdMod = 3 MaxFaults = 1
    Legs = {1, 2} Joints = {1, 2} Mapped <- MCMapped MaxSessions = 2
    BindMessages <- MCBindMessages DefaultMap <- MCDefaultMap NumAxes = 2 LastSource = 2 LastTrick = 2 FullScale = 2
    Slots = 3 MaxMessages = 4
    Feet = {1, 2} CountMod = 8 MaxAsked = 3
    RingCapacity = 1 StepCounts = {2} MaxCaptures = 2 MaxHilAsks = 2 MaxSurprises = 1
    FragmentData = 2 Lengths = {1, 3, 4} MaxRecords = 3
PROPERTY TransportIsFaithful
PROPERTY MaintenanceIsHonest
PROPERTY SettingsAreCurrent
PROPERTY HostWorkCompletes
CHECK_DEADLOCK FALSE
