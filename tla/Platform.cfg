SPECIFICATION PlatformSpec
CONSTANTS
    Parts = {"cond", "thread", "guard", "heap", "clock", "sil", "schema", "objects"}
    Consumers = {"a", "b"} Producers = {"p", "q"} MaxItems = 2
    Slots = {"x", "y"} MaxThreads = 2
    GuardTasks = {"main", "t", "u"} MainTask = "main" Statics = {1, 2} MaxAborts = 1
    HeapTasks = {"h", "k"} MaxDepth = 3 HeapLimit = 3 Increments <- MCIncrements
    PeriodCycles = 4 MaxLate = 2 MaxCycles = 10
    SilFeet = {1, 2} SilJoints = {1, 2} FeedbackTimeout = 1 ContactTimeout = 1 GapLimit = 2 MaxValidity = 1
    ContactMessages <- MCContactMessages JointMessages <- MCJointMessages Validities = {1, 3}
    ByteBase = 16 NameLen = 2 NumLegs = 2 JointsPerLeg = 2 NumFeet = 2 NumChannels = 8
    MaxId = 15 MaxTick = 200 HeightRange <- MCHeightRange MaxStride = 60 MaxStep = 30
    MaxDeadband = 5 MaxTau = 9 MaxDebounce = 9 MaxScale = 20 MaxAccel = 30 MaxRate = 40 KnownFeatures = 31
    Profile <- MCProfile Servo <- MCServo Analog <- MCAnalog Body <- MCBody Candidates <- MCCandidates
    Handles = {"p", "q"} HeapBytes = 7 SizeMax = 15 QueueHead = 2 BufferHead = 1 GroupSize = 1 TimerSize = 1
    TcbSize = 2 StackSize = 3 Lengths = {0, 1, 3} ItemSizes = {0, 3, 5, 15} Buffers <- MCBuffers
PROPERTY ThreadsAreSound
PROPERTY PlatformWorkCompletes
INVARIANT LibraryPortIsSound
PROPERTY ObjectsAreSound
INVARIANT ConfigSurvives
PROPERTY SilFailsClosed
CHECK_DEADLOCK FALSE
