SPECIFICATION InputSpec
CONSTANTS
    Parts = {"pack", "bridge", "uplink", "downlink", "filter", "axes", "gait", "motion", "save"}
    CrsfMin = 191 CrsfMid = 992 CrsfMax = 1792 SwitchMax = 31 BtnToggleMax = 143 NavMax = 35
    ArmSteps = 511 ArmOnBase = 1536 ArmCodeMax = 2047 Jitter = 5
    PotGrid = {0, 1, 2, 499, 500, 501, 998, 999, 1000} StickGrid <- MCSticks
    Refractory = 2 Repeat = 4 CaptureHold = 3 ArmRelease = 2 Failsafe = 3 ModeDebounce = 2 DetectFrames = 2
    MaxFrac = 2 MaxTrim = 1 MaxPeriod = 2 MaxPerPass = 2 CounterMod = 2 Revisions = {1} Hands <- MCHands
    ByteBits = 2 SyncByte = 1 TypeRc = 2 TypeStats = 3 RcPayload = 1 StatsPayload = 0 MaxFrameLen = 5 Poly = 1
    StatusPeriod = 12 BoostPeriod = 3 AttitudePeriod = 6 BatteryPeriod = 15 MaxGap = 2
    FullScale = 3
    One = 8 Tolerance = 1 AxisRaws <- MCRaws AxisCals <- MCCals AxisBindings <- MCAxisBindings
    Strides = {0, 80} Twists <- MCTwists
    MaxTick = 2 Slew = 1 Accel = 1 Decel = 2 MaxVel = 2 MaxDt = 2 Stalls = TRUE
    MaxPresses = 3 MaxEdits = 2
PROPERTY ControlsArriveAsHeld
PROPERTY SwitchesAreDebounced
INVARIANT LinkRecovers
PROPERTY StanceIsRigid
PROPERTY MotionIsSmooth
PROPERTY GaitSavesHold
CHECK_DEADLOCK FALSE
