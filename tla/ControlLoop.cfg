SPECIFICATION MCSpec
CONSTANTS
  BatteryLowDebounce = 1
  ArmingTimeout = 2
  IdleDisarm = 0
  MaxPeriod = 1
  Inputs = {}
  RcTimeout = 1
  ArmReleaseDebounce = 1
  JetsonTtl = 1
  LockTtl = 1
  OverrunPeriod = 3
  ApiWindow = 1
  Frames <- AllFrames
  HostMessages <- AllMessages
  Environments <- AllEnvironments
  Scenarios <- WalkOrBench
INVARIANT AuthorityMatchesState
INVARIANT MaintenanceFollowsHost
PROPERTY StopTakesOneCycle
PROPERTY HeldSwitchNeverRearms
