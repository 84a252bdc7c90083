SPECIFICATION Spec
CONSTANTS
  BatteryLowDebounce = 2
  ArmingTimeout = 3
  IdleDisarm = 3
  MaxPeriod = 2
  Inputs <- MCInputs
INVARIANT EngagedNeedsRelease
INVARIANT ReasonExplainsState
INVARIANT BoundedWaits
PROPERTY ImplementsPolicy
