SPECIFICATION DxlSpec
CONSTANTS
  Servos = {s1, s2}
  BootCycles = 2
  BusFailLimit = 2
  MaxLag = 1
  Jobs = {"PowerOn", "PowerOff", "Scan", "TorqueOn", "TorqueOff", "TorqueOne", "Eeprom"}
  BusMayFail = TRUE
  AckMayBeLost = TRUE
SYMMETRY ServoSymmetry
INVARIANT StoppedIsUnpowered
PROPERTY SeededBeforeEnabled
PROPERTY StandReadyHoldsTorque
