\* What ends by itself.
SPECIFICATION FairSpec
CONSTANTS
  LatchTime = 1
  RecoveryTime = 3
  ActuatorTime = 2
  ChargingTime = 2
  InrushTime = 0
  WaitTime = 1
  MaxHoldTime = 2
  CooldownTime = 1
  DebounceDelay = 1
  BlindTime = 1
  ClearTime = 1
  EmergencyTime = 1
  MaintenanceTimeout = 1
  SlowPeriod = 1
  WarmUp = 1
  TimerCap = 2
  Ttls = {4}
  Readings = {"fault", "critical", "strong"}
  Currents = {"idle", "stall"}
  Commands = {"reset_emergency", "maintenance_start", "close_for_charging"}
  NvsFaults = FALSE
PROPERTIES
  StrokesEnd
  WaitsEnd
  ChargingEnds
