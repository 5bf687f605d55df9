\* A protection latched during an update is not saved.
SPECIFICATION Spec
CONSTANTS
  LatchTime = 1
  RecoveryTime = 3
  ActuatorTime = 2
  ChargingTime = 2
  InrushTime = 0
  WaitTime = 1
  MaxHoldTime = 2
  CooldownTime = 1
  DebounceDelay = 1
  BlindTime = 1
  ClearTime = 1
  EmergencyTime = 1
  MaintenanceTimeout = 1
  SlowPeriod = 1
  WarmUp = 1
  TimerCap = 2
  Ttls = {4}
  Readings = {"fault", "critical", "weak", "strong"}
  Currents = {"idle", "stall"}
  Commands = {"normal", "power_loss"}
  NvsFaults = FALSE
INVARIANTS
  LatchSurvivesReset
