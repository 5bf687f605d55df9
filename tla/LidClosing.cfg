\* A close between an emergency reset and the next update drives no motor.
SPECIFICATION Spec
CONSTANTS
  LatchTime = 1
  RecoveryTime = 3
  ActuatorTime = 2
  ChargingTime = 2
  InrushTime = 0
  WaitTime = 1
  MaxHoldTime = 2
  CooldownTime = 1
  DebounceDelay = 1
  BlindTime = 1
  ClearTime = 1
  EmergencyTime = 1
  MaintenanceTimeout = 1
  SlowPeriod = 1
  WarmUp = 1
  TimerCap = 2
  Ttls = {4}
  Readings = {"fault", "critical", "weak", "strong"}
  Currents = {"idle", "stall"}
  Commands = {"force_close", "reset_emergency"}
  NvsFaults = FALSE
INVARIANTS
  ClosingDrivesClose
