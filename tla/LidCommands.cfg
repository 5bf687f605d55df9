\* Every command and OTA request, resets and failing Preferences.
SPECIFICATION Spec
CONSTANTS
  LatchTime = 1
  RecoveryTime = 3
  ActuatorTime = 2
  ChargingTime = 2
  InrushTime = 0
  WaitTime = 1
  MaxHoldTime = 2
  CooldownTime = 1
  DebounceDelay = 1
  BlindTime = 1
  ClearTime = 1
  EmergencyTime = 1
  MaintenanceTimeout = 1
  SlowPeriod = 1
  WarmUp = 1
  TimerCap = 2
  Ttls = {1, 2, 4}
  Readings = {"fault", "critical", "weak", "strong"}
  Currents = {"idle", "stall"}
  Commands = {"force_open", "force_close", "reset_emergency", "maintenance_start", "maintenance_stop", "normal", "recovery", "force", "power_loss"}
  NvsFaults = TRUE
INVARIANTS
  TypeOK
  HeldMeansShutdown
  DrivenOnlyInStroke
  OpeningDrivesOpen
PROPERTIES
  AdmittedStart
  FailOpenOnce
