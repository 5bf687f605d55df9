\* The observer with its operators: crashes, refusals, reboots, failing steps.
SPECIFICATION DeploySpec
CONSTANTS
  Readings <- MCReadings
  Existing = {"none", "old"}
  PendingMax = 2
  HistoryMax = 4
  MaxChanges = 2
  MaxMishaps = 1
  MaxRuns = 1
INVARIANTS
  DeployTypeOK
  NoStaleAlarm
  DeployedQueueSound
  UpgradeRecoverable
  FailedRunUndone
PROPERTIES
  AlarmReachesOwner
CHECK_DEADLOCK FALSE
