SPECIFICATION OriginSpec
CONSTANTS
  Starts = {"bare", "guarded", "authenticated"}
  MaxRuns = 1
  MaxEvents = 3
  Wait = 1
  Window = 2
  Slack = 1
INVARIANTS
  AccessSound
  SessionTypeOK
  DiskLoads
PROPERTIES
  RunsAreWhole
  SessionsEnd
CHECK_DEADLOCK FALSE
