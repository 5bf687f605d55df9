SPECIFICATION EvidenceSpec
CONSTANTS
  Gap = {1, 2}
  Span = {4, 5}
  BootGap = {2, 3, 4}
  Late = 1
  Tolerance = 1
  Recent = 1
  Seconds = 1
  MaxTime = 9
  MaxChecks = 3
  MaxMishaps = 1
INVARIANTS
  EvidenceSound
  AcceptanceTrue
CHECK_DEADLOCK FALSE
