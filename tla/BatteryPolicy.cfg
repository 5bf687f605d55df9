\* Cutoff 11.0 V.  The voltages: critical, each side of every grade's margin,
\* the force floor, the recovery voltage, and one above 16 V.
SPECIFICATION PolicySpec
CONSTANTS
  Voltages = {110, 113, 114, 116, 117, 118, 120, 165}
  Cutoff = 110
  LatchTime = 2
  RecoveryTime = 4
  ReadyTime = 3
  WarnTime = 4
  StateTime = 3
  MaxGap = 1
INVARIANTS
  SignalsSustained
  WarningNotLost
PROPERTIES
  ImplementsGate
  GradeDwells
