\* Three ids for a gate of two, a window shorter than the horizon.
SPECIFICATION CoordSpec
CONSTANTS
  Ids = {a, b, c}
  Window = 2
  MaxAccepted = 2
  Horizon = 3
SYMMETRY IdSymmetry
INVARIANTS
  CoordTypeOK
  DurableFirst
  ControllerExclusive
PROPERTIES
  NewestOnly
  IdOncePerBoot
  RunsInTime
  ForcedByOwner
  ForcedInTime
