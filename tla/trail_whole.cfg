SPECIFICATION Spec
CONSTANTS
  Named = {"cfKey"}
  MaxArrivals = 2
  MaxPurges = 2
  MaxRaces = 1
  MaxUpsets = 1
  None = None
INVARIANTS
  TrailIsWhole
  StageWasCurrent
  PurgeClears
PROPERTY
  ComesToRest
CHECK_DEADLOCK FALSE
