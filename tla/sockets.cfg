SPECIFICATION Spec
CONSTANTS
  MaxId = 3
  ListenPort = {80}
  EphLow = 90
  EphHigh = 91
  Remote = {r1, r2}
  Backlog = 1
  MaxHistory = 1
  MaxBytes = 1
INVARIANT TablesExact
INVARIANT HandlesLead
INVARIANT EofMeansDrained
SYMMETRY RemoteSymmetry
PROPERTY EvictsOldestAtLimit
CHECK_DEADLOCK FALSE
