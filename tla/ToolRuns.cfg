SPECIFICATION Spec
CONSTANTS
  MaxRuns = 2
  MaxAttempts = 1
  Limit = 1
  MaxOutput = 2
  Faults <- AllFaults
  MaxFaults = 1
INVARIANTS
  TypeOK
  NoSurvivors
  OutputComplete
PROPERTY Returns
CHECK_DEADLOCK FALSE
