SPECIFICATION Spec
CONSTANTS
  MaxAttempts = 2
  MaxCrashes = 1
  Files = {"ibdata1", "tables"}
  Secrets = FALSE
  CleanRestart = FALSE
  Faults = {}
PROPERTIES
  PreviousCompleted
CHECK_DEADLOCK FALSE
