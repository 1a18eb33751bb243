SPECIFICATION Spec
CONSTANTS
  MaxAttempts = 1
  MaxCrashes = 1
  Files = {"ibdata1", "tables"}
  Secrets = FALSE
  CleanRestart = TRUE
  Faults = {"signal"}
PROPERTIES
  SignalEndsGroup
CHECK_DEADLOCK FALSE
