SPECIFICATION FairSpec
CONSTANTS
  MaxAttempts = 2
  MaxCrashes = 1
  Files = {"ibdata1", "tables"}
  Secrets = TRUE
  CleanRestart = FALSE
  Faults = {}
INVARIANTS
  TypeOK

  
CHECK_DEADLOCK FALSE
