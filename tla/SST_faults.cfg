SPECIFICATION FairSpec
CONSTANTS
  MaxAttempts = 2
  MaxCrashes = 2
  Files = {"ibdata1", "tables"}
  Secrets = FALSE
  CleanRestart = TRUE
  Faults = {"slowJoiner", "slowDonor", "slowListen", "donorFails", "tailLost",
             "prepareFails", "signal"}
INVARIANTS
  BothSucceed
PROPERTIES
  KeepsPromise
  JoinerEnds
CHECK_DEADLOCK FALSE
