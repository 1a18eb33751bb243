SPECIFICATION FairSpec
CONSTANTS
  MaxRetries = 2
  NumCmds = 1
  AlwaysRun = {1}
  HostCmds = {}
  Images = "work"
  UnlinksPidfile = FALSE
  Faults = {}
  MaxInvocations = 2
  MaxBoots = 5
  MaxKills = 0
INVARIANTS
  TypeOK
  ResultIsOwnOverlay
  NothingLeftRunning
PROPERTIES
  MovedOnlyWhenDown
  NoCreateUnderVm
  InvocationEnds
CHECK_DEADLOCK FALSE
