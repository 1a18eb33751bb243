SPECIFICATION Spec
CONSTANTS
  MaxRetries = 2
  NumCmds = 1
  AlwaysRun = {1}
  HostCmds = {}
  Images = "work"
  UnlinksPidfile = FALSE
  Faults = {}
  MaxInvocations = 2
  MaxBoots = 4
  MaxKills = 1
INVARIANTS
  ResultIsOwnOverlay
CHECK_DEADLOCK FALSE
