SPECIFICATION FairSpec
CONSTANTS
  MaxRetries = 2
  NumCmds = 1
  AlwaysRun = {1}
  HostCmds = {}
  Images = "work"
  UnlinksPidfile = FALSE
  Faults = {}
  MaxInvocations = 1
  MaxBoots = 2
  MaxKills = 1
PROPERTIES
  ShutDownWithoutParent
CHECK_DEADLOCK FALSE
