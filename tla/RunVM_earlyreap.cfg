SPECIFICATION Spec
CONSTANTS
  MaxRetries = 2
  NumCmds = 1
  AlwaysRun = {1}
  HostCmds = {}
  Images = "work"
  UnlinksPidfile = FALSE
  Faults = {"earlyReap"}
  MaxInvocations = 1
  MaxBoots = 2
  MaxKills = 1
PROPERTIES
  MovedOnlyWhenDown
CHECK_DEADLOCK FALSE
