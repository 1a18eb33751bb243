SPECIFICATION Spec
CONSTANTS
  MaxRetries = 2
  NumCmds = 1
  AlwaysRun = {1}
  HostCmds = {}
  Images = "work"
  UnlinksPidfile = FALSE
  Faults = {}
  MaxInvocations = 1
  MaxBoots = 3
  MaxKills = 0
PROPERTIES
  RetriesBeforeGivingUp
CHECK_DEADLOCK FALSE
