SPECIFICATION FairSpec
CONSTANTS
  MaxRetries = 2
  NumCmds = 1
  AlwaysRun = {1}
  HostCmds = {}
  Images = "plain"
  UnlinksPidfile = TRUE
  Faults = {}
  MaxInvocations = 2
  MaxBoots = 4
  MaxKills = 1
PROPERTIES
  InvocationEnds
  NextInvocationEndsStray
  CommandsInOwnVm
  KeepsSession
CHECK_DEADLOCK FALSE
