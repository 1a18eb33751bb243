SPECIFICATION Spec
CONSTANTS
  MaxRetries = 2
  NumCmds = 3
  AlwaysRun = {2}
  HostCmds = {1}
  Images = "work"
  UnlinksPidfile = FALSE
  Faults = {"earlyReap","slowStart","mvFails"}
  MaxInvocations = 1
  MaxBoots = 4
  MaxKills = 1
INVARIANTS
  CommandDiscipline
  BootBudget
CHECK_DEADLOCK FALSE
