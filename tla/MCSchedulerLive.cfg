CONSTANTS
  MaxTasks = 5
  ReadyCap = 4
  ExitCodes = {42}
SPECIFICATION FairSpec
PROPERTIES
  NoStarvation
  WaitReturns
