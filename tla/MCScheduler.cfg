CONSTANTS
  MaxTasks = 5
  ReadyCap = 4
  ExitCodes = {0, 42}
SPECIFICATION Spec
INVARIANTS
  TypeOK
  QueueExact
  CurrentLive
  NoInternalPanic
  ParentsLive
  WaitTargetIsChild
  TaskCountTight
  HardwareMatchesCurrent
  SomebodyProgresses
PROPERTIES
  ZombieKept
  ImplementsTable
