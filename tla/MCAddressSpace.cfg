CONSTANTS
  UserTasks = {1, 2}
  FrameCount = 18
  P2Count = 1
  Images <- MCImages
  HeapPages = 1
  WindowPages = 5
  PageBytes = 2
  Base = 4
  Width = 5
  Lengths <- MCLengths
  MaxLoads = 4
SPECIFICATION Spec
INVARIANTS
  FramesPartitioned
  WindowExact
  Isolation
