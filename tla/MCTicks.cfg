CONSTANTS
  Users = {u1, u2}
  Idle = idle
  Kernel = kernel
  ProbeTicks = 2
  TestTicks = 2
  SchedTicks = 2
  Burst = 2
  MaxTicks = 10
SPECIFICATION FairSpec
INVARIANT EveryTickCharged
PROPERTY BootEnds
