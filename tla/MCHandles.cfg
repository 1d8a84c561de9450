CONSTANTS
  MaxTasks = 4
  Std = 1
  Fds = 2
  DescCap = 8
SPECIFICATION Spec
INVARIANTS
  TypeOK
  HandlesExact
  PoolSuffices
