CONSTANTS
  Components = {"", ".", "..", "a", "b", "bin", "demo", "hello", "log.txt", "tmp"}
  Initramfs <- MCInitramfs
  OpenedPaths <- MCPaths
  Bytes = {2}
  MaxNodes = 5
  DescCap = 3
  SelfTestLeft = 1
  MinCap = 1
  MaxSize = 2
SPECIFICATION Spec
INVARIANT EveryFileListed
