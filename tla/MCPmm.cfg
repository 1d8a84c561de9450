CONSTANTS
  Boots <- MCBoots
  MaxRegions = 3
  StackCap = 4
  HeldMax = 4
SPECIFICATION Spec
INVARIANTS
  TypeOK
  FramesDistinct
  FramesUsable
  CountsExact
  RecycleFits
