CONSTANTS
  Ids = {0, 1, 2, 3}
  Capacity = 3
  MaxTail = 8
SPECIFICATION RingSpec
PROPERTIES
  ImplementsQueue
  PickEnds
