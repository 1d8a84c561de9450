CONSTANTS
  Slack = 1
  MaxEntries = 5
  MaxVersion = 8
SPECIFICATION LoaderSpec
INVARIANT HandoverCurrent
