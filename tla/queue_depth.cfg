SPECIFICATION FairDepthSpec
CONSTANTS
  MaxRows = 1
  OwnRow = 1
  DepthQueueSize = 1
  MaxFetches = 2
  MaxJobFrames = 1
  DepthFaults = 1
CHECK_DEADLOCK FALSE
INVARIANTS
  DepthTypeOK
  LastDepthSurvives
PROPERTIES
  RefreshesInOrder
  DepthHeals
