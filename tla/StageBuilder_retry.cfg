SPECIFICATION Spec
CONSTANTS
  None = None
  Home = "cpu"
  MaxBuilds = 3
  Loads <- RetryLoads
  StageIndices <- MCIndices
  Splits <- RetrySplits
  Placements <- MCPlacements
  Devices <- MCDevices
INVARIANT NothingToTrainIsRefused
CHECK_DEADLOCK FALSE
