SPECIFICATION Spec
CONSTANTS
  None = None
  Home = "cpu"
  MaxBuilds = 3
  Loads <- MCLoads
  StageIndices <- MCIndices
  Splits <- MCSplits
  Placements <- MCPlacements
  Devices <- MCDevices
INVARIANTS TypeOK StagesTileModel ModulesStayPlaced UntiedHalvesAreDisjoint CleanBuildsTrain ModesTrainTheirOwn ShardSuffices
CHECK_DEADLOCK FALSE
