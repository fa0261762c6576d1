SPECIFICATION Spec
CONSTANTS
  None = None
  Blocks <- MCBlocks
  FreeLists <- MCFreeLists
  IndexLists <- MCIndexLists
INVARIANTS TypeOK SizesAreExactShares HeavierGetsNoFewer SpansTile EveryBlockPlaced PlacementRoundTrips StageRangesTile
CHECK_DEADLOCK FALSE
