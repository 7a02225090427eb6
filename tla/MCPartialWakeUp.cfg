\* MemPool: 256 cores in 4 groups of 16 tiles.
CONSTANTS
  NumCores = 256
  NumCoresPerTile = 4
  NumGroups = 4
  OutstandingWfi = 8
SPECIFICATION Spec
INVARIANTS
  PartialBarrierWakes
  LogPartialBarrierWakes
