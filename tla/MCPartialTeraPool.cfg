\* TeraPool: 1024 cores in 16 groups of 16 tiles.
CONSTANTS
  NumCores = 1024
  NumCoresPerTile = 4
  NumGroups = 16
  OutstandingWfi = 8
SPECIFICATION Spec
INVARIANT LogPartialBarrierWakes
