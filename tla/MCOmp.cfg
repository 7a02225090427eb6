SPECIFICATION Spec
INVARIANTS TypeOK CriticalExclusive CopyDelivered WakeUpsMatched
PROPERTIES ImplementsForkJoin RegionsJoin
CONSTANTS
  NumCores = 3
  NumCoresPerTile = 3
  NumGroups = 1
  OutstandingWfi = 8
  Programs <- MCPrograms
  Garbage <- ZeroOrOne
