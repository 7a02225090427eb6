SPECIFICATION FairSpec
INVARIANTS TypeOK NoStrayWakeUp
PROPERTIES ImplementsBarrier EveryoneLeaves
CONSTANTS
  NumCores = 4
  NumCoresPerTile = 2
  NumGroups = 1
  OutstandingWfi = 8
  Scenarios <- MCScenarios
  Garbage <- ZeroOrOne
