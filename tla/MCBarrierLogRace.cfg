\* Once an arrival is lost the cores sleep for ever: the run is about that.
SPECIFICATION FairSpec
PROPERTY EveryoneLeaves
CHECK_DEADLOCK FALSE
CONSTANTS
  NumCores = 4
  NumCoresPerTile = 2
  NumGroups = 1
  OutstandingWfi = 8
  Scenarios <- LogRace
  Garbage <- ZeroOrOne
