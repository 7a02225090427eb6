SPECIFICATION LoopSpec
PROPERTIES StoreConditionalSound
CONSTANT Local = {}
CONSTANT Remote <- SamePortRemotes
CONSTANT Dma = FALSE
CONSTANT NumLooping = 0
CONSTANT W = 1
CONSTANT NumWords = 1
CONSTANT RegisterAmo = FALSE
CONSTANTS
  X = X
  NumCoresPerTile = 4
  NumRemoteReqPortsPerTile = 3
  Word <- MCWord
  Addr <- MCAddr
  Be <- MCBe
  Meta <- MCMeta
  Looping <- MCLooping
  Abandoning <- MCAbandoning
  Requests <- MCRequests
  Alu <- AmoAlu
  AmoValue <- AmoReference
  Merge <- MergeBytes
