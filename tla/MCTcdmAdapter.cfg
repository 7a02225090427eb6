SPECIFICATION LoopSpec
INVARIANTS TypeOK AnswersPaired ReservationSound
PROPERTIES StoreConditionalSound ImplementsAtomicBank BankReadyAgain ScProgress
CONSTANT Local = {1}
CONSTANT Remote <- OneRemote
CONSTANT Dma = TRUE
CONSTANT NumLooping = 3
CONSTANT W = 2
CONSTANT NumWords = 2
CONSTANT RegisterAmo = FALSE
CONSTANTS
  X = X
  NumCoresPerTile = 4
  NumRemoteReqPortsPerTile = 3
  Word <- MCWord
  Addr <- MCAddr
  Be <- MCBe
  Meta <- MCMeta
  Looping <- MCLooping
  Abandoning <- MCAbandoning
  Requests <- MCRequests
  Alu <- AmoAlu
  AmoValue <- AmoReference
  Merge <- MergeBytes
