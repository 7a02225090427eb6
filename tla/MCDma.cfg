\* Four groups, copies of up to four rows, one at a time.
CONSTANTS
  NoMstPorts = 4
  Width = 2
  L1Size = 32
  TransFifoDepth = 3
  PortDepth = 2
  Overlap = 1
  Transfers <- MCTransfers
SPECIFICATION Spec
INVARIANTS PiecesExact DoneMeansDone
PROPERTY EveryTransferDone
