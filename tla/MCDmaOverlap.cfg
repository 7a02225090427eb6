\* Two groups; software launches two copies and then waits once.
CONSTANTS
  NoMstPorts = 2
  Width = 2
  L1Size = 8
  TransFifoDepth = 16
  PortDepth = 4
  Overlap = 2
  Transfers <- MCShort
SPECIFICATION Spec
INVARIANT DoneMeansDone
