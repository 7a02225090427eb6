SPECIFICATION ShimFairSpec
INVARIANTS TypeOK IdsConserved ResponsesMatched ScoreboardExact FenceSound SocIdsInOrder
PROPERTIES RequestStable IdsRecycled ShimIsNetwork
CONSTANTS
  NumOutstandingLoads = 3
  RegNrWritePorts = 2
  Regs = {0, 1}
  Addr = {2, 3}
  AddressMap <- MCAddressMap
