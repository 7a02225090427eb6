\* Two tiles with one superbank of four banks, both remaps on.
CONSTANTS
  NumTiles = 2
  NumSuperbanks = 1
  NumBanksPerSB = 4
  SpmBankIdRemap = TRUE
  TileIdRemap = TRUE
  SeqRowsPerTile = 1
  TcdmWords = 64
  BufDepth = 2
  RespDepth = 2
  NarrowPorts = {p1, p2}
  ReadBursts <- MCReadBursts
  WriteBursts <- MCWriteBursts
  NarrowAddrs <- MCNarrowAddrs
SPECIFICATION Spec
INVARIANTS WideCoherent WideInOrder
PROPERTIES WideServed ReadsServed NarrowServed
