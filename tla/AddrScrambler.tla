----------------------------- MODULE AddrScrambler -----------------------------
(***************************************************************************)
(* hardware/src/mempool_addr_scrambler.sv: from the address a core or the  *)
(* DMA uses to the tile, bank and row it stands for.  Addresses count      *)
(* words; every size is a power of two, so that a bit field is a quotient  *)
(* and a remainder.                                                        *)
(***************************************************************************)
EXTENDS Integers

CONSTANTS NumTiles, NumTilesPerDma, NumBanksPerTile,
          SeqRowsPerTile,     \* SeqMemSizePerTile, in rows of a tile's banks
          TcdmWords,          \* the words TCDMBaseAddr and TCDMMask match; the base is 0
          TileIdRemap         \* parameter EnableTileIdRemap of every instance

BankId(a) == a % NumBanksPerTile
TileId(a) == (a \div NumBanksPerTile) % NumTiles
RowId(a) == a \div (NumBanksPerTile * NumTiles)

SeqWords == NumTiles * SeqRowsPerTile * NumBanksPerTile

(* Stage 1: {tile_id, scramble} becomes {scramble, tile_id}.               *)
SeqInterleaveSwap(a) ==
  LET scramble == (a \div NumBanksPerTile) % SeqRowsPerTile
      tile_id == (a \div (NumBanksPerTile * SeqRowsPerTile)) % NumTiles
  IN  (scramble * NumTiles + tile_id) * NumBanksPerTile + BankId(a)

(* Stage 2: the low bits of the tile id, as many as tell the tiles of one  *)
(* DMA apart but at least one, advance with the row.                       *)
RemapRange == IF NumTilesPerDma > 1 THEN NumTilesPerDma ELSE 2

SpmTileIdRemap(a) ==
  LET low == TileId(a) % RemapRange
      new == (low + RowId(a)) % RemapRange
  IN  a + (new - low) * NumBanksPerTile

(* address_o; swap is the instance's EnableSeqInterleaveSwap.              *)
Scramble(a, swap) ==
  IF NumTiles < 2 THEN a
  ELSE IF swap /\ a < SeqWords THEN SeqInterleaveSwap(a)
  ELSE IF TileIdRemap /\ a < TcdmWords /\ a >= SeqWords THEN SpmTileIdRemap(a)
  ELSE a
===============================================================================
