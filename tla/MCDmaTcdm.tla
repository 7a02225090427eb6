------------------------------ MODULE MCDmaTcdm ------------------------------
(***************************************************************************)
(* DmaTcdm for TLC.  Row 0 of every tile is sequential; the DMA works on   *)
(* the interleaved rows, from FirstChunk on.                               *)
(***************************************************************************)
EXTENDS DmaTcdm

FirstChunk == NumTiles * NumSuperbanks * SeqRowsPerTile

(* A read burst over the superbanks of a row, and a write burst that goes  *)
(* from the last one into the next row.                                    *)
MCReadBursts == {[addr |-> FirstChunk, len |-> (NumTiles * NumSuperbanks) - 1]}
MCWriteBursts == {[addr |-> FirstChunk + (NumTiles * NumSuperbanks) - 1, len |-> 1]}

(* The cores' ports compete for the bank of one word, in the tile that     *)
(* serves most of the beats.                                               *)
MCNarrowAddrs == [p \in NarrowPorts |-> {((FirstChunk + 1) * NumBanksPerSB) + 1}]
-------------------------------------------------------------------------------
(* The scrambler of a cluster with nt tiles, nd of them behind a DMA.      *)
Cluster(nt, nd, nb, rows, remap) ==
  INSTANCE AddrScrambler WITH
    NumTiles <- nt, NumTilesPerDma <- nd, NumBanksPerTile <- nb,
    SeqRowsPerTile <- rows, TcdmWords <- 4 * nt * nb * rows, TileIdRemap <- remap

(* What mempool_addr_scrambler.sv does to the addresses of the L1: no two  *)
(* words share a place, the sequential region of tile t is tile t's, and   *)
(* the remap keeps a word behind the DMA that the group midend sends it to *)
(* (with more than one tile per DMA).                                      *)
ASSUME ScramblerSound ==
  \A nt \in {2, 4, 8}, nb \in {2, 4}, rows \in {1, 2}, remap \in BOOLEAN :
    \A nd \in {k \in {2, 4} : k <= nt} :
      LET tcdm == 0 .. (4 * nt * nb * rows) - 1
          place(a, swap) == Cluster(nt, nd, nb, rows, remap)!Scramble(a, swap)
          tile(a) == (a \div nb) % nt
      IN  /\ \A swap \in BOOLEAN : {place(a, swap) : a \in tcdm} = tcdm
          /\ \A a \in tcdm :
               IF a < nt * nb * rows
               THEN tile(place(a, TRUE)) = a \div (nb * rows)
               ELSE /\ place(a, TRUE) = place(a, FALSE)
                    /\ tile(place(a, TRUE)) \div nd = tile(a) \div nd
===============================================================================
