------------------------------ MODULE MCTcdmShim ------------------------------
(***************************************************************************)
(* TcdmShim for TLC with the three rules of mempool_tile.sv:843 on three   *)
(* addresses: 1 is in the tile, 2 in a remote tile, 3 outside the L1.      *)
(***************************************************************************)
EXTENDS TcdmShim

MCAddressMap == << [match |-> {1} \cap Addr, slave |-> "TCDM_LOCAL"],
                   [match |-> {1, 2} \cap Addr, slave |-> "TCDM_EXTERNAL"],
                   [match |-> Addr, slave |-> "SOC"] >>
===============================================================================
