--------------------------------- MODULE MCDma ---------------------------------
(***************************************************************************)
(* Dma for TLC.  L2 addresses follow the L1.                               *)
(***************************************************************************)
EXTENDS Dma

(* Into the L1 over four rows, from within a port's region to within       *)
(* another; out of the L1, two rows and a bit; a copy within one port; and *)
(* one that ends where a port's region ends.                               *)
MCTransfers ==
  {[src |-> L1Size + 3, dst |-> 1 + Width, n |-> 3 * FullWidth],
   [src |-> 0, dst |-> L1Size, n |-> (2 * FullWidth) + 1],
   [src |-> FullWidth + 1, dst |-> L1Size + 1, n |-> 1],
   [src |-> L1Size, dst |-> Width - 1, n |-> Width + 1]}

(* Two short copies, as of a vector after a matrix.                        *)
MCShort ==
  {[src |-> L1Size, dst |-> 0, n |-> 1],
   [src |-> L1Size + Width, dst |-> Width, n |-> 1]}
===============================================================================
