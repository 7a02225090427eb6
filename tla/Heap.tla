--------------------------------- MODULE Heap ---------------------------------
(***************************************************************************)
(* What the allocator of software/runtime/alloc.c promises: blocks that do *)
(* not overlap, the lowest free place that is large enough ("first-fit     *)
(* search", alloc.h), and failure only when there is no such place, however*)
(* often blocks were split and given back.                                 *)
(***************************************************************************)
EXTENDS Integers

CONSTANTS Base, End,     \* the heap: addresses Base .. End - 1
          Unit,          \* blocks are multiples of it
          Header,        \* what a block needs besides the data
          Limit,         \* blocks are smaller
          Sizes          \* sizes that are requested

VARIABLES blocks,        \* the blocks in use, [lo |-> first, hi |-> one past the last]
          ret            \* what the last call was and returned, 0 for NULL

vars == <<blocks, ret>>

(* The smallest multiple of Unit with room for n bytes and the header.     *)
Needed(n) == CHOOSE s \in {k * Unit : k \in 1 .. n + Header} :
               s >= n + Header /\ s - Unit < n + Header

Fits(lo, s) == /\ lo + s <= End
               /\ \A b \in blocks : lo + s <= b.lo \/ b.hi <= lo

Places(s) == {lo \in {Base + k * Unit : k \in 0 .. (End - Base) \div Unit} : Fits(lo, s)}

Init == blocks = {} /\ ret = <<>>

Malloc(n) ==
  LET s == Needed(n)
  IN  /\ s < Limit
      /\ \E lo \in Places(s) :
           /\ \A other \in Places(s) : lo <= other
           /\ blocks' = blocks \cup {[lo |-> lo, hi |-> lo + s]}
           /\ ret' = <<"malloc", n, lo + Header>>

MallocFails(n) ==
  /\ Needed(n) >= Limit \/ Places(Needed(n)) = {}
  /\ ret' = <<"malloc", n, 0>>
  /\ UNCHANGED blocks

Free(b) == blocks' = blocks \ {b} /\ ret' = <<"free", b.lo + Header>>

(* A block whose header was overwritten is not given back.                 *)
FreeRefused(b) == UNCHANGED blocks /\ ret' = <<"refused", b.lo + Header>>

Next == \/ \E n \in Sizes : Malloc(n) \/ MallocFails(n)
        \/ \E b \in blocks : Free(b) \/ FreeRefused(b)

Spec == Init /\ [][Next]_vars
===============================================================================
