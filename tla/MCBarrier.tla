------------------------------- MODULE MCBarrier -------------------------------
(***************************************************************************)
(* Programs of Barrier for TLC, on four cores in tiles of two.            *)
(***************************************************************************)
EXTENDS Barrier

Plain == [fn |-> "mempool_barrier", steps |-> <<NumCores>>]
Log(n) == [fn |-> "tree", first |-> 0, steps |-> IF n = 2 THEN <<2>> ELSE <<2, 4>>]
LinLog == [fn |-> "tree", first |-> 1, steps |-> <<4>>]
Partial(init, n, memloc) ==
  [fn |-> "mempool_partial_barrier", steps |-> <<n>>, init |-> init, memloc |-> memloc]
Strided(n, stride, offset) ==
  [fn |-> "mempool_strided_barrier", steps |-> <<n>>, stride |-> stride, offset |-> offset]

(* From reset through plain and tree barriers that share their counters,   *)
(* and strided barriers that share the stride registers, when writes are   *)
(* performed in order; partial barriers that overlap, on a network that    *)
(* reorders them.                                                          *)
MCScenarios ==
  { [program |-> <<Plain, LinLog, Log(2), Log(4)>>, boots |-> TRUE, ordered |-> TRUE],
    [program |-> <<Partial(1, 3, 0), Partial(2, 2, 1)>>, boots |-> FALSE, ordered |-> FALSE],
    [program |-> <<Strided(2, 2, 0)>>, boots |-> FALSE, ordered |-> TRUE] }

(* mempool_log_barrier on a network that reorders stores.                  *)
LogRace == {[program |-> <<Log(4)>>, boots |-> FALSE, ordered |-> FALSE]}

ZeroOrOne == {0, 1}
===============================================================================
