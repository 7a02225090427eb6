---------------------------- MODULE MCPartialWakeUp ----------------------------
(* Calls of the two partial barriers, one after the other, each seen when  *)
(* its last core has arrived.                                              *)
EXTENDS PartialWakeUp

VARIABLE call                  \* the call under way, <<>> between calls

vars == <<call>>

(* mempool_partial_barrier takes any range of cores.                       *)
PartialCall ==
  /\ call = <<>>
  /\ \E init \in Cores : \E n \in 1 .. NumCores - init :
       call' = [fn |-> "partial", init |-> init, n |-> n, wakes |-> PartialWakes(init, n)]

(* mempool_log_partial_barrier takes a power of two.                       *)
LogPartialCall ==
  /\ call = <<>>
  /\ \E n \in {2^k : k \in 1 .. 10} : \E core \in Cores :
       /\ n <= NumCores
       /\ call' = [fn |-> "log_partial", init |-> n * (core \div n), n |-> n,
                   wakes |-> LogPartialWakes(core, n)]

Return == call # <<>> /\ call' = <<>>

Init == call = <<>>
Next == PartialCall \/ LogPartialCall \/ Return
Spec == Init /\ [][Next]_vars

-------------------------------------------------------------------------------
(* The writes wake every core of set, once, and no other.                  *)
WakesExactly(wakes, set) ==
  /\ UNION {Woken(wakes[i]) : i \in DOMAIN wakes} = set
  /\ \A i, j \in DOMAIN wakes : i # j => Woken(wakes[i]) \cap Woken(wakes[j]) = {}

Range == call.init .. call.init + call.n - 1

(* A range inside one group that is not a misaligned tile.  For others the *)
(* remainders of synchronization.c:257, 274 and 292 do not cover the range:*)
(* four cores from core 1 on, for one, wake cores 0 to 3.                  *)
InOneGroup ==
  /\ Group(call.init) = Group(call.init + call.n - 1)
  /\ call.n = NumCoresPerTile => call.init % NumCoresPerTile = 0

(* mempool_partial_barrier wakes exactly the cores that wait in it, when   *)
(* they all belong to one group: a core woken twice, or from outside,      *)
(* would fall through its next WFI, and one left out would sleep for ever. *)
PartialBarrierWakes == call # <<>> /\ call.fn = "partial" /\ InOneGroup => WakesExactly(call.wakes, Range)

(* mempool_log_partial_barrier wakes exactly the cores that wait in it,    *)
(* whatever part of the cluster they are.                                  *)
LogPartialBarrierWakes == call # <<>> /\ call.fn = "log_partial" => WakesExactly(call.wakes, Range)
===============================================================================
