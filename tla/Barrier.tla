-------------------------------- MODULE Barrier --------------------------------
(***************************************************************************)
(* software/runtime/synchronization.c on the hardware that carries it: the *)
(* counters are words of L1 (AtomicBank), stores are posted, and a core    *)
(* sleeps and wakes as WakeUp describes.  Every core calls the barriers of *)
(* a program again and again.                                              *)
(*                                                                         *)
(* A barrier is a record with its function fn and its steps: the cores     *)
(* that synchronise at level l of its tree are steps[l] neighbours, and    *)
(* the barriers without a tree have one level.  mempool_barrier has no     *)
(* other field, the tree barriers (mempool_log_barrier, mempool_linlog_    *)
(* barrier, mempool_anyradixlog_barrier, mempool_log_partial_barrier) have *)
(* first, the counter of level 1 within its group, mempool_partial_barrier *)
(* has init and memloc, mempool_strided_barrier stride and offset.         *)
(***************************************************************************)
EXTENDS PartialWakeUp

CONSTANTS Scenarios,     \* what is run on which network, records of
                         \*   program: the sequence of barriers
                         \*   boots: from reset, through mempool_barrier_init
                         \*   ordered: a core's stores and register writes are
                         \*            performed before its accesses that follow
          Garbage        \* what L1 may hold at reset

VARIABLES
  scenario,
  pc, level,             \* where in a barrier each core is
  prog,                  \* the barrier of the program it is at, 0 in mempool_barrier_init
  mem,                   \* the counters in L1
  stores,                \* each core's stores of 0 that L1 has not performed
  wakes,                 \* each core's writes to the control registers under way
  strd, offst, wake_up_mask_q,     \* ctrl_registers.sv
  wfi_q, wake_up_q                 \* snitch.sv, per core

ctrlVars == <<strd, offst, wake_up_mask_q>>
vars == <<scenario, pc, level, prog, mem, stores, wakes, ctrlVars, wfi_q, wake_up_q>>

Program == scenario.program

-------------------------------------------------------------------------------
(* What the barrier functions compute.                                     *)

Top(b) == Len(b.steps)
Last(b) == b.steps[Top(b)]
Prev(b, l) == IF l = 1 THEN 1 ELSE b.steps[l - 1]

(* The cores that core c synchronises with in b, {} if it skips b.         *)
Members(b, c) ==
  LET all == CASE b.fn = "mempool_barrier" -> Cores
               [] b.fn = "tree" -> {d \in Cores : d \div Last(b) = c \div Last(b)}
               [] b.fn = "mempool_partial_barrier" -> b.init .. b.init + Last(b) - 1
               [] b.fn = "mempool_strided_barrier" -> {d \in Cores : d % b.stride = b.offset}
  IN  IF c \in all THEN all ELSE {}

(* The counter that core c increments at level l.                          *)
CounterOf(b, l, c) ==
  LET step == b.steps[l]
  IN  CASE b.fn = "mempool_barrier" -> <<"barrier", 0>>
        [] b.fn = "tree" -> <<"log_barrier", step * (c \div step) * 4
                                               + (IF l = 1 THEN b.first ELSE Prev(b, l) - 1)>>
        [] b.fn = "mempool_partial_barrier" -> <<"partial_barrier", b.init * 4 + b.memloc>>
        [] b.fn = "mempool_strided_barrier" -> <<"strided", 0>>

IsLastTooEarly(b, l, old) == old + 2 * Prev(b, l) = b.steps[l]         \* mutant: off by one

(* fetch_add returned old: the core is the last one at this level.         *)
IsLast(b, l, old) == old = b.steps[l] - Prev(b, l)

(* The register writes that release the cores, in order.                   *)
Wakes(b, c) ==
  CASE b.fn = "mempool_barrier" -> <<wake_up_all>>
    [] b.fn = "tree" -> LogPartialWakes(c, Last(b))
    [] b.fn = "mempool_partial_barrier" -> PartialWakes(b.init, Last(b))
    [] b.fn = "mempool_strided_barrier" ->
         <<set_wake_up_stride(b.stride), set_wake_up_offset(b.offset), wake_up_all,
           set_wake_up_stride(1), set_wake_up_offset(0)>>

Counters == {<<"barrier", 0>>} \cup
            UNION {{CounterOf(Program[k], l, c) : l \in 1 .. Top(Program[k]), c \in Cores} :
                     k \in DOMAIN Program}

(* The counters core c clears in mempool_barrier_init.                     *)
ClearedBy(c) == {a \in Counters : a[1] \in {"log_barrier", "partial_barrier"} /\ a[2] % NumCores = c}

Now(c) == Program[prog[c]]

-------------------------------------------------------------------------------
Init ==
  /\ scenario \in Scenarios
  /\ pc = [c \in Cores |-> IF scenario.boots THEN "boot" ELSE "add"]
  /\ level = [c \in Cores |-> 1]
  /\ prog = [c \in Cores |-> IF scenario.boots THEN 0 ELSE 1]
  /\ mem \in [Counters -> IF scenario.boots THEN Garbage ELSE {0}]
  /\ stores = [c \in Cores |-> {}]
  /\ wakes = [c \in Cores |-> <<>>]
  /\ strd = 1 /\ offst = 0 /\ wake_up_mask_q = Cores
  /\ wfi_q = [c \in Cores |-> FALSE]
  /\ wake_up_q = [c \in Cores |-> 0]

(* mempool_barrier_init up to its first WFI: core 0 clears the barrier and *)
(* wakes the others.                                                       *)
Boot(c) ==
  /\ pc[c] = "boot"
  /\ pc' = [pc EXCEPT ![c] = "wfi"]
  /\ stores' = IF c = 0 THEN [stores EXCEPT ![c] = {<<"barrier", 0>>}] ELSE stores
  /\ wakes' = IF c = 0 THEN [wakes EXCEPT ![c] = <<wake_up_all>>] ELSE wakes
  /\ UNCHANGED <<scenario, level, prog, mem, ctrlVars, wfi_q, wake_up_q>>

(* __atomic_fetch_add at one level, and where the core goes with what it   *)
(* returned: the last core of the level resets the counter and goes one    *)
(* level up, any other one to sleep.                                       *)
FetchAdd(c) ==
  LET b == Now(c)
      a == CounterOf(b, level[c], c)
      last == IsLast(b, level[c], mem[a])
      top == level[c] = Top(b)
  IN  /\ pc[c] = "add"
      /\ Members(b, c) # {}
      /\ scenario.ordered => stores[c] = {} /\ wakes[c] = <<>>
      /\ mem' = [mem EXCEPT ![a] = @ + Prev(b, level[c])]
      /\ stores' = IF last THEN [stores EXCEPT ![c] = @ \cup {a}] ELSE stores
      /\ pc' = [pc EXCEPT ![c] = IF ~ last THEN "wfi" ELSE IF top THEN "fence" ELSE "add"]
      /\ level' = IF last /\ ~ top THEN [level EXCEPT ![c] = @ + 1] ELSE level
      /\ UNCHANGED <<scenario, prog, wakes, ctrlVars, wfi_q, wake_up_q>>

(* L1 performs a store.                                                    *)
PerformStore(c, a) ==
  /\ a \in stores[c]
  /\ stores' = [stores EXCEPT ![c] = @ \ {a}]
  /\ mem' = [mem EXCEPT ![a] = 0]
  /\ UNCHANGED <<scenario, pc, level, prog, wakes, ctrlVars, wfi_q, wake_up_q>>

FenceSkipped(c) == pc[c] = "fence"                             \* mutant

(* __sync_synchronize: SnitchLsu's FenceSound is what it waits for.        *)
Fence(c) == pc[c] = "fence" /\ stores[c] = {}

(* The last core writes the wake-up registers.                             *)
Release(c) ==
  /\ Fence(c)
  /\ pc' = [pc EXCEPT ![c] = "wfi"]
  /\ wakes' = [wakes EXCEPT ![c] = @ \o Wakes(Now(c), c)]
  /\ UNCHANGED <<scenario, level, prog, mem, stores, ctrlVars, wfi_q, wake_up_q>>

(* One cycle for the wake-up logic: the cores of asleep execute WFI, those *)
(* of pulse are woken.                                                     *)
WfiCycle(asleep, pulse) ==
  /\ pc' = [c \in Cores |-> IF c \in asleep THEN "resume" ELSE pc[c]]
  /\ wfi_q' = [c \in Cores |-> WfiAfter(wfi_q[c], wake_up_q[c], c \in asleep, c \in pulse)]
  /\ wake_up_q' = [c \in Cores |-> WakeUpAfter(wfi_q[c], wake_up_q[c], c \in asleep, c \in pulse)]
  /\ UNCHANGED <<scenario, level, prog, mem, stores>>

Wfi(c) == pc[c] = "wfi" /\ WfiCycle({c}, {}) /\ UNCHANGED <<wakes, ctrlVars>>

(* The control registers perform a write of core c, in a cycle in which    *)
(* the cores of asleep execute WFI.                                        *)
CtrlWrite(c, asleep) ==
  /\ wakes[c] # <<>>
  /\ scenario.ordered => stores[c] = {}
  /\ \A d \in asleep : pc[d] = "wfi"
  /\ LET w == Head(wakes[c])
     IN  /\ WfiCycle(asleep, Woken(w) \cap wake_up_mask_q)
         /\ strd' = IF w.reg = "wake_up_strd" THEN w.val ELSE strd
         /\ offst' = IF w.reg = "wake_up_offst" THEN w.val ELSE offst
         /\ wake_up_mask_q' = StrideMask(strd', offst')
  /\ wakes' = [wakes EXCEPT ![c] = Tail(@)]

After(k) == IF k = Len(Program) THEN 1 ELSE k + 1

ResumeAtLevel(c) ==                                            \* mutant: level kept
  /\ pc[c] = "resume"
  /\ ~ wfi_q[c]
  /\ pc' = [pc EXCEPT ![c] = "add"]
  /\ prog' = [prog EXCEPT ![c] = After(@)]
  /\ stores' = IF prog[c] = 0 THEN [stores EXCEPT ![c] = @ \cup ClearedBy(c)] ELSE stores
  /\ UNCHANGED <<scenario, level, mem, wakes, ctrlVars, wfi_q, wake_up_q>>

(* The core goes on after its WFI, and to the next barrier; the end of     *)
(* mempool_barrier_init clears the counters first.                         *)
Resume(c) ==
  /\ pc[c] = "resume"
  /\ ~ wfi_q[c]
  /\ pc' = [pc EXCEPT ![c] = "add"]
  /\ level' = [level EXCEPT ![c] = 1]
  /\ prog' = [prog EXCEPT ![c] = After(@)]
  /\ stores' = IF prog[c] = 0 THEN [stores EXCEPT ![c] = @ \cup ClearedBy(c)] ELSE stores
  /\ UNCHANGED <<scenario, mem, wakes, ctrlVars, wfi_q, wake_up_q>>

(* A core outside the range of a partial barrier goes past it.             *)
Skip(c) ==
  /\ pc[c] = "add"
  /\ Members(Now(c), c) = {}
  /\ prog' = [prog EXCEPT ![c] = After(@)]
  /\ UNCHANGED <<scenario, pc, level, mem, stores, wakes, ctrlVars, wfi_q, wake_up_q>>

CoreStep(c) == Boot(c) \/ FetchAdd(c) \/ Release(c) \/ Wfi(c) \/ Resume(c) \/ Skip(c)

Next == \E c \in Cores :
          \/ CoreStep(c)
          \/ \E a \in stores[c] : PerformStore(c, a)
          \/ \E asleep \in SUBSET {d \in Cores : pc[d] = "wfi"} : CtrlWrite(c, asleep)

Spec == Init /\ [][Next]_vars

(* A core that can go on does, and every store and register write is       *)
(* performed in the end.                                                   *)
FairSpec ==
  /\ Spec
  /\ \A c \in Cores :
       /\ WF_vars(CoreStep(c))
       /\ WF_vars(\E a \in stores[c] : PerformStore(c, a))
       /\ WF_vars(\E asleep \in SUBSET {d \in Cores : pc[d] = "wfi"} : CtrlWrite(c, asleep))

-------------------------------------------------------------------------------
(* Types of the variables.                                                 *)
TypeOK ==
  /\ scenario \in Scenarios
  /\ pc \in [Cores -> {"boot", "add", "fence", "wfi", "resume"}]
  /\ prog \in [Cores -> 0 .. Len(Program)]
  /\ \A c \in Cores : prog[c] # 0 => level[c] \in 1 .. Top(Now(c))
  /\ DOMAIN mem = Counters
  /\ stores \in [Cores -> SUBSET Counters]
  /\ wake_up_mask_q \subseteq Cores
  /\ wfi_q \in [Cores -> BOOLEAN]
  /\ wake_up_q \in [Cores -> 0 .. OutstandingWfi - 1]

InBarrier(c) == prog[c] # 0 /\ ~ (pc[c] = "add" /\ level[c] = 1)

(* The core has been woken, or a write that wakes it is under way.         *)
Released(c) ==
  \/ pc[c] = "resume" /\ ~ wfi_q[c]
  \/ wake_up_q[c] > 0
  \/ \E d \in Cores : \E i \in DOMAIN wakes[d] : c \in Woken(wakes[d][i])

Abstract == INSTANCE GroupBarrier WITH
  groups <- [k \in DOMAIN Program |-> {Members(Program[k], c) : c \in Cores} \ {{}}],
  at <- [c \in Cores |-> IF ~ InBarrier(c) THEN "out" ELSE IF Released(c) THEN "go" ELSE "in"],
  next <- [c \in Cores |-> IF prog[c] = 0 THEN 1 ELSE prog[c]]

(* No core goes past a barrier before every core of its group has come to  *)
(* it, however the cores, the stores and the wake-ups interleave.          *)
ImplementsBarrier == Abstract!Spec

(* Every core that comes to a barrier goes past it: no arrival and no      *)
(* wake-up is lost.                                                        *)
EveryoneLeaves == \A c \in Cores : InBarrier(c) ~> ~ InBarrier(c)

(* A core stores a wake-up only on its way to the WFI the wake-up is for,  *)
(* and only one: none is carried out of a barrier, where it would let the  *)
(* core fall through the next one, and the counter stays away from the     *)
(* limit where snitch.sv:1919-1921 reports a missed one.                   *)
NoStrayWakeUp == \A c \in Cores : wake_up_q[c] <= (IF pc[c] \in {"boot", "wfi"} THEN 1 ELSE 0)
===============================================================================
