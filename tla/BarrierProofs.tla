---------------------------- MODULE BarrierProofs ----------------------------
(***************************************************************************)
(* Proofs about mempool_barrier for every number of cores: a program of    *)
(* plain barriers, from reset through mempool_barrier_init or from a       *)
(* cleared counter on, whatever the order in which the cores, their stores *)
(* and their wake-ups are served.                                          *)
(***************************************************************************)
EXTENDS Barrier, FiniteSetTheorems, TLAPS

PlainBarrier == [fn |-> "mempool_barrier", steps |-> <<NumCores>>]

(* The programs of this module.  A core that boots clears the counter with *)
(* a store and wakes the others with a register write, which must not      *)
(* overtake the store; wake_up_q has room for a wake-up.                   *)
PlainPrograms ==
  /\ OutstandingWfi >= 2
  /\ \A s \in Scenarios :
       /\ s.program \in Seq({PlainBarrier}) /\ s.program # <<>>
       /\ s.boots \in BOOLEAN /\ s.ordered \in BOOLEAN
       /\ s.boots => s.ordered

Counter == <<"barrier", 0>>

-------------------------------------------------------------------------------
(* Where a core can be: before the first wake-up, out of the barriers,     *)
(* waiting for a wake-up, with one, or about to clear the counter.         *)
Booting(c) == pc[c] = "boot" /\ wake_up_q[c] = 0 /\ ~ wfi_q[c]
IsOut(c) == pc[c] = "add" /\ wake_up_q[c] = 0 /\ ~ wfi_q[c]
Waiting(c) ==
  /\ wake_up_q[c] = 0
  /\ \/ pc[c] = "wfi" /\ ~ wfi_q[c]
     \/ pc[c] = "resume" /\ wfi_q[c]
LetGo(c) ==
  /\ ~ wfi_q[c]
  /\ \/ pc[c] \in {"boot", "wfi"} /\ wake_up_q[c] = 1
     \/ pc[c] = "resume" /\ wake_up_q[c] = 0
Closing(c) == pc[c] = "fence" /\ wake_up_q[c] = 0 /\ ~ wfi_q[c]

Idle(c) == stores[c] = {} /\ wakes[c] = <<>>

(* The phases that all cores go through together.  First, nobody is woken  *)
(* before core 0 has cleared the counter.                                  *)
Resetting ==
  /\ scenario.boots
  /\ \A c \in Cores : prog[c] = 0 /\ (Booting(c) \/ Waiting(c))
  /\ \A c \in Cores \ {0} : Idle(c)
  /\ \/ Booting(0) /\ Idle(0)
     \/ /\ Waiting(0) /\ wakes[0] = <<wake_up_all>>
        /\ stores[0] = {Counter} \/ (stores[0] = {} /\ mem[Counter] = 0)

(* The counter counts the cores that wait at barrier k; the others are out *)
(* or still have the wake-up of the barrier before.                        *)
CollectingAt(k, p) ==
  /\ After(p) = k
  /\ \A c \in Cores :
       /\ Idle(c)
       /\ \/ LetGo(c) /\ prog[c] = p
          \/ (IsOut(c) \/ Waiting(c)) /\ prog[c] = k
       /\ pc[c] = "boot" => c # 0 /\ p = 0
  /\ mem[Counter] = Cardinality({c \in Cores : Waiting(c)})

(* The last core l clears the counter.                                     *)
ClosedBy(k, l) ==
  /\ \A c \in Cores : prog[c] = k /\ wakes[c] = <<>>
  /\ \A c \in Cores \ {l} : Waiting(c) /\ stores[c] = {}
  /\ Closing(l)
  /\ stores[l] = {Counter} \/ (stores[l] = {} /\ mem[Counter] = 0)

(* It has written the wake-up register.                                    *)
OpenedBy(k, l) ==
  /\ \A c \in Cores : prog[c] = k /\ Waiting(c) /\ stores[c] = {}
  /\ \A c \in Cores \ {l} : wakes[c] = <<>>
  /\ wakes[l] = <<wake_up_all>>
  /\ mem[Counter] = 0

Positions == 1 .. Len(Program)

Phase ==
  \/ Resetting
  \/ \E k \in Positions, p \in 0 .. Len(Program) : CollectingAt(k, p)
  \/ \E k \in Positions, l \in Cores : ClosedBy(k, l)
  \/ \E k \in Positions, l \in Cores : OpenedBy(k, l)

Shape ==
  /\ scenario \in Scenarios
  /\ pc \in [Cores -> {"boot", "add", "fence", "wfi", "resume"}]
  /\ level = [c \in Cores |-> 1]
  /\ prog \in [Cores -> 0 .. Len(Program)]
  /\ mem \in [{Counter} -> Garbage \cup Nat]
  /\ stores \in [Cores -> SUBSET {Counter}]
  /\ wakes \in [Cores -> {<<>>, <<wake_up_all>>}]
  /\ strd = 1 /\ offst = 0 /\ wake_up_mask_q = Cores
  /\ wfi_q \in [Cores -> BOOLEAN]
  /\ wake_up_q \in [Cores -> {0, 1}]

PlainInv == Shape /\ Phase

-------------------------------------------------------------------------------
(* What the operators of the barrier are for a plain one.                  *)
LEMMA Plain ==
  ASSUME NEW c \in Cores
  PROVE  /\ Top(PlainBarrier) = 1 /\ Prev(PlainBarrier, 1) = 1
         /\ Members(PlainBarrier, c) = Cores
         /\ CounterOf(PlainBarrier, 1, c) = Counter
         /\ \A old : IsLast(PlainBarrier, 1, old) <=> old = NumCores - 1
         /\ Wakes(PlainBarrier, c) = <<wake_up_all>>
  <1>1. /\ PlainBarrier.fn = "mempool_barrier" /\ PlainBarrier.steps = <<NumCores>>
        /\ Len(<<NumCores>>) = 1 /\ <<NumCores>>[1] = NumCores
    BY DEF PlainBarrier
  <1>2. Top(PlainBarrier) = 1 /\ Prev(PlainBarrier, 1) = 1
    BY <1>1 DEF Top, Prev
  <1>3. Members(PlainBarrier, c) = Cores
    BY <1>1 DEF Members
  <1>4. CounterOf(PlainBarrier, 1, c) = Counter
    BY <1>1 DEF CounterOf, Counter
  <1>5. \A old : IsLast(PlainBarrier, 1, old) <=> old = NumCores - 1
    BY <1>1, <1>2 DEF IsLast
  <1>6. Wakes(PlainBarrier, c) = <<wake_up_all>>
    BY <1>1 DEF Wakes
  <1> QED
    BY <1>2, <1>3, <1>4, <1>5, <1>6

(* wake_up_all reaches every core, through the mask of reset.              *)
LEMMA AllWoken ==
  /\ Woken(wake_up_all) = Cores /\ StrideMask(1, 0) = Cores
  /\ wake_up_all.reg = "wake_up" /\ 0 \in Cores
  <1>1. NumCores \in Nat /\ NumCores > 0
    BY ConfigAssumption
  <1>2. wake_up_all.reg = "wake_up" /\ wake_up_all.val = -1
    BY DEF wake_up_all
  <1>3. -1 \notin Cores /\ 0 \in Cores
    BY <1>1 DEF Cores
  <1>4. Woken(wake_up_all) = Cores
    BY <1>2, <1>3 DEF Woken, WokenByCore
  <1>5. \A c \in Cores : c >= 0 /\ (c - 0) % 1 = 0
    BY <1>1 DEF Cores
  <1> QED
    BY <1>2, <1>3, <1>4, <1>5 DEF StrideMask

(* The program and the counter it uses.                                    *)
LEMMA PlainProgram ==
  ASSUME PlainPrograms, scenario \in Scenarios
  PROVE  /\ Len(Program) \in Nat \ {0} /\ DOMAIN Program = Positions
         /\ \A k \in Positions : Program[k] = PlainBarrier
         /\ Counters = {Counter}
         /\ \A c \in Cores : ClearedBy(c) = {}
         /\ \A p \in 0 .. Len(Program) : After(p) \in Positions
         /\ scenario.boots \in BOOLEAN /\ scenario.ordered \in BOOLEAN
         /\ scenario.boots => scenario.ordered
  <1>1. Program \in Seq({PlainBarrier}) /\ Program # <<>>
    BY DEF PlainPrograms, Program
  <1>2. Len(Program) \in Nat \ {0} /\ DOMAIN Program = Positions
    BY <1>1 DEF Positions
  <1>3. ASSUME NEW k \in Positions
        PROVE  Program[k] = PlainBarrier
    BY <1>1, <1>2
  <1>4. Counters = {Counter}
    <2>1. ASSUME NEW k \in DOMAIN Program, NEW c \in Cores, NEW l \in 1 .. Top(Program[k])
          PROVE  CounterOf(Program[k], l, c) = Counter
      BY <1>2, <1>3, Plain
    <2> QED
      BY <2>1 DEF Counters, Counter
  <1>5. ASSUME NEW c \in Cores
        PROVE  ClearedBy(c) = {}
    <2>1. Counter[1] = "barrier"
      BY DEF Counter
    <2> QED
      BY <1>4, <2>1 DEF ClearedBy
  <1>6. \A p \in 0 .. Len(Program) : After(p) \in Positions
    <2> DEFINE n == Len(Program)
    <2>1. n \in Nat \ {0}
      BY <1>2
    <2> HIDE DEF n
    <2>2. \A p \in 0 .. n : (IF p = n THEN 1 ELSE p + 1) \in 1 .. n
      BY <2>1
    <2> QED
      BY <2>2 DEF n, After, Positions
  <1> QED
    BY <1>2, <1>3, <1>4, <1>5, <1>6 DEF PlainPrograms

(* Where each core is, one of five.                                        *)
Known(c) == Booting(c) \/ IsOut(c) \/ Waiting(c) \/ LetGo(c) \/ Closing(c)

(* A core executes WFI: a core that waits goes on waiting, one that has    *)
(* been woken stays so.                                                    *)
LEMMA WfiPlaces ==
  ASSUME Shape, NEW c \in Cores, pc[c] = "wfi", WfiCycle({c}, {}), NEW d \in Cores, Known(d)
  PROVE  /\ Booting(d)' <=> Booting(d)
         /\ IsOut(d)' <=> IsOut(d)
         /\ Waiting(d)' <=> Waiting(d)
         /\ LetGo(d)' <=> LetGo(d)
         /\ Closing(d)' <=> Closing(d)
         /\ pc'[d] = "boot" <=> pc[d] = "boot"
         /\ pc'[d] = "add" <=> pc[d] = "add"
         /\ pc'[d] \in {"boot", "add", "fence", "wfi", "resume"}
         /\ wfi_q'[d] \in BOOLEAN /\ wake_up_q'[d] \in {0, 1}
  <1>1. /\ pc'[d] = IF d = c THEN "resume" ELSE pc[d]
        /\ wfi_q'[d] = WfiAfter(wfi_q[d], wake_up_q[d], d \in {c}, d \in {})
        /\ wake_up_q'[d] = WakeUpAfter(wfi_q[d], wake_up_q[d], d \in {c}, d \in {})
    BY DEF WfiCycle
  <1>2. wfi_q[d] \in BOOLEAN /\ wake_up_q[d] \in {0, 1}
    BY DEF Shape
  <1>3. CASE d = c
    <2>1. wfi_q'[d] <=> wake_up_q[d] = 0
      BY <1>1, <1>3 DEF WfiAfter
    <2>0. wfi_q'[d] \in BOOLEAN
      BY <1>1 DEF WfiAfter
    <2>2. wake_up_q'[d] = 0
      BY <1>1, <1>2, <1>3 DEF WakeUpAfter
    <2>3. pc'[d] = "resume" /\ pc[d] = "wfi"
      BY <1>1, <1>3
    <2> QED
      BY <1>2, <2>0, <2>1, <2>2, <2>3 DEF Known, Booting, IsOut, Waiting, LetGo, Closing
  <1>4. CASE d # c
    <2>1. wfi_q'[d] = (wfi_q[d] /\ wake_up_q[d] = 0)
      BY <1>1, <1>4 DEF WfiAfter
    <2>2. wake_up_q'[d] = wake_up_q[d]
      BY <1>1, <1>4 DEF WakeUpAfter
    <2>3. pc'[d] = pc[d] /\ pc[d] \in {"boot", "add", "fence", "wfi", "resume"}
      BY <1>1, <1>4 DEF Shape
    <2>4. wfi_q[d] => wake_up_q[d] = 0
      BY DEF Known, Booting, IsOut, Waiting, LetGo, Closing
    <2>5. wfi_q'[d] = wfi_q[d]
      BY <1>2, <2>1, <2>4
    <2> QED
      BY <1>2, <2>2, <2>3, <2>5 DEF Booting, IsOut, Waiting, LetGo, Closing
  <1> QED
    BY <1>3, <1>4

(* The wake-up register is written: every core that waits or boots is let  *)
(* go, whether it executes its WFI in this cycle, before or after.         *)
LEMMA PulsePlaces ==
  ASSUME PlainPrograms, Shape, NEW asleep, \A d \in asleep : pc[d] = "wfi",
         WfiCycle(asleep, Cores), NEW d \in Cores, Booting(d) \/ Waiting(d)
  PROVE  /\ LetGo(d)'
         /\ pc'[d] = "boot" <=> pc[d] = "boot"
         /\ pc'[d] \in {"boot", "wfi", "resume"}
         /\ wfi_q'[d] \in BOOLEAN /\ wake_up_q'[d] \in {0, 1}
  <1>1. /\ pc'[d] = IF d \in asleep THEN "resume" ELSE pc[d]
        /\ wfi_q'[d] = WfiAfter(wfi_q[d], wake_up_q[d], d \in asleep, TRUE)
        /\ wake_up_q'[d] = WakeUpAfter(wfi_q[d], wake_up_q[d], d \in asleep, TRUE)
    BY DEF WfiCycle
  <1>2. wfi_q[d] \in BOOLEAN /\ wake_up_q[d] = 0 /\ pc[d] \in {"boot", "wfi", "resume"}
    BY DEF Shape, Booting, Waiting
  <1>3. wfi_q'[d] = FALSE
    BY <1>1 DEF WfiAfter
  <1>4. OutstandingWfi \in Nat /\ OutstandingWfi >= 2 /\ (0 + 1) % OutstandingWfi = 1
    BY ConfigAssumption DEF PlainPrograms
  <1>5. CASE d \in asleep
    <2>1. pc'[d] = "resume" /\ pc[d] = "wfi"
      BY <1>1, <1>5
    <2>2. wake_up_q'[d] = 0
      BY <1>1, <1>2, <1>5 DEF WakeUpAfter
    <2> QED
      BY <1>3, <2>1, <2>2 DEF LetGo
  <1>6. CASE d \notin asleep
    <2>1. pc'[d] = pc[d]
      BY <1>1, <1>6
    <2>2. CASE wfi_q[d]
      <3>1. wake_up_q'[d] = 0
        BY <1>1, <1>2, <1>6, <2>2 DEF WakeUpAfter
      <3>2. pc[d] = "resume"
        BY <2>2 DEF Booting, Waiting
      <3> QED
        BY <1>3, <2>1, <3>1, <3>2 DEF LetGo
    <2>3. CASE ~ wfi_q[d]
      <3>1. wake_up_q'[d] = 1
        BY <1>1, <1>2, <1>4, <1>6, <2>3 DEF WakeUpAfter
      <3>2. pc[d] \in {"boot", "wfi"}
        BY <2>3 DEF Booting, Waiting
      <3> QED
        BY <1>3, <2>1, <3>1, <3>2 DEF LetGo
    <2> QED
      BY <2>2, <2>3
  <1> QED
    BY <1>5, <1>6

-------------------------------------------------------------------------------
(* The invariant holds at the start.                                       *)
LEMMA InitPlainInv ==
  ASSUME PlainPrograms, Init
  PROVE  PlainInv
  <1>1. scenario \in Scenarios
    BY DEF Init
  <1>2. /\ Len(Program) \in Nat \ {0} /\ Counters = {Counter} /\ scenario.boots \in BOOLEAN
        /\ 1 \in Positions /\ 0 \in 0 .. Len(Program) /\ After(0) = 1
    <2>1. Len(Program) \in Nat \ {0} /\ Counters = {Counter} /\ scenario.boots \in BOOLEAN
      BY <1>1, PlainProgram
    <2> DEFINE n == Len(Program)
    <2>2. n \in Nat \ {0}
      BY <2>1
    <2> HIDE DEF n
    <2>3. 1 \in 1 .. n /\ 0 \in 0 .. n /\ (IF 0 = n THEN 1 ELSE 0 + 1) = 1
      BY <2>2
    <2> QED
      BY <2>1, <2>3 DEF n, Positions, After
  <1>3. Shape
    <2>1. prog \in [Cores -> 0 .. Len(Program)]
      <3> DEFINE n == Len(Program)
      <3>1. n \in Nat \ {0}
        BY <1>2
      <3> HIDE DEF n
      <3>2. prog \in [Cores -> 0 .. n]
        BY <3>1 DEF Init
      <3> QED
        BY <3>2 DEF n
    <2>2. mem \in [{Counter} -> Garbage \cup Nat]
      BY <1>2 DEF Init
    <2>3. pc \in [Cores -> {"boot", "add", "fence", "wfi", "resume"}]
      BY DEF Init
    <2> QED
      BY <1>1, <2>1, <2>2, <2>3 DEF Init, Shape
  <1>4. Phase
    <2>1. CASE scenario.boots
      <3>1. Resetting
        BY <2>1, AllWoken DEF Init, Resetting, Booting, Idle
      <3> QED
        BY <3>1 DEF Phase
    <2>2. CASE ~ scenario.boots
      <3>1. \A c \in Cores : Idle(c) /\ IsOut(c) /\ prog[c] = 1
        BY <2>2 DEF Init, Idle, IsOut
      <3>2. mem[Counter] = 0
        BY <1>2, <2>2 DEF Init
      <3>3. {c \in Cores : Waiting(c)} = {}
        BY <3>1 DEF IsOut, Waiting
      <3>4. Cardinality({}) = 0
        BY FS_EmptySet
      <3>5. CollectingAt(1, 0)
        BY <1>2, <3>1, <3>2, <3>3, <3>4 DEF CollectingAt, IsOut
      <3> QED
        BY <1>2, <3>5 DEF Phase
    <2> QED
      BY <2>1, <2>2
  <1> QED
    BY <1>3, <1>4 DEF PlainInv

(* Every core is somewhere.                                                *)
LEMMA PhaseKnown ==
  ASSUME Phase, NEW c \in Cores
  PROVE  Known(c)
  <1>1. CASE Resetting
    BY <1>1 DEF Resetting, Known
  <1>2. ASSUME NEW k \in Positions, NEW p \in 0 .. Len(Program), CollectingAt(k, p)
        PROVE  Known(c)
    BY <1>2 DEF CollectingAt, Known
  <1>3. ASSUME NEW k \in Positions, NEW l \in Cores, ClosedBy(k, l)
        PROVE  Known(c)
    BY <1>3 DEF ClosedBy, Known
  <1>4. ASSUME NEW k \in Positions, NEW l \in Cores, OpenedBy(k, l)
        PROVE  Known(c)
    BY <1>4 DEF OpenedBy, Known
  <1> QED
    BY <1>1, <1>2, <1>3, <1>4 DEF Phase

(* The phase in which a core is at some place.                             *)
LEMMA WhichPhase ==
  ASSUME Phase, NEW c \in Cores
  PROVE  /\ IsOut(c) => \E k \in Positions, p \in 0 .. Len(Program) : CollectingAt(k, p)
         /\ Closing(c) => \E k \in Positions : ClosedBy(k, c)
         /\ LetGo(c) => \E k \in Positions, p \in 0 .. Len(Program) : CollectingAt(k, p)
  <1>1. CASE Resetting
    BY <1>1 DEF Resetting, Booting, Waiting, IsOut, Closing, LetGo
  <1>2. ASSUME NEW k \in Positions, NEW p \in 0 .. Len(Program), CollectingAt(k, p)
        PROVE  ~ Closing(c)
    BY <1>2 DEF CollectingAt, IsOut, Waiting, LetGo, Closing
  <1>3. ASSUME NEW k \in Positions, NEW l \in Cores, ClosedBy(k, l)
        PROVE  ~ IsOut(c) /\ ~ LetGo(c) /\ (Closing(c) => c = l)
    BY <1>3 DEF ClosedBy, IsOut, Waiting, LetGo, Closing
  <1>4. ASSUME NEW k \in Positions, NEW l \in Cores, OpenedBy(k, l)
        PROVE  ~ IsOut(c) /\ ~ LetGo(c) /\ ~ Closing(c)
    BY <1>4 DEF OpenedBy, IsOut, Waiting, LetGo, Closing
  <1>5. CASE \E k \in Positions, p \in 0 .. Len(Program) : CollectingAt(k, p)
    BY <1>2, <1>5
  <1>6. CASE \E k \in Positions, l \in Cores : ClosedBy(k, l)
    BY <1>3, <1>6
  <1>7. CASE \E k \in Positions, l \in Cores : OpenedBy(k, l)
    BY <1>4, <1>7
  <1> QED
    BY <1>1, <1>5, <1>6, <1>7 DEF Phase

-------------------------------------------------------------------------------
(* What the abstract barrier sees of a core.                               *)
AtOf(c) == IF ~ InBarrier(c) THEN "out" ELSE IF Released(c) THEN "go" ELSE "in"
NextOf(c) == IF prog[c] = 0 THEN 1 ELSE prog[c]

Stays == \A d \in Cores : AtOf(d)' = AtOf(d) /\ NextOf(d)' = NextOf(d)

(* Before the first wake-up every core is out,                             *)
LEMMA AtResetting == Resetting => \A c \in Cores : AtOf(c) = "out" /\ NextOf(c) = 1
  BY DEF Resetting, AtOf, NextOf, InBarrier

(* while the cores gather, it is where the core is,                        *)
LEMMA AtCollecting ==
  \A k, p : Shape /\ CollectingAt(k, p) =>
    \A c \in Cores : AtOf(c) = IF prog[c] = 0 \/ IsOut(c) THEN "out"
                               ELSE IF LetGo(c) THEN "go" ELSE "in"
  <1> SUFFICES ASSUME NEW k, NEW p, Shape, CollectingAt(k, p), NEW c \in Cores
               PROVE  AtOf(c) = IF prog[c] = 0 \/ IsOut(c) THEN "out"
                                ELSE IF LetGo(c) THEN "go" ELSE "in"
    OBVIOUS
  <1>1. level[c] = 1
    BY DEF Shape
  <1>2. \A d \in Cores : ~ \E i \in DOMAIN wakes[d] : c \in Woken(wakes[d][i])
    <2>1. \A d \in Cores : wakes[d] = <<>> /\ DOMAIN <<>> = {}
      BY DEF CollectingAt, Idle
    <2> QED
      BY <2>1
  <1>3. Released(c) <=> (pc[c] = "resume" /\ ~ wfi_q[c]) \/ wake_up_q[c] > 0
    BY <1>2 DEF Released
  <1>4. LetGo(c) \/ IsOut(c) \/ Waiting(c)
    BY DEF CollectingAt
  <1>5. prog[c] # 0 /\ LetGo(c) => pc[c] # "boot" /\ pc[c] # "add"
    BY DEF CollectingAt, LetGo, IsOut, Waiting
  <1>6. CASE LetGo(c)
    <2>1. Released(c) /\ ~ IsOut(c)
      BY <1>3, <1>6 DEF LetGo, IsOut
    <2> QED
      BY <1>5, <1>6, <2>1 DEF AtOf, InBarrier
  <1>7. CASE IsOut(c)
    BY <1>1, <1>7 DEF IsOut, AtOf, InBarrier
  <1>8. CASE Waiting(c)
    <2>1. ~ Released(c) /\ ~ IsOut(c) /\ ~ LetGo(c) /\ pc[c] # "add"
      BY <1>3, <1>8 DEF Waiting, IsOut, LetGo
    <2> QED
      BY <2>1 DEF AtOf, InBarrier
  <1> QED
    BY <1>4, <1>6, <1>7, <1>8

(* while the counter is cleared every core waits,                          *)
LEMMA AtClosed ==
  \A k, l : k # 0 /\ ClosedBy(k, l) => \A c \in Cores : AtOf(c) = "in" /\ NextOf(c) = k
  <1> SUFFICES ASSUME NEW k, NEW l, k # 0, ClosedBy(k, l), NEW c \in Cores
               PROVE  AtOf(c) = "in" /\ NextOf(c) = k
    OBVIOUS
  <1>1. \A d \in Cores : ~ \E i \in DOMAIN wakes[d] : c \in Woken(wakes[d][i])
    <2>1. \A d \in Cores : wakes[d] = <<>> /\ DOMAIN <<>> = {}
      BY DEF ClosedBy
    <2> QED
      BY <2>1
  <1>2. Waiting(c) \/ Closing(c)
    BY DEF ClosedBy
  <1>3. ~ Released(c) /\ pc[c] # "add"
    BY <1>1, <1>2 DEF Released, Waiting, Closing
  <1>4. prog[c] = k
    BY DEF ClosedBy
  <1> QED
    BY <1>3, <1>4 DEF AtOf, NextOf, InBarrier

(* and when the register is written, every core may go.                    *)
LEMMA AtOpened ==
  \A k : \A l \in Cores :
    k # 0 /\ OpenedBy(k, l) => \A c \in Cores : AtOf(c) = "go" /\ NextOf(c) = k
  <1> SUFFICES ASSUME NEW k, NEW l \in Cores, k # 0, OpenedBy(k, l), NEW c \in Cores
               PROVE  AtOf(c) = "go" /\ NextOf(c) = k
    OBVIOUS
  <1>1. \E i \in DOMAIN wakes[l] : c \in Woken(wakes[l][i])
    <2>1. wakes[l] = <<wake_up_all>> /\ 1 \in DOMAIN <<wake_up_all>> /\ <<wake_up_all>>[1] = wake_up_all
      BY DEF OpenedBy
    <2> QED
      BY <2>1, AllWoken
  <1>2. Released(c)
    BY <1>1 DEF Released
  <1>3. prog[c] = k /\ pc[c] # "add"
    BY DEF OpenedBy, Waiting
  <1> QED
    BY <1>2, <1>3 DEF AtOf, NextOf, InBarrier

(* The same after a step.                                                  *)
LEMMA AtNext ==
  /\ Resetting' => \A c \in Cores : AtOf(c)' = "out" /\ NextOf(c)' = 1
  /\ \A k, p : Shape' /\ CollectingAt(k, p)' =>
       \A c \in Cores : AtOf(c)' = IF prog'[c] = 0 \/ IsOut(c)' THEN "out"
                                   ELSE IF LetGo(c)' THEN "go" ELSE "in"
  /\ \A k, l : k # 0 /\ ClosedBy(k, l)' => \A c \in Cores : AtOf(c)' = "in" /\ NextOf(c)' = k
  /\ \A k : \A l \in Cores :
       k # 0 /\ OpenedBy(k, l)' => \A c \in Cores : AtOf(c)' = "go" /\ NextOf(c)' = k
  <1>1. (Resetting => \A c \in Cores : AtOf(c) = "out" /\ NextOf(c) = 1)'
    BY AtResetting, PTL
  <1>2. (\A k, p : Shape /\ CollectingAt(k, p) =>
           \A c \in Cores : AtOf(c) = IF prog[c] = 0 \/ IsOut(c) THEN "out"
                                      ELSE IF LetGo(c) THEN "go" ELSE "in")'
    BY AtCollecting, PTL
  <1>3. (\A k, l : k # 0 /\ ClosedBy(k, l) => \A c \in Cores : AtOf(c) = "in" /\ NextOf(c) = k)'
    BY AtClosed, PTL
  <1>4. (\A k : \A l \in Cores :
           k # 0 /\ OpenedBy(k, l) => \A c \in Cores : AtOf(c) = "go" /\ NextOf(c) = k)'
    BY AtOpened, PTL
  <1> QED
    BY <1>1, <1>2, <1>3, <1>4

(* A core whose registers are left alone stays where it is.                *)
LEMMA SamePlace ==
  ASSUME NEW d, pc'[d] = pc[d], wfi_q'[d] = wfi_q[d], wake_up_q'[d] = wake_up_q[d]
  PROVE  /\ Booting(d)' <=> Booting(d)
         /\ IsOut(d)' <=> IsOut(d)
         /\ Waiting(d)' <=> Waiting(d)
         /\ LetGo(d)' <=> LetGo(d)
         /\ Closing(d)' <=> Closing(d)
  BY DEF Booting, IsOut, Waiting, LetGo, Closing

(* The step of a core that boots.                                          *)
LEMMA BootStep ==
  ASSUME PlainPrograms, PlainInv, NEW c \in Cores, Boot(c)
  PROVE  PlainInv' /\ Stays
  <1>1. pc[c] = "boot" /\ Shape /\ Phase
    BY DEF Boot, PlainInv
  <1>2. /\ pc' = [pc EXCEPT ![c] = "wfi"]
        /\ UNCHANGED <<scenario, level, prog, mem, strd, offst, wake_up_mask_q, wfi_q, wake_up_q>>
    BY DEF Boot, ctrlVars
  <1>3. \A d \in Cores : /\ d # c => pc'[d] = pc[d]
                         /\ wfi_q'[d] = wfi_q[d] /\ wake_up_q'[d] = wake_up_q[d]
    BY <1>2 DEF Shape
  <1>4. pc'[c] = "wfi"
    BY <1>1, <1>2 DEF Shape
  <1>5. \A d \in Cores : /\ stores'[d] = IF c = 0 /\ d = 0 THEN {Counter} ELSE stores[d]
                         /\ wakes'[d] = IF c = 0 /\ d = 0 THEN <<wake_up_all>> ELSE wakes[d]
    BY <1>1 DEF Boot, Shape, Counter
  <1>6. Shape'
    <2>1. pc' \in [Cores -> {"boot", "add", "fence", "wfi", "resume"}]
      BY <1>1, <1>2 DEF Shape
    <2>2. stores' \in [Cores -> SUBSET {Counter}] /\ wakes' \in [Cores -> {<<>>, <<wake_up_all>>}]
      BY <1>1 DEF Boot, Shape, Counter
    <2> QED
      BY <1>1, <1>2, <2>1, <2>2 DEF Shape, Program
  <1>7. CASE Resetting
    <2>1. \A d \in Cores : prog'[d] = 0 /\ (d # c => (Booting(d)' <=> Booting(d)) /\ (Waiting(d)' <=> Waiting(d)))
      BY <1>2, <1>3, <1>7, SamePlace DEF Resetting
    <2>2. Waiting(c)'
      BY <1>1, <1>3, <1>4, <1>7 DEF Resetting, Booting, Waiting
    <2>3. \A d \in Cores : prog'[d] = 0 /\ (Booting(d)' \/ Waiting(d)')
      BY <1>7, <2>1, <2>2 DEF Resetting
    <2>4. \A d \in Cores \ {0} : Idle(d)'
      BY <1>5, <1>7 DEF Resetting, Idle
    <2>5. 0 \in Cores /\ scenario'.boots
      BY <1>2, <1>7, AllWoken DEF Resetting
    <2>6. Resetting'
      <3>1. CASE c = 0
        <4>1. Waiting(0)' /\ wakes'[0] = <<wake_up_all>> /\ stores'[0] = {Counter}
          BY <1>5, <2>2, <2>5, <3>1
        <4> QED
          BY <2>3, <2>4, <2>5, <4>1 DEF Resetting
      <3>2. CASE c # 0
        <4>1. stores'[0] = stores[0] /\ wakes'[0] = wakes[0] /\ mem' = mem
          BY <1>2, <1>5, <2>5, <3>2
        <4>2. (Booting(0)' <=> Booting(0)) /\ (Waiting(0)' <=> Waiting(0))
          BY <2>1, <2>5, <3>2
        <4> QED
          BY <1>7, <2>3, <2>4, <2>5, <4>1, <4>2 DEF Resetting, Idle
      <3> QED
        BY <3>1, <3>2
    <2> QED
      BY <1>6, <1>7, <2>6, AtResetting, AtNext DEF PlainInv, Phase, Stays
  <1>8. ASSUME NEW k \in Positions, NEW p \in 0 .. Len(Program), CollectingAt(k, p)
        PROVE  PlainInv' /\ Stays
    <2>1. c # 0 /\ p = 0 /\ LetGo(c) /\ prog[c] = p
      BY <1>1, <1>8 DEF CollectingAt, IsOut, Waiting
    <2>2. LetGo(c)' /\ ~ Waiting(c)' /\ ~ Waiting(c) /\ ~ IsOut(c) /\ ~ IsOut(c)'
      BY <1>1, <1>3, <1>4, <2>1 DEF LetGo, Waiting, IsOut
    <2>3. \A d \in Cores : /\ Waiting(d)' <=> Waiting(d)
                           /\ IsOut(d)' <=> IsOut(d)
                           /\ LetGo(d)' <=> LetGo(d)
                           /\ Idle(d)' <=> Idle(d)
                           /\ pc'[d] = "boot" => pc[d] = "boot"
      <3> SUFFICES ASSUME NEW d \in Cores
                   PROVE  /\ Waiting(d)' <=> Waiting(d)
                          /\ IsOut(d)' <=> IsOut(d)
                          /\ LetGo(d)' <=> LetGo(d)
                          /\ Idle(d)' <=> Idle(d)
                          /\ pc'[d] = "boot" => pc[d] = "boot"
        OBVIOUS
      <3>1. Idle(d)' <=> Idle(d)
        BY <1>5, <2>1 DEF Idle
      <3>2. CASE d = c
        BY <1>4, <2>1, <2>2, <3>1, <3>2
      <3>3. CASE d # c
        BY <1>3, <3>1, <3>3, SamePlace
      <3> QED
        BY <3>2, <3>3
    <2>4. {d \in Cores : Waiting(d)'} = {d \in Cores : Waiting(d)}
      BY <2>3
    <2>5. CollectingAt(k, p)'
      BY <1>2, <1>8, <2>3, <2>4 DEF CollectingAt, After, Program
    <2>6. Stays
      <3>1. \A d \in Cores : prog'[d] = prog[d]
        BY <1>2
      <3> QED
        BY <1>1, <1>6, <1>8, <2>3, <2>5, <3>1, AtCollecting, AtNext DEF Stays, NextOf
    <2> QED
      BY <1>2, <1>6, <2>5, <2>6 DEF PlainInv, Phase, Positions, Program
  <1>9. ~ \E k \in Positions, l \in Cores : ClosedBy(k, l) \/ OpenedBy(k, l)
    BY <1>1 DEF ClosedBy, OpenedBy, Waiting, Closing
  <1> QED
    BY <1>1, <1>7, <1>8, <1>9 DEF Phase

(* A core comes to the barrier, as the abstract one sees it.               *)
Arrives(c) ==
  /\ AtOf(c) = "out" /\ AtOf(c)' = "in" /\ NextOf(c) \in Positions
  /\ \A d \in Cores : (d # c => AtOf(d)' = AtOf(d)) /\ NextOf(d)' = NextOf(d)

(* The step of a core that increments the counter.                         *)
LEMMA FetchAddStep ==
  ASSUME PlainPrograms, PlainInv, NEW c \in Cores, FetchAdd(c)
  PROVE  PlainInv' /\ Arrives(c)
  <1> DEFINE W == {d \in Cores : Waiting(d)}
  <1>1. pc[c] = "add" /\ Shape /\ Phase
    BY DEF FetchAdd, PlainInv
  <1>2. IsOut(c)
    BY <1>1, PhaseKnown DEF Known, Booting, IsOut, Waiting, LetGo, Closing
  <1>3. PICK k \in Positions, p \in 0 .. Len(Program) : CollectingAt(k, p)
    BY <1>1, <1>2, WhichPhase
  <1>4. prog[c] = k /\ Now(c) = PlainBarrier /\ level[c] = 1
    <2>1. prog[c] = k
      BY <1>2, <1>3 DEF CollectingAt, IsOut, LetGo
    <2> QED
      BY <1>1, <2>1, PlainProgram DEF Shape, Now
  <1>5. mem[Counter] = Cardinality(W) /\ \A d \in Cores : stores[d] = {} /\ wakes[d] = <<>>
    BY <1>3 DEF CollectingAt, Idle
  <1>6. /\ mem' = [mem EXCEPT ![Counter] = @ + 1]
        /\ UNCHANGED <<scenario, level, prog, wakes, strd, offst, wake_up_mask_q, wfi_q, wake_up_q>>
        /\ stores' = IF mem[Counter] = NumCores - 1
                     THEN [stores EXCEPT ![c] = @ \cup {Counter}] ELSE stores
        /\ pc' = [pc EXCEPT ![c] = IF mem[Counter] = NumCores - 1 THEN "fence" ELSE "wfi"]
    BY <1>4, Plain DEF FetchAdd, ctrlVars
  <1>7. IsFiniteSet(Cores) /\ Cardinality(Cores) = NumCores /\ NumCores \in Nat
    <2>1. NumCores \in Nat \ {0}
      BY ConfigAssumption
    <2>2. NumCores - 1 - 0 + 1 = NumCores /\ 0 <= NumCores - 1 /\ NumCores - 1 \in Int
      BY <2>1
    <2> QED
      BY <2>1, <2>2, FS_Interval DEF Cores
  <1>8. IsFiniteSet(W) /\ Cardinality(W) \in Nat /\ c \notin W
    <2>1. W \subseteq Cores
      OBVIOUS
    <2>2. ~ Waiting(c)
      BY <1>2 DEF IsOut, Waiting
    <2> QED
      BY <1>7, <2>1, <2>2, FS_Subset, FS_CardinalityType
  <1>9. mem' \in [{Counter} -> Garbage \cup Nat] /\ mem'[Counter] = Cardinality(W) + 1
    BY <1>1, <1>5, <1>6, <1>8 DEF Shape
  <1>10. \A d \in Cores : /\ pc'[d] = IF d # c THEN pc[d]
                                    ELSE IF mem[Counter] = NumCores - 1 THEN "fence" ELSE "wfi"
                          /\ wfi_q'[d] = wfi_q[d] /\ wake_up_q'[d] = wake_up_q[d]
    BY <1>1, <1>6 DEF Shape
  <1>11. \A d \in Cores \ {c} : /\ IsOut(d)' <=> IsOut(d)
                                /\ Waiting(d)' <=> Waiting(d)
                                /\ LetGo(d)' <=> LetGo(d)
    BY <1>10, SamePlace
  <1>12. Shape'
    <2>1. pc' \in [Cores -> {"boot", "add", "fence", "wfi", "resume"}]
      BY <1>1, <1>6 DEF Shape
    <2>2. stores' \in [Cores -> SUBSET {Counter}]
      BY <1>1, <1>6 DEF Shape
    <2> QED
      BY <1>1, <1>6, <1>9, <2>1, <2>2 DEF Shape, Program
  <1>13. AtOf(c) = "out" /\ \A d \in Cores : d # c /\ Waiting(d) => AtOf(d) = "in"
    <2>1. AtOf(c) = "out"
      BY <1>1, <1>2, <1>3, AtCollecting
    <2>2. ASSUME NEW d \in Cores, Waiting(d)
          PROVE  AtOf(d) = "in"
      <3>1. ~ IsOut(d) /\ ~ LetGo(d)
        BY <2>2 DEF IsOut, Waiting, LetGo
      <3>2. prog[d] # 0
        BY <1>3, <3>1 DEF CollectingAt, Positions
      <3> QED
        BY <1>1, <1>3, <3>1, <3>2, AtCollecting
    <2> QED
      BY <2>1, <2>2
  <1>14. k # 0 /\ k \in Positions' /\ p \in 0 .. Len(Program')
    BY <1>6 DEF Positions, Program
  <1>15. CASE mem[Counter] # NumCores - 1
    <2>1. Waiting(c)' /\ ~ IsOut(c)' /\ ~ LetGo(c)' /\ pc'[c] = "wfi"
      BY <1>2, <1>10, <1>15 DEF IsOut, Waiting, LetGo
    <2>2. {d \in Cores : Waiting(d)'} = W \cup {c}
      BY <1>11, <2>1
    <2>3. Cardinality(W \cup {c}) = Cardinality(W) + 1
      BY <1>8, FS_AddElement
    <2>4. \A d \in Cores : Idle(d)'
      BY <1>5, <1>6, <1>15 DEF Idle
    <2>5. ASSUME NEW d \in Cores
          PROVE  /\ (LetGo(d)' /\ prog'[d] = p) \/ ((IsOut(d)' \/ Waiting(d)') /\ prog'[d] = k)
                 /\ pc'[d] = "boot" => d # 0 /\ p = 0
      <3>1. CASE d = c
        BY <1>4, <1>6, <2>1, <3>1
      <3>2. CASE d # c
        BY <1>3, <1>6, <1>10, <1>11, <3>2 DEF CollectingAt
      <3> QED
        BY <3>1, <3>2
    <2>6. CollectingAt(k, p)'
      <3>1. After(p)' = k
        BY <1>3, <1>6 DEF CollectingAt, After, Program
      <3>2. mem'[Counter] = Cardinality({d \in Cores : Waiting(d)'})
        BY <1>9, <2>2, <2>3
      <3> QED
        BY <2>4, <2>5, <3>1, <3>2 DEF CollectingAt
    <2>7. Arrives(c)
      <3>1. AtOf(c)' = "in"
        BY <1>4, <1>6, <1>12, <1>14, <2>1, <2>6, AtNext
      <3>2. \A d \in Cores : d # c => AtOf(d)' = AtOf(d)
        <4>1. \A d \in Cores : prog'[d] = prog[d]
          BY <1>6
        <4> QED
          BY <1>1, <1>3, <1>11, <1>12, <2>6, <4>1, AtCollecting, AtNext
      <3>3. NextOf(c) = k /\ \A d \in Cores : NextOf(d)' = NextOf(d)
        BY <1>4, <1>6, <1>14 DEF NextOf
      <3> QED
        BY <1>13, <3>1, <3>2, <3>3 DEF Arrives
    <2> QED
      BY <1>12, <1>14, <2>6, <2>7 DEF PlainInv, Phase
  <1>16. CASE mem[Counter] = NumCores - 1
    <2>1. W = Cores \ {c}
      <3>1. Cardinality(Cores \ {c}) = NumCores - 1 /\ IsFiniteSet(Cores \ {c})
        BY <1>7, FS_RemoveElement
      <3>2. W \subseteq Cores \ {c}
        BY <1>8
      <3> QED
        BY <1>5, <1>16, <3>1, <3>2, FS_Subset
    <2>2. \A d \in Cores : d # c => Waiting(d) /\ Waiting(d)'
      BY <1>11, <2>1
    <2>3. Closing(c)' /\ stores'[c] = {Counter}
      <3>1. stores'[c] = stores[c] \cup {Counter}
        BY <1>1, <1>6, <1>16 DEF Shape
      <3> QED
        BY <1>2, <1>5, <1>10, <1>16, <3>1 DEF IsOut, Closing
    <2>4. \A d \in Cores : prog'[d] = k /\ wakes'[d] = <<>> /\ (d # c => stores'[d] = {})
      <3>1. \A d \in Cores : prog[d] = k
        BY <1>3, <1>4, <2>2 DEF CollectingAt, Waiting, LetGo
      <3>2. \A d \in Cores : d # c => stores'[d] = stores[d]
        BY <1>1, <1>6 DEF Shape
      <3> QED
        BY <1>5, <1>6, <3>1, <3>2
    <2>5. ClosedBy(k, c)'
      BY <2>2, <2>3, <2>4 DEF ClosedBy
    <2>6. Arrives(c)
      <3>1. \A d \in Cores : AtOf(d)' = "in"
        BY <1>14, <2>5, AtNext
      <3>2. NextOf(c) = k /\ \A d \in Cores : NextOf(d)' = NextOf(d)
        BY <1>4, <1>6, <1>14 DEF NextOf
      <3> QED
        BY <1>13, <2>2, <3>1, <3>2 DEF Arrives
    <2> QED
      BY <1>12, <1>14, <2>5, <2>6 DEF PlainInv, Phase
  <1> QED
    BY <1>15, <1>16

(* A core leaves the barrier, or mempool_barrier_init.                     *)
Leaves(c) ==
  \/ Stays
  \/ /\ AtOf(c) = "go" /\ AtOf(c)' = "out" /\ NextOf(c)' = After(NextOf(c))
     /\ \A d \in Cores : d # c => AtOf(d)' = AtOf(d) /\ NextOf(d)' = NextOf(d)

(* The step of a core that goes on after its WFI.                          *)
LEMMA ResumeStep ==
  ASSUME PlainPrograms, PlainInv, NEW c \in Cores, Resume(c)
  PROVE  PlainInv' /\ Leaves(c)
  <1>1. pc[c] = "resume" /\ ~ wfi_q[c] /\ Shape /\ Phase
    BY DEF Resume, PlainInv
  <1>2. LetGo(c)
    BY <1>1, PhaseKnown DEF Known, Booting, IsOut, Waiting, LetGo, Closing
  <1>3. PICK k \in Positions, p \in 0 .. Len(Program) : CollectingAt(k, p)
    BY <1>1, <1>2, WhichPhase
  <1>4. prog[c] = p /\ After(p) = k /\ ClearedBy(c) = {}
    <2>1. prog[c] = p /\ After(p) = k
      BY <1>2, <1>3 DEF CollectingAt, IsOut, Waiting, LetGo
    <2> QED
      BY <1>1, <2>1, PlainProgram DEF Shape
  <1>5. /\ pc' = [pc EXCEPT ![c] = "add"] /\ prog' = [prog EXCEPT ![c] = k]
        /\ UNCHANGED <<scenario, mem, wakes, strd, offst, wake_up_mask_q, wfi_q, wake_up_q>>
    <2>1. prog' = [prog EXCEPT ![c] = After(prog[c])]
      BY <1>1 DEF Resume, Shape
    <2> QED
      BY <1>4, <2>1 DEF Resume, ctrlVars
  <1>6. stores' = stores /\ level' = level
    <2>1. stores' = stores
      BY <1>1, <1>4 DEF Resume, Shape
    <2>2. level' = level
      BY <1>1 DEF Resume, Shape
    <2> QED
      BY <2>1, <2>2
  <1>7. \A d \in Cores : /\ pc'[d] = IF d # c THEN pc[d] ELSE "add"
                         /\ prog'[d] = IF d # c THEN prog[d] ELSE k
                         /\ wfi_q'[d] = wfi_q[d] /\ wake_up_q'[d] = wake_up_q[d]
    BY <1>1, <1>5 DEF Shape
  <1>8. Shape'
    <2>1. pc' \in [Cores -> {"boot", "add", "fence", "wfi", "resume"}]
      BY <1>1, <1>5 DEF Shape
    <2>2. prog' \in [Cores -> 0 .. Len(Program)]
      <3>1. k \in 0 .. Len(Program)
        <4> DEFINE n == Len(Program)
        <4>1. n \in Nat /\ k \in 1 .. n
          BY <1>1, PlainProgram DEF Shape, Positions
        <4> HIDE DEF n
        <4>2. k \in 0 .. n
          BY <4>1
        <4> QED
          BY <4>2 DEF n
      <3> QED
        BY <1>1, <1>5, <3>1 DEF Shape
    <2> QED
      BY <1>1, <1>5, <1>6, <2>1, <2>2 DEF Shape, Program
  <1>9. \A d \in Cores \ {c} : /\ IsOut(d)' <=> IsOut(d)
                               /\ Waiting(d)' <=> Waiting(d)
                               /\ LetGo(d)' <=> LetGo(d)
    BY <1>7, SamePlace
  <1>10. IsOut(c)' /\ ~ Waiting(c) /\ ~ Waiting(c)' /\ ~ IsOut(c)
    BY <1>1, <1>2, <1>7 DEF IsOut, Waiting, LetGo
  <1>11. CollectingAt(k, p)'
    <2>1. {d \in Cores : Waiting(d)'} = {d \in Cores : Waiting(d)}
      BY <1>9, <1>10
    <2>2. ASSUME NEW d \in Cores
          PROVE  /\ Idle(d)'
                 /\ (LetGo(d)' /\ prog'[d] = p) \/ ((IsOut(d)' \/ Waiting(d)') /\ prog'[d] = k)
                 /\ pc'[d] = "boot" => d # 0 /\ p = 0
      <3>1. Idle(d)'
        BY <1>3, <1>5, <1>6 DEF CollectingAt, Idle
      <3>2. CASE d = c
        BY <1>7, <1>10, <3>1, <3>2
      <3>3. CASE d # c
        BY <1>3, <1>7, <1>9, <3>1, <3>3 DEF CollectingAt
      <3> QED
        BY <3>2, <3>3
    <2>3. After(p)' = k
      BY <1>4, <1>5 DEF After, Program
    <2>4. mem'[Counter] = Cardinality({d \in Cores : Waiting(d)'})
      BY <1>3, <1>5, <2>1 DEF CollectingAt
    <2> QED
      BY <2>2, <2>3, <2>4 DEF CollectingAt
  <1>12. PlainInv'
    <2>1. k \in Positions' /\ p \in 0 .. Len(Program')
      BY <1>5 DEF Positions, Program
    <2> QED
      BY <1>8, <1>11, <2>1 DEF PlainInv, Phase
  <1>13. AtOf(c)' = "out" /\ k # 0
    BY <1>8, <1>10, <1>11, AtNext DEF Positions
  <1>14. \A d \in Cores : d # c => AtOf(d)' = AtOf(d) /\ NextOf(d)' = NextOf(d)
    <2> SUFFICES ASSUME NEW d \in Cores, d # c
                 PROVE  AtOf(d)' = AtOf(d) /\ NextOf(d)' = NextOf(d)
      OBVIOUS
    <2>1. prog'[d] = prog[d]
      BY <1>7
    <2> QED
      BY <1>1, <1>3, <1>8, <1>9, <1>11, <2>1, AtCollecting, AtNext DEF NextOf
  <1>15. NextOf(c)' = k
    BY <1>7, <1>13 DEF NextOf
  <1>16. CASE p = 0
    <2>1. AtOf(c) = "out"
      BY <1>1, <1>3, <1>4, <1>16, AtCollecting
    <2>2. NextOf(c) = 1 /\ k = 1
      <3>1. Len(Program) # 0
        BY <1>1, PlainProgram DEF Shape
      <3> QED
        BY <1>4, <1>16, <3>1 DEF NextOf, After
    <2> QED
      BY <1>12, <1>13, <1>14, <1>15, <2>1, <2>2 DEF Leaves, Stays
  <1>17. CASE p # 0
    <2>1. AtOf(c) = "go"
      BY <1>1, <1>2, <1>3, <1>4, <1>10, <1>17, AtCollecting
    <2>2. NextOf(c) = p
      BY <1>4, <1>17 DEF NextOf
    <2> QED
      BY <1>4, <1>12, <1>13, <1>14, <1>15, <2>1, <2>2 DEF Leaves
  <1> QED
    BY <1>16, <1>17

(* L1 performs a store: core 0 clears the counter at reset, or the last    *)
(* core of a barrier does.                                                 *)
LEMMA PerformStoreStep ==
  ASSUME PlainPrograms, PlainInv, NEW c \in Cores, NEW a \in stores[c], PerformStore(c, a)
  PROVE  PlainInv' /\ Stays
  <1>1. Shape /\ Phase /\ a = Counter
    BY DEF PlainInv, Shape
  <1>2. /\ stores' = [stores EXCEPT ![c] = @ \ {Counter}] /\ mem' = [mem EXCEPT ![Counter] = 0]
        /\ UNCHANGED <<scenario, pc, level, prog, wakes, strd, offst, wake_up_mask_q, wfi_q, wake_up_q>>
    BY <1>1 DEF PerformStore, ctrlVars
  <1>3. /\ \A d \in Cores : d # c => stores'[d] = stores[d]
        /\ stores'[c] = {} /\ mem'[Counter] = 0
    BY <1>1, <1>2 DEF Shape
  <1>4. Shape'
    <2>1. stores' \in [Cores -> SUBSET {Counter}] /\ mem' \in [{Counter} -> Garbage \cup Nat]
      BY <1>1, <1>2 DEF Shape
    <2> QED
      BY <1>1, <1>2, <2>1 DEF Shape, Program
  <1>5. \A d \in Cores : /\ Booting(d)' <=> Booting(d)
                         /\ Waiting(d)' <=> Waiting(d)
                         /\ Closing(d)' <=> Closing(d)
    BY <1>2, SamePlace
  <1>6. CASE Resetting
    <2>1. c = 0 /\ Waiting(0) /\ wakes[0] = <<wake_up_all>>
      BY <1>6 DEF Resetting, Idle
    <2>2. Resetting'
      BY <1>2, <1>3, <1>5, <1>6, <2>1 DEF Resetting, Idle
    <2> QED
      BY <1>4, <1>6, <2>2, AtResetting, AtNext DEF PlainInv, Phase, Stays
  <1>7. ASSUME NEW k \in Positions, NEW l \in Cores, ClosedBy(k, l)
        PROVE  PlainInv' /\ Stays
    <2>1. c = l
      BY <1>7 DEF ClosedBy
    <2>2. ClosedBy(k, l)'
      BY <1>2, <1>3, <1>5, <1>7, <2>1 DEF ClosedBy
    <2>3. k # 0 /\ k \in Positions'
      BY <1>2 DEF Positions, Program
    <2> QED
      BY <1>4, <1>7, <2>2, <2>3, AtClosed, AtNext DEF PlainInv, Phase, Stays
  <1>8. ~ \E k \in Positions, p \in 0 .. Len(Program) : CollectingAt(k, p)
    BY DEF CollectingAt, Idle
  <1>9. ~ \E k \in Positions, l \in Cores : OpenedBy(k, l)
    BY DEF OpenedBy
  <1> QED
    BY <1>1, <1>6, <1>7, <1>8, <1>9 DEF Phase

(* A barrier opens for all cores at once, when all of them wait at it.     *)
Opens ==
  \E k \in Positions : \A d \in Cores : /\ AtOf(d) = "in" /\ NextOf(d) = k
                                        /\ AtOf(d)' = "go" /\ NextOf(d)' = k

(* The last core writes the wake-up register, when the counter is cleared. *)
LEMMA ReleaseStep ==
  ASSUME PlainPrograms, PlainInv, NEW c \in Cores, Release(c)
  PROVE  PlainInv' /\ Opens
  <1>1. pc[c] = "fence" /\ stores[c] = {} /\ Shape /\ Phase
    BY DEF Release, Fence, PlainInv
  <1>2. Closing(c)
    BY <1>1, PhaseKnown DEF Known, Booting, IsOut, Waiting, LetGo, Closing
  <1>3. PICK k \in Positions : ClosedBy(k, c)
    BY <1>1, <1>2, WhichPhase
  <1>4. prog[c] = k /\ Now(c) = PlainBarrier /\ wakes[c] = <<>> /\ mem[Counter] = 0
    <2>1. prog[c] = k /\ wakes[c] = <<>> /\ mem[Counter] = 0
      BY <1>1, <1>3 DEF ClosedBy
    <2> QED
      BY <1>1, <2>1, PlainProgram DEF Shape, Now
  <1>5. /\ pc' = [pc EXCEPT ![c] = "wfi"] /\ wakes' = [wakes EXCEPT ![c] = <<wake_up_all>>]
        /\ UNCHANGED <<scenario, level, prog, mem, stores, strd, offst, wake_up_mask_q, wfi_q, wake_up_q>>
    <2>1. <<>> \o <<wake_up_all>> = <<wake_up_all>>
      OBVIOUS
    <2>2. wakes' = [wakes EXCEPT ![c] = wakes[c] \o Wakes(Now(c), c)]
      BY <1>1 DEF Release, Shape
    <2> QED
      BY <1>4, <2>1, <2>2, Plain DEF Release, ctrlVars
  <1>6. \A d \in Cores : /\ pc'[d] = IF d # c THEN pc[d] ELSE "wfi"
                         /\ wakes'[d] = IF d # c THEN wakes[d] ELSE <<wake_up_all>>
                         /\ wfi_q'[d] = wfi_q[d] /\ wake_up_q'[d] = wake_up_q[d]
    BY <1>1, <1>5 DEF Shape
  <1>7. Shape'
    <2>1. pc' \in [Cores -> {"boot", "add", "fence", "wfi", "resume"}]
      BY <1>1, <1>5 DEF Shape
    <2>2. wakes' \in [Cores -> {<<>>, <<wake_up_all>>}]
      BY <1>1, <1>5 DEF Shape
    <2> QED
      BY <1>1, <1>5, <2>1, <2>2 DEF Shape, Program
  <1>8. \A d \in Cores : Waiting(d)'
    <2>1. Waiting(c)'
      BY <1>2, <1>6 DEF Closing, Waiting
    <2>2. \A d \in Cores \ {c} : Waiting(d)'
      BY <1>3, <1>6, SamePlace DEF ClosedBy
    <2> QED
      BY <2>1, <2>2
  <1>9. OpenedBy(k, c)'
    BY <1>1, <1>3, <1>4, <1>5, <1>6, <1>8 DEF OpenedBy, ClosedBy
  <1>10. k # 0 /\ k \in Positions'
    BY <1>5 DEF Positions, Program
  <1>11. Opens
    BY <1>3, <1>9, <1>10, AtClosed, AtNext DEF Opens
  <1> QED
    BY <1>7, <1>9, <1>10, <1>11 DEF PlainInv, Phase

(* A core executes its WFI.                                                *)
LEMMA WfiStep ==
  ASSUME PlainPrograms, PlainInv, NEW c \in Cores, Wfi(c)
  PROVE  PlainInv' /\ Stays
  <1>1. Shape /\ Phase /\ pc[c] = "wfi" /\ WfiCycle({c}, {})
    BY DEF Wfi, PlainInv
  <1>2. UNCHANGED <<scenario, level, prog, mem, stores, wakes, strd, offst, wake_up_mask_q>>
    BY <1>1 DEF Wfi, WfiCycle, ctrlVars
  <1>3. \A d \in Cores : /\ Booting(d)' <=> Booting(d)
                         /\ IsOut(d)' <=> IsOut(d)
                         /\ Waiting(d)' <=> Waiting(d)
                         /\ LetGo(d)' <=> LetGo(d)
                         /\ Closing(d)' <=> Closing(d)
                         /\ pc'[d] = "boot" <=> pc[d] = "boot"
                         /\ Idle(d)' <=> Idle(d)
    BY <1>1, <1>2, PhaseKnown, WfiPlaces DEF Idle
  <1>4. Shape'
    <2>1. \A d \in Cores : /\ pc'[d] \in {"boot", "add", "fence", "wfi", "resume"}
                           /\ wfi_q'[d] \in BOOLEAN /\ wake_up_q'[d] \in {0, 1}
      BY <1>1, PhaseKnown, WfiPlaces
    <2>2. /\ pc' = [d \in Cores |-> pc'[d]] /\ wfi_q' = [d \in Cores |-> wfi_q'[d]]
          /\ wake_up_q' = [d \in Cores |-> wake_up_q'[d]]
      BY <1>1 DEF WfiCycle
    <2>3. /\ pc' \in [Cores -> {"boot", "add", "fence", "wfi", "resume"}]
          /\ wfi_q' \in [Cores -> BOOLEAN] /\ wake_up_q' \in [Cores -> {0, 1}]
      BY <2>1, <2>2
    <2> QED
      BY <1>1, <1>2, <2>3 DEF Shape, Program
  <1>5. Positions' = Positions /\ Len(Program)' = Len(Program)
    BY <1>2 DEF Positions, Program
  <1>6. CASE Resetting
    <2>1. Resetting'
      <3>1. 0 \in Cores
        BY AllWoken
      <3> QED
        BY <1>2, <1>3, <1>6, <3>1 DEF Resetting
    <2> QED
      BY <1>4, <1>6, <2>1, AtResetting, AtNext DEF PlainInv, Phase, Stays
  <1>7. ASSUME NEW k \in Positions, NEW p \in 0 .. Len(Program), CollectingAt(k, p)
        PROVE  PlainInv' /\ Stays
    <2>1. {d \in Cores : Waiting(d)'} = {d \in Cores : Waiting(d)}
      BY <1>3
    <2>2. CollectingAt(k, p)'
      BY <1>2, <1>3, <1>7, <2>1 DEF CollectingAt, After, Program
    <2>3. Stays
      <3>1. \A d \in Cores : prog'[d] = prog[d]
        BY <1>2
      <3> QED
        BY <1>1, <1>3, <1>4, <1>7, <2>2, <3>1, AtCollecting, AtNext DEF Stays, NextOf
    <2> QED
      BY <1>4, <1>5, <2>2, <2>3 DEF PlainInv, Phase
  <1>8. ASSUME NEW k \in Positions, NEW l \in Cores, ClosedBy(k, l)
        PROVE  PlainInv' /\ Stays
    <2>1. ClosedBy(k, l)' /\ k # 0
      BY <1>2, <1>3, <1>8 DEF ClosedBy, Positions
    <2> QED
      BY <1>4, <1>5, <1>8, <2>1, AtClosed, AtNext DEF PlainInv, Phase, Stays
  <1>9. ASSUME NEW k \in Positions, NEW l \in Cores, OpenedBy(k, l)
        PROVE  PlainInv' /\ Stays
    <2>1. OpenedBy(k, l)' /\ k # 0
      BY <1>2, <1>3, <1>9 DEF OpenedBy, Positions
    <2> QED
      BY <1>4, <1>5, <1>9, <2>1, AtOpened, AtNext DEF PlainInv, Phase, Stays
  <1> QED
    BY <1>1, <1>6, <1>7, <1>8, <1>9 DEF Phase

(* The wake-up register is written.                                        *)
LEMMA CtrlWriteStep ==
  ASSUME PlainPrograms, PlainInv, NEW c \in Cores, NEW asleep, CtrlWrite(c, asleep)
  PROVE  PlainInv' /\ Stays
  <1>1. Shape /\ Phase /\ wakes[c] # <<>> /\ \A d \in asleep : pc[d] = "wfi"
    BY DEF CtrlWrite, PlainInv
  <1>2. wakes[c] = <<wake_up_all>> /\ Head(wakes[c]) = wake_up_all /\ Tail(wakes[c]) = <<>>
    <2>1. wakes[c] = <<wake_up_all>>
      BY <1>1 DEF Shape
    <2>2. Head(<<wake_up_all>>) = wake_up_all /\ Tail(<<wake_up_all>>) = <<>>
      OBVIOUS
    <2> QED
      BY <2>1, <2>2
  <1>3. WfiCycle(asleep, Cores) /\ UNCHANGED <<strd, offst, wake_up_mask_q>>
    <2>1. strd = 1 /\ offst = 0 /\ wake_up_mask_q = Cores
      BY <1>1 DEF Shape
    <2>2. WfiCycle(asleep, Woken(wake_up_all) \cap wake_up_mask_q)
      BY <1>2 DEF CtrlWrite
    <2>3. strd' = strd /\ offst' = offst
      BY <1>2, AllWoken DEF CtrlWrite
    <2>4. wake_up_mask_q' = StrideMask(1, 0)
      BY <2>1, <2>3 DEF CtrlWrite
    <2> QED
      BY <2>1, <2>2, <2>3, <2>4, AllWoken
  <1>4. UNCHANGED <<scenario, level, prog, mem, stores>> /\ wakes' = [wakes EXCEPT ![c] = <<>>]
    <2>1. wakes' = [wakes EXCEPT ![c] = Tail(wakes[c])]
      BY <1>1 DEF CtrlWrite, Shape
    <2> QED
      BY <1>2, <1>3, <2>1 DEF WfiCycle
  <1>5. \A d \in Cores : wakes'[d] = IF d # c THEN wakes[d] ELSE <<>>
    BY <1>1, <1>4 DEF Shape
  <1>6. Positions' = Positions /\ Len(Program)' = Len(Program)
    BY <1>4 DEF Positions, Program
  <1>7. ASSUME \A d \in Cores : Booting(d) \/ Waiting(d)
        PROVE  /\ Shape' /\ (\A d \in Cores : LetGo(d)' /\ ~ Waiting(d)' /\ ~ IsOut(d)')
               /\ \A d \in Cores : pc'[d] = "boot" => pc[d] = "boot"
               /\ {d \in Cores : Waiting(d)'} = {}
    <2>1. \A d \in Cores : /\ LetGo(d)' /\ pc'[d] \in {"boot", "wfi", "resume"}
                           /\ pc'[d] = "boot" <=> pc[d] = "boot"
                           /\ wfi_q'[d] \in BOOLEAN /\ wake_up_q'[d] \in {0, 1}
      BY <1>1, <1>3, <1>7, PulsePlaces
    <2>2. /\ pc' = [d \in Cores |-> pc'[d]] /\ wfi_q' = [d \in Cores |-> wfi_q'[d]]
          /\ wake_up_q' = [d \in Cores |-> wake_up_q'[d]]
      BY <1>3 DEF WfiCycle
    <2>3. /\ pc' \in [Cores -> {"boot", "add", "fence", "wfi", "resume"}]
          /\ wfi_q' \in [Cores -> BOOLEAN] /\ wake_up_q' \in [Cores -> {0, 1}]
      BY <2>1, <2>2
    <2>4. wakes' \in [Cores -> {<<>>, <<wake_up_all>>}]
      BY <1>1, <1>4 DEF Shape
    <2>5. Shape'
      BY <1>1, <1>3, <1>4, <2>3, <2>4 DEF Shape, Program
    <2>6. \A d \in Cores : ~ Waiting(d)' /\ ~ IsOut(d)'
      BY <2>1 DEF LetGo, Waiting, IsOut
    <2> QED
      BY <2>1, <2>5, <2>6
  <1>8. Cardinality({}) = 0
    BY FS_EmptySet
  <1>9. CASE Resetting
    <2>1. c = 0 /\ Waiting(0)
      BY <1>1, <1>9 DEF Resetting, Idle
    <2>2. stores[0] = {} /\ mem[Counter] = 0 /\ \A d \in Cores : stores[d] = {}
      <3>1. scenario.ordered
        BY <1>1, <1>9, PlainProgram DEF Resetting, Shape
      <3>2. stores[0] = {}
        BY <2>1, <3>1 DEF CtrlWrite
      <3> QED
        BY <1>9, <2>1, <3>2 DEF Resetting, Idle, Waiting, Booting
    <2>3. /\ Shape' /\ (\A d \in Cores : LetGo(d)' /\ ~ Waiting(d)' /\ ~ IsOut(d)')
          /\ \A d \in Cores : pc'[d] = "boot" => pc[d] = "boot"
          /\ {d \in Cores : Waiting(d)'} = {}
      BY <1>7, <1>9 DEF Resetting
    <2>4. pc[0] # "boot"
      BY <2>1 DEF Waiting
    <2>5. \A d \in Cores : Idle(d)' /\ prog'[d] = 0
      BY <1>4, <1>5, <1>9, <2>1, <2>2 DEF Resetting, Idle
    <2>6. 1 \in Positions /\ 0 \in 0 .. Len(Program) /\ After(0) = 1 /\ After(0)' = After(0)
      <3>1. Len(Program) \in Nat \ {0}
        BY <1>1, PlainProgram DEF Shape
      <3> DEFINE n == Len(Program)
      <3>2. n \in Nat \ {0}
        BY <3>1
      <3> HIDE DEF n
      <3>3. 1 \in 1 .. n /\ 0 \in 0 .. n /\ (IF 0 = n THEN 1 ELSE 0 + 1) = 1
        BY <3>2
      <3> QED
        BY <1>4, <3>3 DEF n, Positions, After, Program
    <2>7. CollectingAt(1, 0)'
      <3>1. mem'[Counter] = Cardinality({d \in Cores : Waiting(d)'})
        BY <1>4, <1>8, <2>2, <2>3
      <3> QED
        BY <2>3, <2>4, <2>5, <2>6, <3>1 DEF CollectingAt
    <2>8. Stays
      <3>1. \A d \in Cores : AtOf(d)' = "out" /\ NextOf(d)' = 1
        BY <2>3, <2>5, <2>7, AtNext DEF NextOf
      <3> QED
        BY <1>9, <3>1, AtResetting DEF Stays
    <2> QED
      BY <1>6, <2>3, <2>6, <2>7, <2>8 DEF PlainInv, Phase
  <1>10. ASSUME NEW k \in Positions, NEW l \in Cores, OpenedBy(k, l)
         PROVE  PlainInv' /\ Stays
    <2>1. c = l
      BY <1>1, <1>10 DEF OpenedBy
    <2>2. /\ Shape' /\ (\A d \in Cores : LetGo(d)' /\ ~ Waiting(d)' /\ ~ IsOut(d)')
          /\ \A d \in Cores : pc'[d] = "boot" => pc[d] = "boot"
          /\ {d \in Cores : Waiting(d)'} = {}
      BY <1>7, <1>10 DEF OpenedBy
    <2>3. \A d \in Cores : pc[d] # "boot"
      BY <1>10 DEF OpenedBy, Waiting
    <2>4. \A d \in Cores : Idle(d)' /\ prog'[d] = k
      BY <1>4, <1>5, <1>10, <2>1 DEF OpenedBy, Idle
    <2>5. k # 0 /\ k \in 0 .. Len(Program) /\ After(k) \in Positions /\ After(k)' = After(k)
      <3>1. Len(Program) \in Nat /\ \A q \in 0 .. Len(Program) : After(q) \in Positions
        BY <1>1, PlainProgram DEF Shape
      <3>2. k # 0 /\ k \in 0 .. Len(Program)
        <4> DEFINE n == Len(Program)
        <4>1. n \in Nat /\ k \in 1 .. n
          BY <3>1 DEF Positions
        <4> HIDE DEF n
        <4>2. k # 0 /\ k \in 0 .. n
          BY <4>1
        <4> QED
          BY <4>2 DEF n
      <3> QED
        BY <1>4, <3>1, <3>2 DEF After, Program
    <2>6. CollectingAt(After(k), k)'
      <3>1. mem'[Counter] = Cardinality({d \in Cores : Waiting(d)'})
        BY <1>4, <1>8, <1>10, <2>2 DEF OpenedBy
      <3> QED
        BY <2>2, <2>3, <2>4, <2>5, <3>1 DEF CollectingAt
    <2>7. Stays
      <3>1. \A d \in Cores : AtOf(d)' = "go" /\ NextOf(d)' = k
        <4>1. \A d \in Cores : ~ IsOut(d)' /\ LetGo(d)' /\ prog'[d] # 0
          BY <2>2, <2>4, <2>5
        <4>2. \A m, p : Shape' /\ CollectingAt(m, p)' =>
                \A d \in Cores : AtOf(d)' = IF prog'[d] = 0 \/ IsOut(d)' THEN "out"
                                            ELSE IF LetGo(d)' THEN "go" ELSE "in"
          BY AtNext
        <4> QED
          BY <2>2, <2>4, <2>5, <2>6, <4>1, <4>2 DEF NextOf
      <3> QED
        BY <1>10, <2>5, <3>1, AtOpened DEF Stays
    <2> QED
      BY <1>6, <2>2, <2>5, <2>6, <2>7 DEF PlainInv, Phase
  <1>11. ~ \E k \in Positions, p \in 0 .. Len(Program) : CollectingAt(k, p)
    BY <1>1 DEF CollectingAt, Idle
  <1>12. ~ \E k \in Positions, l \in Cores : ClosedBy(k, l)
    BY <1>1 DEF ClosedBy
  <1> QED
    BY <1>1, <1>9, <1>10, <1>11, <1>12 DEF Phase

(* No core goes past a plain barrier without waiting.                      *)
LEMMA NoSkip ==
  ASSUME PlainPrograms, PlainInv, NEW c \in Cores
  PROVE  ~ Skip(c)
  <1> SUFFICES ASSUME Skip(c)
               PROVE  FALSE
    OBVIOUS
  <1>1. pc[c] = "add" /\ Shape /\ Phase
    BY DEF Skip, PlainInv
  <1>2. IsOut(c)
    BY <1>1, PhaseKnown DEF Known, Booting, IsOut, Waiting, LetGo, Closing
  <1>3. PICK k \in Positions, p \in 0 .. Len(Program) : CollectingAt(k, p)
    BY <1>1, <1>2, WhichPhase
  <1>4. prog[c] = k
    BY <1>2, <1>3 DEF CollectingAt, IsOut, LetGo
  <1>5. Now(c) = PlainBarrier
    BY <1>1, <1>4, PlainProgram DEF Shape, Now
  <1> QED
    BY <1>5, Plain DEF Skip

-------------------------------------------------------------------------------
(* The abstract barriers of a plain program: all cores form one group.     *)
Groups == [k \in DOMAIN Program |-> {Members(Program[k], c) : c \in Cores} \ {{}}]

(* One group per barrier, and as many as there are barriers.               *)
LEMMA PlainGroups ==
  ASSUME PlainPrograms, scenario \in Scenarios
  PROVE  Groups = [k \in Positions |-> {Cores}] /\ Len(Groups) = Len(Program)
  <1>1. DOMAIN Program = Positions /\ Len(Program) \in Nat /\ 0 \in Cores
    BY PlainProgram, AllWoken
  <1>2. ASSUME NEW k \in Positions
        PROVE  {Members(Program[k], c) : c \in Cores} \ {{}} = {Cores}
    <2>1. \A c \in Cores : Members(Program[k], c) = Cores
      BY PlainProgram, Plain
    <2> QED
      BY <1>1, <2>1
  <1>3. Groups = [k \in Positions |-> {Cores}]
    BY <1>1, <1>2 DEF Groups
  <1> QED
    BY <1>1, <1>3 DEF Positions

(* What the abstract barrier sees of all cores.                            *)
At == [c \in Cores |-> AtOf(c)]
NextAt == [c \in Cores |-> NextOf(c)]

(* These are the variables of GroupBarrier under the mapping of Barrier.   *)
LEMMA AbstractState == Abstract!vars = <<Groups, At, NextAt>>
  BY DEF Abstract!vars, Groups, At, NextAt, AtOf, NextOf

(* A core that arrives, the barrier that opens, a core that leaves.        *)
LEMMA AbstractStep ==
  ASSUME PlainPrograms, scenario \in Scenarios, scenario' = scenario, NEW c \in Cores,
         Stays \/ Arrives(c) \/ Opens \/ Leaves(c)
  PROVE  [Abstract!Next]_(Abstract!vars)
  <1>1. Groups' = Groups
    BY DEF Groups, Program
  <1>2. Groups = [k \in Positions |-> {Cores}] /\ Len(Groups) = Len(Program)
    BY PlainGroups
  <1>3. CASE Stays
    <2>1. At' = At /\ NextAt' = NextAt
      BY <1>3 DEF Stays, At, NextAt
    <2>2. (Abstract!vars = <<Groups, At, NextAt>>)'
      BY AbstractState, PTL
    <2>3. Abstract!vars' = Abstract!vars
      BY <1>1, <2>1, <2>2, AbstractState
    <2> QED
      BY <2>3
  <1>4. CASE Arrives(c)
    <2>1. NextAt' = NextAt
      BY <1>4 DEF Arrives, NextAt
    <2>2. At' = [At EXCEPT ![c] = "in"]
      BY <1>4 DEF Arrives, At
    <2>3. At[c] = "out" /\ c \in UNION Groups[NextAt[c]]
      BY <1>2, <1>4 DEF Arrives, At, NextAt
    <2>4. Abstract!Arrive(c)
      BY <1>1, <2>1, <2>2, <2>3 DEF Abstract!Arrive, Groups, At, NextAt, AtOf, NextOf
    <2> QED
      BY <2>4 DEF Abstract!Next
  <1>5. CASE Opens
    <2>1. PICK k \in Positions :
            \A d \in Cores : /\ AtOf(d) = "in" /\ NextOf(d) = k
                             /\ AtOf(d)' = "go" /\ NextOf(d)' = k
      BY <1>5 DEF Opens
    <2>2. NextAt' = NextAt /\ At' = [d \in Cores |-> IF d \in Cores THEN "go" ELSE At[d]]
      BY <2>1 DEF At, NextAt
    <2>3. \A d \in Cores : At[d] = "in" /\ NextAt[d] = k
      BY <2>1 DEF At, NextAt
    <2>4. Abstract!Open(k, Cores)
      BY <1>1, <2>2, <2>3 DEF Abstract!Open, Groups, At, NextAt, AtOf, NextOf
    <2>5. k \in DOMAIN Groups /\ Cores \in Groups[k]
      BY <1>2
    <2> QED
      BY <2>4, <2>5 DEF Abstract!Next, Groups
  <1>6. CASE ~ Stays /\ Leaves(c)
    <2>1. /\ AtOf(c) = "go" /\ AtOf(c)' = "out" /\ NextOf(c)' = After(NextOf(c))
          /\ \A d \in Cores : d # c => AtOf(d)' = AtOf(d) /\ NextOf(d)' = NextOf(d)
      BY <1>6 DEF Leaves
    <2>2. At[c] = "go" /\ At' = [At EXCEPT ![c] = "out"]
      BY <2>1 DEF At
    <2>3. NextAt' = [NextAt EXCEPT ![c] = IF NextAt[c] = Len(Groups) THEN 1 ELSE NextAt[c] + 1]
      BY <1>2, <2>1 DEF NextAt, After
    <2>4. Abstract!Leave(c)
      BY <1>1, <2>2, <2>3 DEF Abstract!Leave, Abstract!Following, Groups, At, NextAt, AtOf, NextOf
    <2> QED
      BY <2>4 DEF Abstract!Next
  <1> QED
    BY <1>3, <1>4, <1>5, <1>6

(* Every step keeps the invariant and is a step of the abstract barrier.   *)
LEMMA BarrierStep ==
  ASSUME PlainPrograms, PlainInv, [Next]_vars
  PROVE  PlainInv' /\ [Abstract!Next]_(Abstract!vars)
  <1>0. scenario \in Scenarios /\ 0 \in Cores
    BY AllWoken DEF PlainInv, Shape
  <1>1. ASSUME NEW c \in Cores, CoreStep(c)
        PROVE  PlainInv' /\ [Abstract!Next]_(Abstract!vars)
    <2>1. scenario' = scenario
      BY <1>1 DEF CoreStep, Boot, FetchAdd, Release, Wfi, WfiCycle, Resume, Skip
    <2>2. PlainInv' /\ (Stays \/ Arrives(c) \/ Opens \/ Leaves(c))
      BY <1>1, BootStep, FetchAddStep, ReleaseStep, WfiStep, ResumeStep, NoSkip DEF CoreStep
    <2> QED
      BY <1>0, <2>1, <2>2, AbstractStep
  <1>2. ASSUME NEW c \in Cores, NEW a \in stores[c], PerformStore(c, a)
        PROVE  PlainInv' /\ [Abstract!Next]_(Abstract!vars)
    <2>1. scenario' = scenario
      BY <1>2 DEF PerformStore
    <2> QED
      BY <1>0, <1>2, <2>1, PerformStoreStep, AbstractStep
  <1>3. ASSUME NEW c \in Cores, NEW asleep, CtrlWrite(c, asleep)
        PROVE  PlainInv' /\ [Abstract!Next]_(Abstract!vars)
    <2>1. scenario' = scenario
      BY <1>3 DEF CtrlWrite, WfiCycle
    <2> QED
      BY <1>0, <1>3, <2>1, CtrlWriteStep, AbstractStep
  <1>4. CASE UNCHANGED vars
    <2> USE <1>4 DEF vars, ctrlVars
    <2>1. PlainInv'
      <3>1. Shape' /\ Positions' = Positions /\ Program' = Program
        BY DEF PlainInv, Shape, Positions, Program
      <3>2. Resetting' <=> Resetting
        BY DEF Resetting, Booting, Waiting, Idle
      <3>3. \A k, p : CollectingAt(k, p)' <=> CollectingAt(k, p)
        BY DEF CollectingAt, After, Program, IsOut, Waiting, LetGo, Idle
      <3>4. \A k, l : ClosedBy(k, l)' <=> ClosedBy(k, l)
        BY DEF ClosedBy, Waiting, Closing
      <3>5. \A k, l : OpenedBy(k, l)' <=> OpenedBy(k, l)
        BY DEF OpenedBy, Waiting
      <3> QED
        BY <3>1, <3>2, <3>3, <3>4, <3>5 DEF PlainInv, Phase
    <2>2. Stays
      BY DEF Stays, AtOf, NextOf, InBarrier, Released
    <2> QED
      BY <1>0, <2>1, <2>2, AbstractStep
  <1> QED
    BY <1>1, <1>2, <1>3, <1>4 DEF Next

(* The initial states are the abstract ones: everyone is out.              *)
LEMMA AbstractInit ==
  ASSUME PlainPrograms, Init
  PROVE  Abstract!Init
  <1>1. Groups = [k \in Positions |-> {Cores}] /\ Len(Groups) = Len(Program) /\ Len(Program) # 0
    BY PlainGroups, PlainProgram DEF Init
  <1>2. \A k \in DOMAIN Groups : Abstract!Disjoint(Groups[k])
    BY <1>1 DEF Abstract!Disjoint
  <1>3. Groups # <<>>
    BY <1>1
  <1>4. \A c \in Cores : AtOf(c) = "out" /\ NextOf(c) = 1
    BY DEF Init, AtOf, NextOf, InBarrier
  <1>5. At = [c \in Cores |-> "out"] /\ NextAt = [c \in Cores |-> 1]
    BY <1>4 DEF At, NextAt
  <1> QED
    BY <1>2, <1>3, <1>5 DEF Abstract!Init, Groups, At, NextAt, AtOf, NextOf

(* The invariant gives the types, and that no wake-up goes astray.         *)
LEMMA PlainTypes ==
  ASSUME PlainPrograms, PlainInv
  PROVE  TypeOK /\ NoStrayWakeUp
  <1>1. Shape /\ Phase
    BY DEF PlainInv
  <1>2. Counters = {Counter} /\ DOMAIN Program = Positions
    BY <1>1, PlainProgram DEF Shape
  <1>3. ASSUME NEW c \in Cores, prog[c] # 0
        PROVE  level[c] \in 1 .. Top(Now(c))
    <2>1. prog[c] \in Positions
      BY <1>1, <1>3 DEF Shape, Positions
    <2>2. Now(c) = PlainBarrier
      BY <1>1, <2>1, PlainProgram DEF Shape, Now
    <2> QED
      BY <1>1, <2>2, Plain DEF Shape
  <1>4. wake_up_q \in [Cores -> 0 .. OutstandingWfi - 1]
    <2>1. {0, 1} \subseteq 0 .. OutstandingWfi - 1
      BY ConfigAssumption DEF PlainPrograms
    <2> QED
      BY <1>1, <2>1 DEF Shape
  <1>5. TypeOK
    BY <1>1, <1>2, <1>3, <1>4 DEF TypeOK, Shape
  <1>6. NoStrayWakeUp
    BY <1>1, PhaseKnown DEF NoStrayWakeUp, Known, Booting, IsOut, Waiting, LetGo, Closing
  <1> QED
    BY <1>5, <1>6

(* Types of the variables, for every number of cores.                      *)
THEOREM BarrierTypeCorrect ==
  ASSUME PlainPrograms
  PROVE  Spec => []TypeOK
  <1>1. Init => PlainInv
    BY InitPlainInv
  <1>2. PlainInv /\ [Next]_vars => PlainInv'
    BY BarrierStep
  <1>3. PlainInv => TypeOK
    BY PlainTypes
  <1> QED
    BY <1>1, <1>2, <1>3, PTL DEF Spec

(* No wake-up of a plain barrier is carried out of it, and wake_up_q never *)
(* holds more than one: snitch.sv does not miss any.                       *)
THEOREM NoWakeUpAstray ==
  ASSUME PlainPrograms
  PROVE  Spec => []NoStrayWakeUp
  <1>1. Init => PlainInv
    BY InitPlainInv
  <1>2. PlainInv /\ [Next]_vars => PlainInv'
    BY BarrierStep
  <1>3. PlainInv => NoStrayWakeUp
    BY PlainTypes
  <1> QED
    BY <1>1, <1>2, <1>3, PTL DEF Spec

(* mempool_barrier is a barrier for every number of cores and any program  *)
(* of such barriers: no core goes past it before all have come to it,      *)
(* whatever the order of the increments, of the store that clears the      *)
(* counter, of the WFIs and of the wake-up.                                *)
THEOREM PlainBarrierHolds ==
  ASSUME PlainPrograms
  PROVE  Spec => ImplementsBarrier
  <1>1. Init => PlainInv
    BY InitPlainInv
  <1>2. PlainInv /\ [Next]_vars => PlainInv'
    BY BarrierStep
  <1>3. Init => Abstract!Init
    BY AbstractInit
  <1>4. PlainInv /\ [Next]_vars => [Abstract!Next]_(Abstract!vars)
    BY BarrierStep
  <1> QED
    BY <1>1, <1>2, <1>3, <1>4, PTL DEF Spec, ImplementsBarrier, Abstract!Spec
===============================================================================
