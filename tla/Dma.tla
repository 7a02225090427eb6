---------------------------------- MODULE Dma ----------------------------------
(***************************************************************************)
(* The DMA from the copy a core asks for (software/runtime/dma.h) to the   *)
(* pieces that the engines of the groups execute: the frontend             *)
(* mempool_dma.sv, the registers of mempool_system.sv, the two midends     *)
(* idma_split_midend.sv and idma_distributed_midend.sv, and the completion *)
(* signals on their way back.  One step is one clock cycle.                *)
(*                                                                         *)
(* Addresses count units; 0 .. L1Size - 1 is the L1 (DmaRegionStart is 0). *)
(* The engine of a group is a server that executes its pieces in order.    *)
(***************************************************************************)
EXTENDS Integers, Sequences, FiniteSets

CONSTANTS NoMstPorts,          \* NumGroups
          Width,               \* DmaRegionWidth of idma_distributed_midend
          L1Size,
          TransFifoDepth,
          PortDepth,           \* pieces a group's register and engine hold
          Transfers,           \* the copies software asks for: [src, dst, n]
          Overlap              \* copies launched before software waits

Ports == 0 .. NoMstPorts - 1
FullWidth == NoMstPorts * Width      \* DmaRegionWidth of idma_split_midend
SpillDepth == 2

InL1(a) == a < L1Size

ASSUME Configuration ==
  /\ {NoMstPorts, Width, L1Size, TransFifoDepth, PortDepth, Overlap} \subseteq Nat \ {0}
  /\ \A t \in Transfers :
       /\ t \in [src : Nat, dst : Nat, n : Nat \ {0}]
       /\ (InL1(t.src) <=> ~ InL1(t.dst))
       /\ \A a \in {t.src, t.dst} : InL1(a) => a + t.n <= L1Size

VARIABLES
  launched,        \* copies launched since software last waited
  waiting,         \* software is in dma_wait
  done_q,          \* trans_complete_q of mempool_dma: the done register
  dma_meta,        \* the registered trans_complete of the midends
  spill,           \* i_dma_req_register
  req_q,           \* idma_split_midend: <<>> when Idle, the rest when Busy
  num_trans_q,     \* pieces that idma_split_midend waits for
  forked,          \* i_stream_fork: the ports that have the piece presented
  tie_off,         \* tie_off_trans_complete_q
  fifo,            \* entries of i_trans_complete_fifo, per port
  port,            \* the pieces a group has yet to execute, oldest first
  owed             \* history: the unit copies asked for and not yet made

software == <<launched, waiting>>
vars == <<software, done_q, dma_meta, spill, req_q, num_trans_q, forked, tie_off,
          fifo, port, owed>>

Init ==
  /\ launched = 0 /\ waiting = FALSE
  /\ done_q = FALSE /\ dma_meta = FALSE /\ spill = <<>> /\ req_q = <<>>
  /\ num_trans_q = 0 /\ forked = {} /\ tie_off = {}
  /\ fifo = [i \in Ports |-> 0] /\ port = [i \in Ports |-> <<>>]
  /\ owed = {}

Units(t) == {<<t.src + k, t.dst + k>> : k \in 0 .. t.n - 1}

-------------------------------------------------------------------------------
(* idma_split_midend: pieces that end where the next FullWidth begins.     *)

L1Addr(t) == IF InL1(t.src) THEN t.src ELSE t.dst

Room(t) == FullWidth - (L1Addr(t) % FullWidth)

Advance(t, k) == [src |-> t.src + k, dst |-> t.dst + k, n |-> t.n - k]

(* burst_req_o, as a sequence that is empty when valid_o is low.           *)
burst_req ==
  IF req_q # <<>>
  THEN <<[req_q[1] EXCEPT !.n = IF @ <= FullWidth THEN @ ELSE FullWidth]>>
  ELSE IF spill # <<>>
  THEN <<[spill[1] EXCEPT !.n = IF @ <= Room(spill[1]) THEN @ ELSE Room(spill[1])]>>
  ELSE <<>>

(* The next req_q; accepted says that burst_req is taken in this cycle.    *)
(* Note that a split copy leaves the register whether it is or not.        *)
split(accepted) ==
  IF req_q # <<>>
  THEN IF ~ accepted THEN req_q
       ELSE IF req_q[1].n <= FullWidth THEN <<>>
       ELSE <<Advance(req_q[1], FullWidth)>>
  ELSE IF spill = <<>> \/ spill[1].n <= Room(spill[1]) THEN <<>>
  ELSE <<IF accepted THEN Advance(spill[1], Room(spill[1])) ELSE spill[1]>>

split_ready(accepted) ==
  /\ req_q = <<>> /\ spill # <<>>
  /\ accepted \/ spill[1].n > Room(spill[1])

split_trans_completeEach(num_trans_d) ==   \* mutant: reports every piece
  num_trans_d < num_trans_q

split_trans_complete(num_trans_d) ==
  num_trans_q = 1 /\ num_trans_d = 0

-------------------------------------------------------------------------------
(* idma_distributed_midend: every port gets its slice of a piece.          *)

Start(t) == L1Addr(t) % FullWidth
End(t) == Start(t) + t.n

Involved(t, i) == Start(t) < (i + 1) * Width /\ End(t) > i * Width

SliceSizeShort(t, i) ==                    \* mutant: > for >= in the last test
  IF Start(t) >= i * Width
  THEN IF End(t) <= (i + 1) * Width THEN t.n ELSE Width - (Start(t) % Width)
  ELSE IF End(t) > (i + 1) * Width THEN Width ELSE End(t) % Width

SliceSize(t, i) ==
  IF Start(t) >= i * Width
  THEN IF End(t) <= (i + 1) * Width THEN t.n ELSE Width - (Start(t) % Width)
  ELSE IF End(t) >= (i + 1) * Width THEN Width ELSE End(t) % Width

(* The slice starts at i * Width within the L1 address of the piece.       *)
Slice(t, i) ==
  LET onL1(a) == a - (a % FullWidth) + (i * Width)
      onL2(a) == a + (i * Width) - Start(t)
  IN  IF Start(t) >= i * Width THEN [t EXCEPT !.n = SliceSize(t, i)]
      ELSE [src |-> IF InL1(t.src) THEN onL1(t.src) ELSE onL2(t.src),
            dst |-> IF InL1(t.src) THEN onL2(t.dst) ELSE onL1(t.dst),
            n |-> SliceSize(t, i)]

fifo_ready == \A i \in Ports : fifo[i] < TransFifoDepth

(* valid of i_stream_fork, and the ports that take their slice, or that    *)
(* take nothing because they have none.                                    *)
fork_valid == IF burst_req # <<>> /\ fifo_ready THEN Ports \ forked ELSE {}

fork_taken ==
  {i \in fork_valid : Involved(burst_req[1], i) => Len(port[i]) < PortDepth}

accepted_i == fork_valid # {} /\ forked \cup fork_taken = Ports

(* tie_off_trans_complete_d; completed are the ports that complete a piece *)
(* in this cycle.                                                          *)
tie_off_dNone(completed) ==                \* mutant: only the ports involved report
  tie_off \cap completed

tie_off_d(completed) ==
  (tie_off \cap completed)
    \cup {i \in fork_valid : ~ Involved(burst_req[1], i)}

(* Every port has completed its slice of the oldest piece.                 *)
dist_trans_complete == \A i \in Ports : fifo[i] > 0

fifo_d(completed) ==
  [i \in Ports |->
     fifo[i] - (IF dist_trans_complete THEN 1 ELSE 0)
             + (IF i \in completed \cup tie_off /\ fifo[i] < TransFifoDepth THEN 1 ELSE 0)]

-------------------------------------------------------------------------------
(* One cycle.  launch holds the copy that software launches in it, if any, *)
(* and finished the ports whose engine finishes its oldest piece.  A piece *)
(* without a byte is discarded and never completes.                        *)

(* trans_complete_d of mempool_dma: a launch clears the flag.              *)
trans_complete_d(launch) ==
  launch = {} /\ (done_q \/ dma_meta)

(* A launch is lost when the register is full: nothing looks at its ready  *)
(* ("TODO stall").                                                         *)
spill_d(launch, rest) ==
  IF launch # {} /\ Len(spill) < SpillDepth
  THEN Append(rest, CHOOSE t \in launch : TRUE) ELSE rest

(* The back end of a group executes its pieces in order, each in a time of *)
(* its own, and reports the last write response of a piece.  The midend of *)
(* the group itself has one port (dmas_per_group = 1) and passes through.  *)
Finishing == {i \in Ports : port[i] # <<>>}

Cycle(launch, finished) ==
  LET completed == {i \in finished : port[i][1].n > 0}
      num_trans_d == num_trans_q + (IF accepted_i THEN 1 ELSE 0)
                                 - (IF dist_trans_complete THEN 1 ELSE 0)
      rest == IF split_ready(accepted_i) THEN Tail(spill) ELSE spill
      slice(i) == IF i \in fork_taken /\ Involved(burst_req[1], i)
                  THEN <<Slice(burst_req[1], i)>> ELSE <<>>
  IN  /\ done_q' = trans_complete_d(launch)
      /\ dma_meta' = split_trans_complete(num_trans_d)
      /\ spill' = spill_d(launch, rest)
      /\ req_q' = split(accepted_i)
      /\ num_trans_q' = num_trans_d
      /\ forked' = IF accepted_i THEN {} ELSE forked \cup fork_taken
      /\ tie_off' = tie_off_d(completed)
      /\ fifo' = fifo_d(completed)
      /\ port' = [i \in Ports |->
                    (IF i \in finished THEN Tail(port[i]) ELSE port[i]) \o slice(i)]
      /\ owed' = (owed \ UNION {Units(port[i][1]) : i \in finished})
                   \cup UNION {Units(t) : t \in launch}

(* dma_memcpy_nonblocking: the read of next_id.  The copies under way do   *)
(* not overlap the new one.                                                *)
Launch(t, finished) ==
  /\ ~ waiting /\ launched < Overlap
  /\ Units(t) \cap owed = {}
  /\ launched' = launched + 1
  /\ Cycle({t}, finished)
  /\ UNCHANGED waiting

(* dma_wait: enters the loop, and leaves it when done reads as set.        *)
Wait(finished) ==
  /\ ~ waiting /\ launched > 0
  /\ waiting' = TRUE
  /\ Cycle({}, finished)
  /\ UNCHANGED launched

Done(finished) ==
  /\ waiting /\ done_q
  /\ waiting' = FALSE /\ launched' = 0
  /\ Cycle({}, finished)

Tick(finished) ==
  /\ Cycle({}, finished)
  /\ UNCHANGED software

Next ==
  \E finished \in SUBSET Finishing :
    \/ \E t \in Transfers : Launch(t, finished)
    \/ Wait(finished) \/ Done(finished) \/ Tick(finished)

(* The clock runs, engines finish, and the loop of dma_wait reads again.   *)
Fairness ==
  /\ WF_vars(Tick({}))
  /\ WF_vars(\E finished \in SUBSET Finishing : Done(finished))
  /\ \A i \in Ports :
       WF_vars(\E finished \in SUBSET Finishing : i \in finished /\ Tick(finished))

Spec == Init /\ [][Next]_vars /\ Fairness

-------------------------------------------------------------------------------
(* Where the unit copy u is waiting to be made, counted.                   *)
Places(u) ==
  Cardinality({k \in DOMAIN spill : u \in Units(spill[k])})
  + Cardinality({k \in DOMAIN req_q : u \in Units(req_q[k])})
  - Cardinality({i \in forked : /\ Involved(burst_req[1], i)
                                /\ u \in Units(Slice(burst_req[1], i))})
  + Cardinality({p \in Ports \X (1 .. PortDepth) :
                   p[2] <= Len(port[p[1]]) /\ u \in Units(port[p[1]][p[2]])})

(* Splitting loses, repeats and misplaces nothing: every unit that is still *)
(* to be copied is in one place, and an engine is given the copies that     *)
(* were asked for, with an L1 side within the region of its own group (its  *)
(* crossbar sends all L1 addresses there).                                  *)
PiecesExact ==
  /\ \A u \in owed : Places(u) = 1
  /\ \A i \in Ports : \A k \in DOMAIN port[i] : \A u \in Units(port[i][k]) :
       /\ u \in owed
       /\ \A a \in {u[1], u[2]} : InL1(a) => (a % FullWidth) \div Width = i

(* When dma_wait returns every copy launched before it has been made, on    *)
(* every group and for every split.                                         *)
DoneMeansDone ==
  waiting /\ done_q => owed = {}

(* dma_wait returns: no completion of a piece or of a port without a slice  *)
(* is lost.                                                                 *)
EveryTransferDone ==
  []<>(~ waiting)
===============================================================================
