# TeraNoC in TLA+

A verification project for the MemPool / TeraPool / TeraNoC manycore: up to 1024
Snitch cores share one L1 scratchpad of single-ported banks, reached through tile
crossbars and a mesh NoC, and synchronise with atomics, LR/SC, wake-up pulses and
the barriers of a bare-metal runtime. The modules below model the path of a memory
access from the core to the bank and back, the DMA from the copy a core asks for to
the banks, and the runtime on top: barriers, OpenMP, heap. TLC checks them on small instances;
TLAPS proves, for every size, the results about the bank, the load/store unit and its shim, the
plain barrier, the OpenMP teams, the wide path into the banks and the midends of the DMA.

All paths are relative to `src/`.

## 1. Inventory of the system

| Part | State | Operations | Interacts with | What makes it correct |
|---|---|---|---|---|
| L1 bank + `hardware/src/tcdm_adapter.sv` | SRAM, AMO state machine, one LR/SC reservation, metadata register, answer FIFO | take a request, write an atomic back, answer | bank crossbar of the tile (requests and answers), harts, DMA | atomicity; answers paired with requests under back-pressure; SC never succeeds over another hart's write; no livelock |
| Snitch LSU `hardware/deps/snitch/src/snitch_lsu.sv`, scoreboard and FENCE in `snitch.sv` | free identifiers, their metadata, a held request, scoreboard | issue, handshake, response, FENCE | core pipeline, TCDM shim | responses in any order reach the right register; identifiers neither lost nor doubled; FENCE waits for everything |
| TCDM shim `hardware/src/tcdm_shim.sv`, `snitch_addr_demux.sv` | identifier FIFOs of SoC reads and writes | route a request by address, merge responses | LSU, banks (echo the identifier), AXI port (does not) | every response carries its own identifier |
| Wake-up: `hardware/src/ctrl_registers.sv`, WFI in `snitch.sv`, `software/runtime/runtime.h` | stride, offset and mask registers; per core `wfi_q` and stored pulses | register writes, WFI | runtime, all cores | a pulse before, with or after its WFI counts once |
| Barriers `software/runtime/synchronization.c` | counters in L1 | 8 barrier functions and `mempool_barrier_init` | L1 atomics, posted stores, wake-up registers | nobody passes early, everybody passes, no wake-up left over |
| Heap `software/runtime/alloc.c` | free lists in L1 | alloc, free, first fit, coalescing | one core, no lock | blocks disjoint; nothing lost |
| OpenMP runtime `software/runtime/omp/` | `event` (the region to run), one work-share descriptor, three locks | parallel, dynamic for, sections, single, copyprivate, barrier, critical, atomic | barriers, wake-ups, L1 | every iteration, section and block runs once, in its stage; no thread left behind |
| Bank interconnect `hardware/src/mempool_tcdm_bank_interco.sv` | fork and join of wide requests, rotation FIFO, response multiplexer | narrow and wide (DMA) accesses | adapter, AXI bridge | cores and DMA see one memory; wide answers complete; no deadlock between wide and narrow |
| AXI to L1 bridge `hardware/deps/reqrsp_interface/src/axi_to_reqrsp.sv`, `reqrsp_demux.sv`, decoding in `mempool_group.sv` | burst counters, read/write arbiter, response buffers, tile FIFO | split bursts into beats, send each to its tile, pair the answers | DMA back end, bank interconnect | answers pair with beats; neither reads nor writes starve |
| NoC ports `hardware/src/mempool_group_floonoc_wrapper.sv`, `floo_remapper.sv`, `selector.sv`, `mempool_tile_rw_demux.sv` | LFSR / round-robin selectors, register slices | spread requests over router channels, return answers | tiles, FlooNoC routers | nothing lost, doubled or misrouted |
| Address scrambler `hardware/src/mempool_addr_scrambler.sv` | none | permute address bits | every request | a bijection that keeps the sequential region in its tile |
| AXI side `axi_hier_interco.sv`, `axi_L2_interleaver.sv`, `snitch_axi_adapter.sv`, read-only cache | AXI transactions in flight | instruction refill, L2, control registers | tiles, SoC | AXI ordering |
| DMA `hardware/src/mempool_dma.sv`, `hardware/deps/idma/src/midends/`, `software/runtime/dma.h` | done flag, request register, split state and piece count, completion FIFOs | launch, split at rows, distribute over groups, join completions, wait | cores, engines of the groups | every unit copied once by its own group; done only when all is done; done in the end |
| Instruction cache (a dependency, patched by `hardware/deps/patches/cluster_icache.patch`) | lines, pending refills | lookup, prefetch, refill | cores, AXI | a core gets the line it asked for |

Hard behaviours, in the order in which the project takes them up: several harts on one
bank between the read and the write of an atomic; answers delayed at will by the
consumer; responses that overtake each other; posted stores that land after the
wake-up that follows them; wake-up pulses that come before their WFI; barriers that
reuse each other's counters; liveness of retry loops; one work-share descriptor for all
constructs of a program; wide accesses that need all banks while cores hold some;
completions of pieces, groups and copies that meet in one flag. `PROJECT.json` lists every hazard
at its line under `hazards`, with the properties that cover it, or a note saying what keeps a run from meeting it.

## 2. Modules and how they correspond to the code

`PROJECT.json` maps every definition to its lines. One step of a hardware module's
`Next` is one clock cycle, except in BankInterco and DmaTcdm, where it is one handshake; signal and register names are those of the code.

* **AtomicBank** – what a bank promises: requests act indivisibly in order of acceptance,
  answers leave in that order with their own metadata, an SC succeeds only on an
  unbroken LR (it may fail for no reason).
* **TcdmAdapter** – `tcdm_adapter.sv` with the SRAM behind it. `Accept(r, ready)` is a cycle
  that takes request `r`, `NoRequest` one without, `CommitAmo` the write-back of an
  atomic (`DoAMO`, and `WriteBackAMO` with `RegisterAmo`); `Respond` is the
  response half of every cycle: `i_rdata_fifo` (fall-through, depth 2, drops when
  full), `i_metadata_register` (two entries, `ready_o` unconnected), `in_ready_i` free.
  `UniqueCoreId` reproduces the key of `gen_lrsc` with its part selects. `link` is a
  history variable: per hart the address of its unbroken LR. Uninitialised SRAM is
  the value `X`.
* **AmoAlu** – `amo_alu` on `W`-bit words, with its one adder of `W+2` bits, and the
  RISC-V definition it is compared with.
* **LrScLoop** – harts that retry LR/SC on one bank, some of which may leave after the LR.
* **SnitchLsu** – `snitch_lsu.sv` and the scoreboard of `snitch.sv`. A cycle has the
  request `q` the core presents, `qready`, and at most one response `p` with
  identifier `pid`. `net` stands for everything behind the port (external): it may
  answer any request it took, at any time. In a cycle without a memory access the core may
  offload an instruction to an accelerator (`Offloadable`: IPU, FP subsystem, shared divider), which marks
  its destination in the scoreboard as a load does; `offloaded` counts the instructions the accelerators
  (external) have not returned, and one of them may retire in any cycle (`Retirable`). `RegNrWritePorts` is 2 in
  MemPool: the core then takes a load in every cycle; with one port a load waits for other
  write-backs and goes before a result. Left out: data alignment and sign extension, which only pass through
  the metadata, and `CSRRSI`/`CSRRCI` of the SSR register (`snitch.sv:628-660`), which call an accelerator without
  marking a destination: MemPool has no such unit.
* **TcdmShim** – extends SnitchLsu: the network is now the banks, which echo the
  identifier, and an AXI port with separate read and write channels, for which
  the shim keeps two identifier FIFOs (`fifo_v3`, full flag unused). The response arbiters have
  fixed priorities (`Rank`: remote tiles, own tile, reads of the SoC, writes to the SoC); which response comes first is any one's
  in the actions, since the banks decide when to answer, and the priorities are in the fairness condition.
* **WakeUp** – the wake-up registers and stride mask of `ctrl_registers.sv`, the functions of
  `runtime.h` that write them (with the eight cases of `wake_up_tile`), and the
  next values of `wfi_q` and `wake_up_q`. The pipeline between the registers and the
  cores has the same depth for all cores and is left out.
* **PartialWakeUp** – the register writes with which the partial barriers wake their cores, with
  32-bit masks and five-bit shift amounts.
* **GroupBarrier** – what a barrier promises: it opens for all cores of its group when all
  are in it, and not before.
* **Barrier** – the barriers of `synchronization.c` on that hardware. A core is at
  `boot`, `add` (the atomic of one tree level), `fence`, `wfi` or `resume`. Stores of
  0 to a counter are posted (`stores`), and so are register writes (`wakes`, in order
  per core); `PerformStore` and `CtrlWrite` perform them; a `CtrlWrite` may coincide
  with the WFI of any set of cores. The barrier functions differ in the counters they
  use, the number of levels and what they wake; one record describes each. A scenario
  says which barriers the cores call in turn, whether they come out of reset with garbage
  in L1, and whether the network performs a core's writes before its later accesses.
  `mempool_strided_log_barrier` is not a program of any scenario: it calls
  `mempool_log_barrier` on all but the first level.
* **Heap** – what the allocator promises: disjoint blocks, first fit, and failure only when no
  place is large enough.
* **Alloc** – `alloc.c`. The free list lives in `mem`, the words of the heap, as in the code: a free
  block is its size and its successor, a block in use has its size and canary in front.
  `domain_malloc` and `domain_free` are one action each, with the early returns as
  `malloc_fails` and `free_refused`. One caller at a time: the code has no lock. The application
  (external) fills the blocks it gets with a value of their own and may overrun a block by a
  word, onto the next block's header; the value it writes never has the canary's byte, so
  the overrun is detected. `simple_malloc` and `simple_free` are the same on one fixed heap.
* **ForkJoin** – what the OpenMP runtime promises: each piece of work of a region runs once, in
  its stage, and the master goes on when all is run.
* **Omp** – `software/runtime/omp/`. Core 0 is the master, the others loop on WFI and `run_task`. A
  region is the library function the compiler calls for it and the constructs of its body. A core's
  `pc` names the place in the library: `serial`, `fork` and `join` of the master; `lock`, `check`,
  `share` and `unlock` of `gomp_work_share_start` and its callers; `loop_start`, `loop_next`,
  `sections_next`, `work`; `barrier` to `past` of `mempool_barrier_gomp`. Every read or write of
  a shared word is a step of its own unless the lock is held. `works` and `event` have the fields
  of the code. A static loop is code each thread runs for itself (`task`): the library is not
  called. Work done is counted in `ran`.
* **AddrScrambler** – `mempool_addr_scrambler.sv` as a function: the swap of the sequential
  region and the tile remap, with bit fields as quotients and remainders.
* **BankInterco** – `mempool_tcdm_bank_interco.sv`: the fork of a wide request over the
  banks of a superbank (`WideTake`), the join of their answers (`WidePop`) with the rotation
  the bank remap calls for, the multiplexer that locks to a superbank, and the narrow requests,
  to which the wide ones are preferred. A bank is the in-order server that TcdmAdapter implements,
  two requests deep.
* **DmaTcdm** – `axi_to_reqrsp.sv`, `reqrsp_demux.sv` and the tile decoding of `mempool_group.sv`,
  composed with BankInterco and AddrScrambler. `SendAR`, `SendAW` and `SendW` are the channels of the
  engine's data mover, which may present any burst at any time,
  `Arbitrate` picks a beat, `BufferMeta` and `TakeWord` are the two branches of `i_fork`,
  `Deliver` joins an answer with the oldest beat.
* **Dma** – `dma.h`, `mempool_dma.sv`, the register in `mempool_system.sv`, `idma_split_midend.sv` and
  `idma_distributed_midend.sv`. `Cycle` is a clock cycle of all of them at once; `Launch`, `Wait`,
  `Done` and `Tick` say what software does in it. The back end of a group is taken for a server that executes its
  pieces in order, each in a time of its own, and reports the last write response of a piece (`Finishing`); the
  group's own distributed midend (`mempool_group.sv:390`) passes through, since every configuration has
  one DMA per group. `owed` is a history variable: the unit copies asked for and not yet made.
  Copies are between L1 and L2: an engine sends all its L1 addresses to its own group, so that
  a copy within the L1 is not a request the hardware serves.
* **TcdmAdapterProofs**, **SnitchLsuProofs**, **TcdmShimProofs**, **BarrierProofs**, **DmaTcdmProofs**,
  **DmaProofs**, **OmpProofs**, **AllocProofs** – theorems and proofs. **MC…** – instances for TLC.

Composition: TcdmShim shows that shim + banks + AXI port are a network as SnitchLsu assumes;
TcdmAdapter shows that a bank is atomic, which is how Barrier and Omp use their counters and
locks, and that it answers in order, which is the bank of BankInterco; FenceSound
of SnitchLsu is what Barrier's `Fence` waits for; WakeUp is below both Barrier and Omp; DmaTcdm is
what serves the L1 side of the pieces that Dma hands out.

## 3. Runs

| Run | Instance | What it shows |
|---|---|---|
| `bank` | 2 words of 2 bits; core 1 of the tile issues all nine atomics, loads, byte stores and LR/SC, a remote hart LR/SC, stores and atomics, the DMA stores; apart from that, 3 harts that retry LR/SC, one of which may abandon its loop | Types; `AnswersPaired`; `ReservationSound`; `StoreConditionalSound`; the adapter implements `AtomicBank`; `BankReadyAgain`; some SC always succeeds in the end, unless the reservation was abandoned, in which case it is never freed |
| `bank_lrsc_alias` (violation) | two remote harts, groups 1 and 2, same tile number and port | their reservation keys coincide: an SC succeeds without an LR of its own |
| `shim` | 3 identifiers, registers x0 and x1, an L1 and a SoC address | identifiers, metadata, scoreboard and FENCE are right for responses in every order; every identifier comes back unless the core gets one access through and one answer back in every cycle for ever; the FIFOs match what is outstanding; the shim is a network SnitchLsu allows |
| `partial_wakes` | 256 cores, 4 groups (MemPool) | every call of the two partial barriers wakes exactly its cores, once |
| `partial_terapool` (violation) | 1024 cores, 16 groups (TeraPool) | tiles of groups 8–15 cannot be woken |
| `barrier` | 4 cores in tiles of two, three scenarios | nobody early, nobody late, no wake-up left over |
| `alloc` | a heap of five 8-byte blocks, 16-bit words; requests of 4, 5, 16 and 252 bytes | no byte lost or given out twice; the allocator never writes into a block in use; it implements `Heap` |
| `omp` | 3 cores; three programs: a single and a dynamic loop with a chunk that does not divide it, then a combined loop; a team of two with criticals, atomic, barrier and combined sections; two copyprivates and sections | the runtime implements `ForkJoin`; `CriticalExclusive`; `CopyDelivered`; `WakeUpsMatched`; every region is joined |
| `interco` | 2 tiles behind a DMA, one superbank of 4 banks each, both remaps on, a read burst over a row, a write burst into the next, two cores on one bank | `WideCoherent`: cores and DMA reach the same words; `WideInOrder`: answers pair with beats; the DMA, its reads and the cores are served |
| `dma` | 4 groups with regions of 2 units, copies of one unit up to four rows in both directions, one at a time | `PiecesExact`; `DoneMeansDone`; `dma_wait` returns |
| `dma_overlap` (violation) | 2 groups, two one-unit copies before one wait | the done flag is set when the first copy is done |
| `barrier_log_race` (violation) | 4 cores, reordering network | an inner counter's reset lands a round late; the barrier never opens again |

Why the bounds suffice. The bank is never more than two answers deep, so three
requesters meet in every combination; two words tell "same address" from "another"; two
bits give a positive and a negative operand, zero and overflow. The unrestricted statement
is the theorem. Three identifiers let responses overtake each other twice and let an
identifier be reused while another waits. Four cores in tiles of two give every kind of
wake-up but the group one (checked by `partial_wakes`), two levels of tree, and a core that
is a whole round ahead of another. `OutstandingWfi` is 8 as in `snitch.sv`.
Five blocks leave room for a freed block with neighbours free on no, either or both sides; the
sizes need one block exactly, two, three, and more than the size field holds (a word has
an 8-bit canary, which leaves 8 bits in the instance and 24 in the code). Neither end of the heap is
a block boundary. Requests whose size wraps around are not made (§5 says what they do).
Three cores give a team with a first, a last and another thread, and a team smaller than the cluster;
the regions of a program repeat for ever, so that each starts from what the others left behind. Two tiles with
a burst across rows make both remaps move a beat, `BufDepth` and `RespDepth` are as in the code, so
that every buffer fills. `TransFifoDepth` of the instance exceeds `PortDepth`, so that no completion meets a full
FIFO; the 16 entries of the code may be fewer than a group holds (§5). A copy of four rows overtakes itself on idle ports.
`MCDmaTcdm` also evaluates `ScramblerSound` for 2 to 8 tiles: the scrambler is a
permutation of the L1, keeps tile `t`'s sequential region in tile `t` and every other word behind its DMA.

Fairness. *Bank*: the clock runs and the consumer takes an answer again and again, as
the round-robin response crossbar does. *LR/SC*: additionally each hart that waits is let
through in the end (strong fairness: an `rr_arb_tree` serves a requester that asks
again and again). *LSU*: the network takes a waiting request and answers every request
it took, and with two write ports the core is always ready. An answer of a remote tile, which has the highest
priority of the response arbiters, arrives in the end. One of the own tile or of the SoC (whose port prefers reads to
writes, `snitch_axi_adapter.sv:244`) does so unless it is starved: from some cycle on, every cycle brings an answer of
higher priority (`Starved`). Nothing more is assumed, so that `IdsRecycled` has to say when identifiers do not come
back: if, from some cycle on, the core gets an answer and has another request taken in every cycle, neither of them a
write to the SoC (`Saturated`). Without this exception TLC finds the starved SoC access. *Barrier*: a core that can
go on does, and every posted store or register write is performed in the end. *OpenMP*: every core keeps
executing instructions; nothing is assumed about who gets a lock. *Interconnect*: a handshake that stays
possible happens, the write data of an accepted burst comes, and the request crossbar is a round robin
(strong fairness of `NarrowAccept`); nothing forces new bursts. *DMA*: the clock runs, an engine finishes
the piece it has, and the loop of `dma_wait` reads again. No run
switches deadlock checking off except `barrier_log_race`, whose subject is that the cores stop.

## 4. Proofs

`TcdmAdapterProofs` (any word set, address set, request set, both settings of `RegisterAmo`):

* `TypeCorrect`, `NoAnswerLost`. `AnswersPaired` is not inductive. The invariant `IInv` adds
  that the FIFO holds no more than two answers and that the registers of the write-back
  match the state machine (`AmoStaged`). The key step is that a request is only taken when
  the FIFO is empty: `usage_o` is one bit and reads 0 both for an empty and a full FIFO, hence
  the two conditions of `rdata_ready`.
* `ReservationsSound`, `StoreConditionalsSound`: from the assumption `UniqueIds`, that the
  reservation keys tell the harts apart. The assumption is needed: `bank_lrsc_alias` shows
  what happens without it, and that the repository's configuration does not meet it.
* `AdapterImplementsBank`: the refinement, from `UniqueIds` and `AluCorrect` (the ALU computes
  the ISA's operations; run `bank` checks that for `AmoAlu`). The mapping takes an atomic to have
  happened when it is accepted, and pairs the metadata with the answers stored or arriving.
  The step that needs care is the registered write-back, which first stores a stale value.

`SnitchLsuProofs` (any number of identifiers, registers, addresses, one write port or two):

* `TypeCorrect`, `IdentifiersConserved`, `EveryResponseMatched`: one inductive
  invariant, the conjunction of `TypeOK`, `IdsConserved`, `ResponsesMatched` and
  `HeldMeansFull`: a request that is held without an identifier found the table full, so that
  at most one identifier, returned in the meantime, is free.
* `FenceIsSound`: for two identifiers or more. With one identifier, the default of the module's
  parameter, it is false (the repository instantiates eight): the identifier comes back
  while a second request waits in the fall-through register.
* `ScoreboardIsExact`: a register is marked exactly while one load or one offloaded instruction that writes it is
  under way, with one write port or two. Both are only issued to an unmarked register, so that no two of them have
  the same destination; the response or the result that clears a mark relies on that. The proof goes register
  by register (`BusyMeansAwaited`, `NotBothAwaited`), since a load may retire, an instruction be issued and a result
  retire in one cycle.
* `RequestsStable`: an action property. A request that waits at the port keeps its fields and its
  identifier: `req_id_q` was latched in the first cycle, and a waiting request is not pushed again.

`TcdmShimProofs` (any number of identifiers, any address map):

* `ShimIsOneNetwork`: shim, banks and AXI port take, answer and never invent requests as the network
  of SnitchLsu does, so that `CoreBehindShim` concludes for the composed system what
  SnitchLsuProofs proves of the load/store unit on any network.
* `SocIdentifiersInOrder`: the two identifier FIFOs hold the identifiers of the unanswered accesses
  of their kind, in order. The invariant adds that these accesses are in flight and
  distinct (`Queue`). An identifier is in flight at most once, which is why FIFOs as deep as there are
  identifiers cannot overflow although nobody looks at their full flag.

`BarrierProofs` (any number of cores, any sequences of `mempool_barrier`):

* `PlainBarrierHolds` (the refinement of GroupBarrier), `NoWakeUpAstray`, `BarrierTypeCorrect`, under
  `PlainPrograms`: `wake_up_q` stores at least one wake-up (eight in `snitch.sv`), and if core 0 boots
  with `mempool_barrier_init`, its wake-up does not overtake its store. The code does not
  ensure the latter (no fence between the two); it is listed as a hazard.
* The inductive invariant says in which of four phases the cluster is: `Resetting` (core 0
  initialises the counter), `CollectingAt(k, p)` (the counter is the number of cores that have arrived at
  barrier `k`, the others are at most a wake-up behind it), `ClosedBy(k, l)` (all have arrived, `l` clears
  the counter) and `OpenedBy(k, l)` (`l` has yet to wake the others). `NoStrayWakeUp` alone is not
  inductive: that a stored wake-up is the one of the barrier its core is in needs the counter.
  The key step is a core that is woken, leaves and arrives at barrier `k + 1` while others still
  have the wake-up of barrier `k` stored: it counts on a counter that was cleared before the wake-up,
  which is what the fence between them is for.

`DmaTcdmProofs` (any number of tiles, superbanks and banks, any bursts, remaps on or off):

* `WideIsCoherent`: from `Configuration` (sizes are positive, two banks or more share a superbank, bursts stay
  in the interleaved part of the L1, as the hardware requires of the DMA). It rests on lemmas
  about the scrambler for these addresses, proved from `\div` and `%`. The invariant
  follows a beat through the bridge: `BurstInv` (the counters of a burst run from its first address to
  its last, and the buffered beat is the next one), `BankInv` (every wide entry of a bank is in the
  bank and row of its word) and `SelInv` (a locked response multiplexer points at a superbank that has an answer).
* `WideAnswersInOrder`, from `Configuration` and `OneSuperbank`: a beat of the DMA is as wide as a tile, as in
  MemPool and TeraPool (512 bits, 16 banks). Without it the property is false, see §5.
* No variable lists the beats whose answer is due, so the inductive invariant `OrderInv` asserts that such a list
  exists: `flight`, split by tile into `lane`, where beat `i` of `flight` is entry `rank[i]` of its lane
  (`Merged`). Everything else is said against it. `Buffered`: the response buffers hold `flight`, one beat
  more or one less when one branch of `i_fork` has gone first (`ForkInv`). `Remembered`: the demultiplexer's
  FIFO holds the tiles of `flight` and each rotation FIFO the rotations of its lane. `Stored`: the wide entries of each
  bank are the words of its lane, and of the beat at hand if that bank has taken it already.
* The key step is `Deliver`: the banks of a tile all have a wide answer in front while some of them may already
  hold the beat at hand. As the beat is not done some bank has not taken it, so that bank's wide entry is from the
  lane, the lane is not empty, and its first beat is the front of every bank. The demultiplexer admits
  only the tile of the first beat of `flight`, whose rank is then 1.

`DmaProofs` (any number of groups, region width, L1 size, any copies between L1 and L2, engines of any speed):

* `DmaDoneMeansDone`, `DmaPiecesExact`, from `Configuration` (positive sizes; one side of each copy is in
  the L1, entirely) and `OneCopy`: software waits for each copy (`dma_overlap` shows why) and
  the completion FIFOs have at least three entries (16 in the code).
* The inductive invariant puts a copy in one of four states: `Resting`, `Fresh` (in the register),
  `Working` and `Complete`. `Working` has four parts. `Counted`: no port has more pieces, tie-offs and
  completions than were accepted; completions may be lost, none is made up. `RestAligned`: after the first
  piece, what the split midend has left starts at a row. `Ordered`: the pieces of a
  port are in its group's region, one after the other, before that rest. `Exact`: a
  unit copy not made yet is either in the rest or in the one piece of its group's port, and what is in
  either has not been made.
* Two steps need care. The counter of the distributed midend cannot reach 0 between two pieces of a copy: while
  a piece waits to be taken, the port that holds it back either has a piece of an earlier one, or a FIFO
  is full and so the count is three or more. And the slice for a port is the intersection of
  the piece with the region of its group, for a piece within a row of regions: the places where the
  midend's masks and comparisons could be off by one.

`OmpProofs` (any number of cores, any program of the constructs of `Omp`, dynamic loops and sections of any size):

* `CriticalSectionsExclusive`, `WakeUpsAreMatched`, from `OneTeam`: the regions of a program have teams of one
  size (the whole cluster or a part of it; with teams that grow, `Growing` in §5 shows what happens), and
  `wake_up_q` can hold two wake-ups (`OutstandingWfi` is 8).
* The critical locks alone are easy; what could free a lock that is held is `gomp_new_work_share` of the
  next region. So the proof is about the team: `TeamInv` says that either the master is alone (`Serial`) or
  the team is at work (`Working`). In `Working` every thread is at one of nine kinds of
  places (`Thread`), `event.barrier` counts those that have not ended, and `barrier` those that wait.
  `i` is 1 between the wake-up with which core 0 starts a barrier and the one that ends it, and fixes the wake-ups
  a thread has stored at each place: none in the barrier, `i` outside, `1 + i` if it has not consumed the last.
* Threads go through different constructs at the same time, as sections, critical blocks and combined
  loops end without a barrier. `Passed` says that they have passed the same barriers: with barriers
  numbered along the body (`Points`) and a thread at `Pos`, the numbers up to `Pos` are the same for all. That
  there is no barrier between two threads is what makes the counter of one barrier enough, and gives that all who
  wait are at the same one. It also avoids counting barriers, which would need induction over the body.

* `OmpTyped`, `CopiesDelivered`, from `OneTeam` and `SharesReturned`: a team that runs a copyprivate has at least two
  threads, a single or copyprivate comes before the loop or the sections of its region, and a combined construct is alone
  in its region. These are programs that find the work share free when they need it (a combined construct has no other form); §5 has
  programs that do not.
* `TypeOK` says that `works.completed` never exceeds the number of cores, and `CopyDelivered` that a
  thread copies what was published for its own construct. Both need to know whose the one work share of
  the runtime is, which the code does not record. `ShareInv` says it: `HolderInv`, at most one thread is between lock and
  unlock, and only then is the lock taken; `CheckInv`, what it read of `checkfirst` is still true;
  and `ShareState`, for the single or copyprivate that the team is at, either nobody has counted and the share is free, or
  `completed` is the number of those that have, one of them is the first, and all others who have not
  counted are still before it. That a thread cannot reach the next single before the last has given
  the share back follows from `Passed`: there is a barrier at the end of each.

* `ForkJoinImplemented` (the refinement of ForkJoin: every iteration, section and block runs exactly once,
  after the stages before its own and before the join), from `OneTeam`, `SharesReturned` and `Regular`: dynamic loops count up
  with positive step and chunk, a region has at most one loop or sections, and sections come last in it. Each part
  is a limit of the code: `loop.c` compares with `<` only, a loop or sections keep the share until the next
  fork, and `GOMP_sections_end` has no barrier, so that what follows would overtake a section. The programs of
  `MCPrograms` satisfy all three hypotheses; those of §5 that violate `ImplementsForkJoin` each fail one.
* The invariant `RanInv` ties `ran` to where the threads are, construct by construct (`RanConstruct`).
  `Own`: a thread has run a task or critical block once it has left it. `Once`: the block of a single has been run unless
  nobody has counted or the first thread has not yet run it. `Split`, for a loop or sections: what the threads have been given
  (`Has`) is disjoint and below `works.next`, all of the work below `next` that nobody has in hand has been run once, none
  above, and a thread that has gone on saw `next` at the end. `Dealt` adds that `next` is a number of whole
  steps from the start, as chunks are cut by it; `Marks` and `FirstInv` that exactly the first thread to come sets the share up,
  or the master in a combined construct.
* A step is then an abstract `Run` of the stage of its construct: two constructs of different stages have a
  construct with a barrier between them (`StageGrows`), all threads have passed it (`Passed`), and a construct that all
  have left has been run (`AllRan`). The same lemma gives the abstract `Join`, as `event.barrier = 0` means that all have ended.

`AllocProofs` (any heap bounds and word width, any set of request sizes, any sequence of calls):

* `AllocTyped`, `HeapIsPartitioned`, `BlocksIntact` and `HeapImplemented` (the refinement of Heap), from
  `HeapAssumption` and `WordAssumption` (a word holds more than the canary, addresses are below the word's range) and
  `NoWrap`, that a requested size with its header and rounding fits a word. §5 shows what a request that does not fit does.
* The free list is a linked list in the memory it manages, and what `Alloc` reads of it is a recursive function (`Nth`). Induction
  on the list is avoided: `Inv` says that *some set* `F` of aligned addresses in the heap is the free list
  (`HeapInv(F)`): ordered by address, each block's `next` being the least address of `F` above it, no two
  blocks touching, and blocks in use and free ones together covering the heap exactly. The header of a block in use is as
  `malloc` left it, or it is odd, because a neighbour wrote over it. The walk is then determined by the set:
  the equation of `Nth` is derived once (`Recursion`, by induction over a set in place of a predicate), blocks are at least
  eight bytes apart, so that the walk ends, and what it meets is `F` (`FreeBlocksAre`).
* What could go wrong is the merging of neighbours in `free_block` and the splitting in `malloc`, each in the four cases of what
  is left of a block and who touches whom. That free blocks never touch is what makes the first block that is
  large enough the abstract one, and a block whose header has the size and canary that `malloc` wrote is shown to be
  one that was given out, so that `free` returns what was taken.

Only model-checked: everything under fairness (`BankReadyAgain`, `ScProgress`,
`IdsRecycled`, `EveryoneLeaves`, `RegionsJoin`, `WideServed`, `ReadsServed`, `NarrowServed`,
`EveryTransferDone`), which the prover does not handle; the tree, partial and strided barriers; what `AmoAlu` computes, and that the scrambler is a permutation
(`ScramblerSound`). `PartialBarrierWakes` and `LogPartialBarrierWakes` are about pure functions of a core range, and `partial_wakes`
evaluates them for every call there is on the 256 cores of MemPool, so that a proof would add other
cluster sizes only; it would be about bit masks, which the provers do not reason about.

## 5. Findings

* The reservation key (`tcdm_adapter.sv:182`) does not tell remote harts of different groups or
  cores apart; the DMA shares the key of core 0.
* `wake_up_tile` (`runtime.h:191`) has cases for eight groups; TeraPool has sixteen.
* `mempool_log_barrier` and its relatives reset inner counters without a fence
  (`synchronization.c:84`).
* The done flag of the DMA (`mempool_dma.sv:69`) does not know which copy it belongs to: with two
  copies under way, `dma_wait` returns when the first is done.

Further cases that the modules decide but that are not runs of their own; each needs the change of the
configuration named here:

* `MCOmp.cfg` with `Programs <- Descending`: a dynamic loop that counts down
  runs no iteration (`loop.c` compares with `<` only), although the tests contain one. With
  `Many`: after a dynamic loop the work share is not given back, so that the next single of the region
  runs nowhere. With `Growing`: a core that stored a wake-up while it was not in the team runs
  the next, larger region on the old wake-up and again on its own. With
  `Parallel(1, <<Copyprivate, Single>>)`: in a team of one the thread that runs a copyprivate is also the last,
  and `GOMP_single_copy_start` gives the share back only on the path of the others, so that the next
  single runs nowhere. Each violates `ImplementsForkJoin`.
* `MCAlloc.cfg` with a size of 65532 (`0xFFFFFFFC` in 32 bits): adding the header and rounding up
  wraps around to 0 (`alloc.c` does not look), so that `malloc` returns a block of no bytes and the free list is
  no longer one (`HeapPartitioned`, `DataIntact`).
* `MCDmaTcdm.cfg` with two superbanks of two banks per tile and one narrow port that reaches both: answers
  of the two superbanks overtake each other (`WideInOrder`). With one tile there is no demultiplexer in front;
  with several, its FIFO remembers only the tile. MinPool and the 4x4 NoC configurations of 64 and 128 cores have
  two superbanks, MemPool and TeraPool one. With one tile per DMA and the tile remap on, the scrambler still advances
  one bit of the tile id, so that a word leaves its DMA (`ScramblerSound` with `nd = 1`).
* `MCDma.cfg` with `TransFifoDepth = 2`, `PortDepth = 4` and a copy of six rows: completions of idle
  ports are dropped and `dma_wait` never returns. With `Overlap = 2` and
  `PortDepth = 1`, a split copy leaves the register before its first piece is taken,
  and the copy is then cut at the wrong places (`PiecesExact`); with `Overlap = 3` a launch is dropped ("TODO stall").

Limits met on the way that no comment, doc or test contradicts, kept as hazards: an abandoned
reservation blocks its bank; `mempool_barrier_init` wakes the cores without a fence after its
store; ranges of `mempool_partial_barrier` across groups, or of exactly one tile's worth of
cores but misaligned, wake the wrong cores; strided barriers share stride and offset
with every other wake-up; the fixed priorities of the response arbiters starve a SoC response for as long as a core
gets a more urgent answer in every cycle (`IdsRecycled` names this case).

## 6. Plan

1. *(done)* AtomicBank, TcdmAdapter, AmoAlu, LrScLoop; proofs of the bank.
2. *(done)* SnitchLsu, TcdmShim; proofs of the load/store unit.
3. *(done)* WakeUp, PartialWakeUp, GroupBarrier, Barrier.
4. *(done)* Heap, Alloc.
5. *(done)* ForkJoin, Omp.
6. *(done)* AddrScrambler, BankInterco, DmaTcdm.
7. *(done)* Dma.
8. NoC ports of a group: remapper, selector and read/write demultiplexer: nothing lost,
   doubled or misrouted. The systolic queues of `software/kernels/systolic`.
9. *(done)* Proofs of the shim, the plain barrier, the wide path (words and order), the midends of the
   DMA, the heap allocator, and the OpenMP runtime (teams, work shares, the refinement of ForkJoin).
10. Proofs: the tree barriers.

## 7. Not modelled

Instruction decoding, integer and floating-point units (arithmetic without shared state);
FlooNoC routers, AXI crossbars and the instruction cache (dependencies outside the repository), and with
the routers the NoC ports around them, whose channels mean nothing without the routing; the
AXI adapter of the cores; the iDMA back end, which the
DMA modules take as a server that executes pieces in order; the systolic queues;
tile, group and cluster wiring except where it decides behaviour (metadata,
address map, wake-up pipeline), which is in the modules of the parts it connects; control
registers that only hold a value; testbench, scripts, kernels and applications.
