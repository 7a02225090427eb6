------------------------------- MODULE DmaTcdm -------------------------------
(***************************************************************************)
(* The DMA's way into the L1: AXI bursts become wide requests in           *)
(* hardware/deps/reqrsp_interface/src/axi_to_reqrsp.sv, reqrsp_demux.sv    *)
(* sends each to the tile that mempool_group.sv decodes from its address,  *)
(* and BankInterco serves them there next to the accesses of the cores.    *)
(* A wide address counts superbanks, the unit of a beat.                   *)
(***************************************************************************)
EXTENDS BankInterco

CONSTANTS SeqRowsPerTile, TcdmWords, TileIdRemap,
          BufDepth,                \* of axi_to_reqrsp
          RespDepth,               \* of reqrsp_demux
          ReadBursts, WriteBursts, \* [addr, len], len + 1 beats each
          NarrowAddrs              \* the word addresses a narrow port may access

Scrambler == INSTANCE AddrScrambler WITH NumTilesPerDma <- NumTiles

ASSUME Configuration ==
  /\ NumTiles \in Nat \ {0} /\ NumSuperbanks \in Nat \ {0} /\ NumBanksPerSB \in Nat \ {0, 1}
  /\ SeqRowsPerTile \in Nat /\ TcdmWords \in Nat
  /\ \A b \in ReadBursts \cup WriteBursts :
       /\ b.addr \in Nat /\ b.len \in Nat
       /\ b.addr * NumBanksPerSB >= Scrambler!SeqWords       \* DMA addresses are interleaved
       /\ (b.addr + b.len + 1) * NumBanksPerSB <= TcdmWords

VARIABLES
  ar, aw,         \* the bursts presented on the AR and AW channels, or none
  w_valid,        \* a beat is presented on the W channel
  r_cnt_q, rd_addr, w_cnt_q, wr_addr,
  meta_sel_q,     \* the arbiter's last choice: a write
  cur,            \* the beat the arbiter is locked to, or none
  meta_done,      \* i_fork: i_meta_buf and i_sel_buf have the beat
  q_done,         \* i_fork: the request channel has it
  meta_buf,       \* i_meta_buf and i_sel_buf, which move together
  fwd             \* i_id_fifo of reqrsp_demux

axi == <<ar, aw, w_valid>>
bursts == <<r_cnt_q, rd_addr, w_cnt_q, wr_addr>>
vars == <<interco, axi, bursts, meta_sel_q, cur, meta_done, q_done, meta_buf, fwd>>

Init ==
  /\ IntercoInit
  /\ ar = <<>> /\ aw = <<>> /\ w_valid = FALSE
  /\ r_cnt_q = 0 /\ rd_addr = 0 /\ w_cnt_q = 0 /\ wr_addr = 0
  /\ meta_sel_q = FALSE /\ cur = <<>> /\ meta_done = FALSE /\ q_done = FALSE
  /\ meta_buf = <<>> /\ fwd = <<>>

-------------------------------------------------------------------------------
(* Where an access goes.                                                   *)

(* The bank and row that a core's word address reaches.                    *)
CoreLocation(a) ==
  LET s == Scrambler!Scramble(a, TRUE)
  IN  <<Scrambler!TileId(s), narrow_sel(Scrambler!BankId(s), Scrambler!RowId(s)),
        Scrambler!RowId(s)>>

(* tile_id_remap and tcdm_dma_req of mempool_group.sv.                     *)
WideRequest(beat) ==
  LET a == beat.addr * NumBanksPerSB
  IN  [tile |-> Scrambler!TileId(Scrambler!Scramble(a, FALSE)),
       bank_id |-> Scrambler!BankId(a), row |-> Scrambler!RowId(a), id |-> beat.addr]

(* reqrsp_demux, which a DMA with a single tile does without.              *)
fifo_full == NumTiles > 1 /\ Len(fwd) >= RespDepth

(* The wide request the tiles see.                                         *)
WidePresented ==
  IF cur # <<>> /\ ~ q_done /\ ~ fifo_full THEN {WideRequest(Head(cur))} ELSE {}

-------------------------------------------------------------------------------
(* The AXI side: the channels of the DMA engine's data mover, which        *)
(* presents any burst, and the data of a write burst, at any time.         *)

SendAR == /\ ar = <<>> /\ \E b \in ReadBursts : ar' = <<b>>
          /\ UNCHANGED <<interco, aw, w_valid, bursts, meta_sel_q, cur, meta_done, q_done, meta_buf, fwd>>

SendAW == /\ aw = <<>> /\ \E b \in WriteBursts : aw' = <<b>>
          /\ UNCHANGED <<interco, ar, w_valid, bursts, meta_sel_q, cur, meta_done, q_done, meta_buf, fwd>>

SendW == /\ ~ w_valid
         /\ aw # <<>> \/ w_cnt_q > 0
         /\ w_valid' = TRUE
         /\ UNCHANGED <<interco, ar, aw, bursts, meta_sel_q, cur, meta_done, q_done, meta_buf, fwd>>

rd_valid == r_cnt_q > 0 \/ ar # <<>>
wr_valid == w_valid /\ (w_cnt_q > 0 \/ aw # <<>>)

rd_meta == IF r_cnt_q > 0
           THEN [write |-> FALSE, addr |-> rd_addr + 1, last |-> r_cnt_q = 1]
           ELSE [write |-> FALSE, addr |-> Head(ar).addr, last |-> Head(ar).len = 0]

wr_meta == IF w_cnt_q > 0
           THEN [write |-> TRUE, addr |-> wr_addr + 1, last |-> w_cnt_q = 1]
           ELSE [write |-> TRUE, addr |-> Head(aw).addr, last |-> Head(aw).len = 0]

(* Reads against writes of the same QoS.                                   *)
meta_selWrites ==                    \* mutant: a write always goes first
  wr_valid

meta_sel ==
  IF wr_valid # rd_valid THEN wr_valid
  ELSE \/ wr_meta.last /\ ~ rd_meta.last
       \/ w_cnt_q > 0
       \/ r_cnt_q = 0 /\ ~ meta_sel_q

Arbitrate ==
  /\ cur = <<>>
  /\ rd_valid \/ wr_valid
  /\ meta_sel_q' = meta_sel
  /\ cur' = <<IF meta_sel THEN wr_meta ELSE rd_meta>>
  /\ UNCHANGED <<interco, axi, bursts, meta_done, q_done, meta_buf, fwd>>

(* arb_ready: the burst moves on.                                          *)
ReadAccepted(beat) ==
  /\ rd_addr' = beat.addr
  /\ r_cnt_q' = IF r_cnt_q > 0 THEN r_cnt_q - 1 ELSE Head(ar).len
  /\ ar' = IF r_cnt_q > 0 THEN ar ELSE <<>>
  /\ UNCHANGED <<aw, w_valid, w_cnt_q, wr_addr>>

WriteAccepted(beat) ==
  /\ wr_addr' = beat.addr
  /\ w_cnt_q' = IF w_cnt_q > 0 THEN w_cnt_q - 1 ELSE Head(aw).len
  /\ aw' = IF w_cnt_q > 0 THEN aw ELSE <<>>
  /\ w_valid' = FALSE
  /\ UNCHANGED <<ar, r_cnt_q, rd_addr>>

Accepted ==
  /\ cur' = <<>> /\ meta_done' = FALSE /\ q_done' = FALSE
  /\ IF Head(cur).write THEN WriteAccepted(Head(cur)) ELSE ReadAccepted(Head(cur))

(* The beat enters the response buffers, if there is room.                 *)
BufferMeta ==
  /\ cur # <<>> /\ ~ meta_done
  /\ Len(meta_buf) < 1 + BufDepth
  /\ meta_buf' = Append(meta_buf, Head(cur))
  /\ IF q_done THEN Accepted
               ELSE meta_done' = TRUE /\ UNCHANGED <<cur, q_done, axi, bursts>>
  /\ UNCHANGED <<interco, meta_sel_q, fwd>>

(* One bank takes its word of the beat; with the last one the request is   *)
(* accepted and its tile remembered.                                       *)
TakeWord(b) ==
  /\ WidePresented # {}
  /\ LET w == WideRequest(Head(cur))
     IN  /\ WideTake(w, b)
         /\ IF LastTaken(w, b)
            THEN /\ fwd' = IF NumTiles > 1 THEN Append(fwd, w.tile) ELSE fwd
                 /\ IF meta_done THEN Accepted
                    ELSE q_done' = TRUE /\ UNCHANGED <<cur, meta_done, axi, bursts>>
            ELSE UNCHANGED <<fwd, cur, meta_done, q_done, axi, bursts>>
  /\ WideMux({})
  /\ UNCHANGED <<narrow, meta_sel_q, meta_buf>>

(* slv_rsp_o.p_valid: tile t answers for superbank d, and the              *)
(* demultiplexer looks at that tile.                                       *)
p_validAny(t, d) ==                  \* mutant: the demultiplexer takes any tile's answer
  d \in wide_sel[t]

p_valid(t, d) ==
  /\ d \in wide_sel[t]
  /\ NumTiles > 1 => fwd # <<>> /\ Head(fwd) = t

(* The answer joins the oldest buffered beat and leaves as an R beat, as a *)
(* B or, within a write burst, not at all.                                 *)
Deliver(t, d) ==
  /\ meta_buf # <<>> /\ p_valid(t, d)
  /\ WidePop(t, d) /\ WideMux({t})
  /\ meta_buf' = Tail(meta_buf)
  /\ fwd' = IF NumTiles > 1 THEN Tail(fwd) ELSE fwd
  /\ UNCHANGED <<narrow, taken, axi, bursts, meta_sel_q, cur, meta_done, q_done>>

-------------------------------------------------------------------------------
(* The cores.                                                              *)

NarrowSend(p) ==
  /\ narrow[p] = <<>>
  /\ \E a \in NarrowAddrs[p] :
       LET s == Scrambler!Scramble(a, TRUE)
       IN  narrow' = [narrow EXCEPT ![p] = <<[tile |-> Scrambler!TileId(s),
                        bank_id |-> Scrambler!BankId(s), row |-> Scrambler!RowId(s)]>>]
  /\ UNCHANGED <<bank, rot_fifo, taken, wide_sel, axi, bursts, meta_sel_q, cur, meta_done, q_done, meta_buf, fwd>>

NarrowAccept(p) ==
  /\ narrow[p] # <<>> /\ NarrowTake(p, WidePresented) /\ WideMux({})
  /\ UNCHANGED <<rot_fifo, taken, axi, bursts, meta_sel_q, cur, meta_done, q_done, meta_buf, fwd>>

NarrowAnswer(t, b) ==
  /\ NarrowRespond(t, b) /\ WideMux({})
  /\ UNCHANGED <<narrow, rot_fifo, taken, axi, bursts, meta_sel_q, cur, meta_done, q_done, meta_buf, fwd>>

AnyTake == \E b \in Banks : TakeWord(b)
AnyDeliver == \E t \in Tiles, d \in Superbanks : Deliver(t, d)

Next ==
  \/ SendAR \/ SendAW \/ SendW \/ Arbitrate \/ BufferMeta \/ AnyTake \/ AnyDeliver
  \/ \E p \in NarrowPorts : NarrowSend(p) \/ NarrowAccept(p)
  \/ \E t \in Tiles, b \in Banks : NarrowAnswer(t, b)

(* Handshakes that stay possible happen; the write data of a burst comes;  *)
(* the request crossbar is a round robin, so that a port the bank could    *)
(* serve again and again is served.                                        *)
Fairness ==
  /\ WF_vars(SendW) /\ WF_vars(Arbitrate) /\ WF_vars(BufferMeta)
  /\ WF_vars(AnyTake) /\ WF_vars(AnyDeliver)
  /\ \A p \in NarrowPorts : SF_vars(NarrowAccept(p))
  /\ \A t \in Tiles, b \in Banks : WF_vars(NarrowAnswer(t, b))

Spec == Init /\ [][Next]_vars /\ Fairness

-------------------------------------------------------------------------------
(* Cores and DMA see one memory: the bank and row that a word of a wide    *)
(* access is routed to are the ones that a core's access to the same       *)
(* address reaches, whatever remaps are on (the comment "stay coherent     *)
(* with the narrow path" of mempool_tcdm_bank_interco.sv).                 *)
WideCoherent ==
  \A t \in Tiles, b \in Banks : \A i \in DOMAIN bank[t, b] :
    LET e == bank[t, b][i]
    IN  e.wide => <<t, b, e.row>> = CoreLocation(e.id * NumBanksPerSB + e.word)

(* The answer that reaches the AXI side belongs to the oldest beat that is *)
(* waiting for one: every word of it is the word of that address, and so   *)
(* the rotation it is put together with was queued (the assertion          *)
(* "rotation FIFO drained while empty").                                   *)
WideInOrder ==
  \A t \in Tiles, d \in Superbanks :
    meta_buf # <<>> /\ p_valid(t, d) =>
      /\ rot_fifo[t, d] # <<>>
      /\ sb_wide_resp(t, d) =
           [j \in SBBanks |-> CoreLocation(Head(meta_buf).addr * NumBanksPerSB + j)]

(* The DMA never waits for ever: while it waits for an answer or for the   *)
(* banks to take a beat, answers keep arriving, although each one needs    *)
(* all banks of a superbank and the cores use them too.                    *)
WideServed ==
  []<>(cur = <<>> /\ meta_buf = <<>>) \/ []<><<AnyDeliver>>_vars

(* Reads are served although writes keep coming, unless those are single   *)
(* beats, which the arbiter prefers to a read burst.                       *)
ReadsServed ==
  []<>(aw # <<>> /\ Head(aw).len = 0) \/ []<>(ar = <<>>)

(* A core's access is taken unless the DMA keeps the banks for itself.     *)
NarrowServed ==
  \A p \in NarrowPorts : []<>(WidePresented # {}) \/ []<>(narrow[p] = <<>>)
===============================================================================
