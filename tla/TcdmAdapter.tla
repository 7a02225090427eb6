----------------------------- MODULE TcdmAdapter -----------------------------
(***************************************************************************)
(* hardware/src/tcdm_adapter.sv: the adapter in front of one L1 bank.  It  *)
(* turns a valid/ready request stream into accesses of a one-cycle SRAM,   *)
(* returns each requester's metadata with its data, executes atomics by    *)
(* holding the bank for a write-back cycle and keeps one LR/SC reservation *)
(* per bank.  One step of Next is one clock cycle.  LrScEnable is 1, as    *)
(* mempool_pkg sets it.                                                    *)
(***************************************************************************)
EXTENDS Integers, Sequences

CONSTANTS Word, Addr, Be,
          X,                    \* a word nobody may rely on (Verilog's X)
          Meta, Requests,       \* what the interconnect can present
          RegisterAmo,          \* parameter RegisterAmo of the module
          NumCoresPerTile, NumRemoteReqPortsPerTile,
          Alu(_, _, _),         \* amo_alu: Alu(op, old, operand)
          Merge(_, _, _)        \* SRAM byte-enable write: Merge(old, new, be)

AMOs == {"AMOSwap", "AMOAdd", "AMOAnd", "AMOOr", "AMOXor",
         "AMOMax", "AMOMaxu", "AMOMin", "AMOMinu"}

RequestType == [meta : Meta, addr : Addr, wdata : Word, be : Be, write : BOOLEAN,
                amo : AMOs \cup {"None", "LR", "SC"}]

ASSUME ConstantTypes ==
  /\ {0, 1} \subseteq Word /\ Addr # {}
  /\ X \notin Word \cup Addr
  /\ RegisterAmo \in BOOLEAN
  /\ Requests \subseteq RequestType
  /\ \A r \in Requests : r.write => r.amo = "None"  \* Snitch issues atomics as loads

ASSUME OperatorTypes ==
  /\ \A op \in AMOs, old \in Word \cup {X}, b \in Word : Alu(op, old, b) \in Word \cup {X}
  /\ \A old \in Word \cup {X}, new \in Word, be \in Be : Merge(old, new, be) \in Word \cup {X}

VARIABLES
  mem, rdata,        \* the SRAM: its words, and the word its read port shows
  state_q,           \* Idle, DoAMO or WriteBackAMO
  amo_q,             \* amo_op_q, addr_q and amo_operand_b_q
  amo_result_q,
  meta_q,            \* i_metadata_register: a spill register, at most two entries
  rdata_fifo,        \* i_rdata_fifo: fall-through, depth two
  out_gnt,           \* the bank answers a request this cycle
  sc_q, sc_successful_q,
  reservation_q,
  link               \* history: per hart, the address of its unbroken LR, or X

bankVars == <<mem, rdata, state_q, amo_q, amo_result_q>>
respVars == <<meta_q, rdata_fifo>>
scVars == <<sc_q, sc_successful_q, reservation_q>>
vars == <<bankVars, respVars, out_gnt, scVars, link>>

-------------------------------------------------------------------------------
(* Identities.                                                             *)

IdxWidth(n) == IF n > 1 THEN CHOOSE w \in 1..n : 2^w >= n /\ 2^(w-1) < n ELSE 1

LocalAddrWidth == IdxWidth(NumCoresPerTile)
IniAddrWidth == IdxWidth(NumCoresPerTile + NumRemoteReqPortsPerTile)

(* The key under which a reservation is kept: a concatenation of three     *)
(* fields.  ini_addr[IniAddrWidth-1 -: LocalAddrWidth] are the upper bits  *)
(* of the crossbar port, the part select of both branches its lower ones.  *)
UniqueCoreId(m) ==
  LET upper == (m.ini_addr \div 2^(IniAddrWidth - LocalAddrWidth)) % 2^LocalAddrWidth
      lower == m.ini_addr % 2^LocalAddrWidth
  IN  IF upper < NumCoresPerTile THEN <<0, m.tile_id, lower>>
                                 ELSE <<lower, m.tile_id, m.core_id>>

CoreIds == {<<0, 0, 0>>} \cup {UniqueCoreId(m) : m \in Meta}

(* Who really sent a request: the wide port is the DMA, the first ports of *)
(* the request crossbar are the tile's own cores, the others carry remote  *)
(* harts (mempool_tile.sv wires tile_id, core_id and group_id of those).   *)
Hart(m) == IF m.wide THEN <<"dma">>
           ELSE IF m.ini_addr < NumCoresPerTile THEN <<"local", m.ini_addr>>
           ELSE <<"remote", m.group_id, m.tile_id, m.core_id>>

Harts == {Hart(r.meta) : r \in Requests}

Data == Word \cup {X}

-------------------------------------------------------------------------------
(* Combinational signals.                                                  *)

rdata_full == Len(rdata_fifo) = 2
rdata_usage == Len(rdata_fifo) % 2 = 1      \* usage_o is the low bit of the count
rdata_readyUntilFull == ~ rdata_full        \* mutant: the line commented out above it

rdata_ready == ~ rdata_usage /\ ~ rdata_full

out_rdata == IF sc_q THEN (IF sc_successful_q THEN 0 ELSE 1) ELSE rdata

(* The data FIFO as its reader sees it: a push falls through; a push into  *)
(* a full FIFO is dropped.                                                 *)
fifoSeen == IF out_gnt /\ ~ rdata_full THEN Append(rdata_fifo, out_rdata) ELSE rdata_fifo

in_valid_oUnbuffered == meta_q # <<>> /\ out_gnt   \* mutant: no look at the stored answers

in_valid_o == meta_q # <<>> /\ fifoSeen # <<>>

-------------------------------------------------------------------------------
(* The response side of a cycle: push what the bank returned, pop when the *)
(* consumer takes the answer.  pushed is the metadata of a request taken   *)
(* in this cycle, or empty; the spill register drops a push when full.     *)
Respond(ready, pushed) ==
  LET pop == ready /\ in_valid_o
  IN  /\ rdata_fifo' = IF pop THEN Tail(fifoSeen) ELSE fifoSeen
      /\ meta_q' = (IF pop THEN Tail(meta_q) ELSE meta_q)
                     \o (IF Len(meta_q) < 2 THEN pushed ELSE <<>>)

IsAmo(r) == r.amo \in AMOs

(* gen_lrsc, for a request r that is taken.                                *)
ScSuccessStale(r) == /\ r.amo = "SC"        \* mutant: a broken reservation counts too
                     /\ reservation_q.core = UniqueCoreId(r.meta)
                     /\ reservation_q.addr = r.addr

ScSuccess(r) == /\ reservation_q.valid
                /\ r.amo = "SC"
                /\ reservation_q.core = UniqueCoreId(r.meta)
                /\ reservation_q.addr = r.addr

ClearsOnStoreOnly(r) ==                     \* mutant: atomics leave reservations alone
  \/ /\ UniqueCoreId(r.meta) # reservation_q.core
     /\ r.addr = reservation_q.addr
     /\ r.write
  \/ /\ reservation_q.valid
     /\ r.amo = "SC"
     /\ reservation_q.core = UniqueCoreId(r.meta)

Clears(r) ==
  \/ /\ UniqueCoreId(r.meta) # reservation_q.core
     /\ r.addr = reservation_q.addr
     /\ IsAmo(r) \/ r.write
  \/ /\ reservation_q.valid
     /\ r.amo = "SC"
     /\ reservation_q.core = UniqueCoreId(r.meta)

ReservesAlways(r) == r.amo = "LR"           \* mutant: the newest LR wins

Reserves(r) == /\ r.amo = "LR"
               /\ ~ reservation_q.valid \/ reservation_q.core = UniqueCoreId(r.meta)

ReservationAfter(r) ==
  IF Clears(r) THEN [reservation_q EXCEPT !.valid = FALSE]
  ELSE IF Reserves(r) THEN [valid |-> TRUE, addr |-> r.addr, core |-> UniqueCoreId(r.meta)]
  ELSE reservation_q

(* The request the bank sees: a store, a successful SC, otherwise a read.  *)
BankWrites(r) == r.write \/ ScSuccess(r)

SramAccess(addr, writes, value) ==
  /\ mem' = IF writes THEN [mem EXCEPT ![addr] = value] ELSE mem
  /\ rdata' = IF writes THEN X ELSE mem[addr]

(* The history of LR/SC pairs as the ISA sees it.                          *)
LinkAfter(r) ==
  LET w == Hart(r.meta)
      kept == [h \in Harts |-> IF h # w /\ link[h] = r.addr /\ (BankWrites(r) \/ IsAmo(r))
                               THEN X ELSE link[h]]
  IN  CASE r.amo = "LR" -> [kept EXCEPT ![w] = r.addr]
        [] r.amo = "SC" -> [kept EXCEPT ![w] = X]
        [] OTHER -> kept

-------------------------------------------------------------------------------
(* The registers of the write-back after reset.                            *)
AmoUnreset == [op |-> "None", addr |-> X, operand_b |-> 0]   \* mutant: no reset of addr_q

AmoReset == [op |-> "None", addr |-> CHOOSE a \in Addr : TRUE, operand_b |-> 0]

Init ==
  /\ mem = [a \in Addr |-> X]
  /\ rdata = X
  /\ state_q = "Idle"
  /\ amo_q = AmoReset
  /\ amo_result_q = 0
  /\ meta_q = <<>>
  /\ rdata_fifo = <<>>
  /\ out_gnt = FALSE
  /\ sc_q = FALSE
  /\ sc_successful_q = FALSE
  /\ reservation_q = [valid |-> FALSE, addr |-> CHOOSE a \in Addr : TRUE, core |-> <<0, 0, 0>>]
  /\ link = [h \in Harts |-> X]

(* A cycle in which request r is taken (in_valid_i && in_ready_o).         *)
Accept(r, ready) ==
  /\ state_q = "Idle"
  /\ rdata_ready
  /\ SramAccess(r.addr, BankWrites(r), Merge(mem[r.addr], r.wdata, r.be))
  /\ out_gnt' = TRUE
  /\ sc_q' = (r.amo = "SC")
  /\ sc_successful_q' = ScSuccess(r)
  /\ reservation_q' = ReservationAfter(r)
  /\ IF IsAmo(r)
       THEN /\ state_q' = "DoAMO"
            /\ amo_q' = [op |-> r.amo, addr |-> r.addr, operand_b |-> r.wdata]
       ELSE /\ state_q' = "Idle"
            /\ amo_q' = [amo_q EXCEPT !.op = "None"]
  /\ Respond(ready, <<r.meta>>)
  /\ link' = LinkAfter(r)
  /\ UNCHANGED amo_result_q

(* A cycle in which the bank gets no request.                              *)
NoRequest(ready) ==
  /\ state_q = "Idle"
  /\ out_gnt' = FALSE
  /\ sc_q' = FALSE
  /\ sc_successful_q' = FALSE
  /\ amo_q' = [amo_q EXCEPT !.op = "None"]
  /\ Respond(ready, <<>>)
  /\ UNCHANGED <<mem, rdata, state_q, amo_result_q, reservation_q, link>>

AmoNextState == IF RegisterAmo /\ state_q # "WriteBackAMO" THEN "WriteBackAMO" ELSE "Idle"

(* A cycle in which an atomic claims the bank and writes its result back.  *)
(* With RegisterAmo the first of the two cycles still writes the previous  *)
(* amo_result_q; the second one overwrites it.                             *)
CommitAmo(ready) ==
  /\ state_q \in {"DoAMO", "WriteBackAMO"}
  /\ LET result == Alu(amo_q.op, rdata, amo_q.operand_b)
     IN  /\ SramAccess(amo_q.addr, TRUE, IF RegisterAmo THEN amo_result_q ELSE result)
         /\ amo_result_q' = IF RegisterAmo /\ state_q = "DoAMO" THEN result ELSE amo_result_q
  /\ state_q' = AmoNextState
  /\ amo_q' = [amo_q EXCEPT !.op = "None"]
  /\ out_gnt' = FALSE
  /\ sc_q' = FALSE
  /\ sc_successful_q' = FALSE
  /\ Respond(ready, <<>>)
  /\ UNCHANGED <<reservation_q, link>>

(* One clock cycle; ready is in_ready_i.                                   *)
Cycle(ready) == \/ \E r \in Requests : Accept(r, ready)
                \/ NoRequest(ready)
                \/ CommitAmo(ready)

Next == \E ready \in BOOLEAN : Cycle(ready)

Spec == Init /\ [][Next]_vars

-------------------------------------------------------------------------------
(* Types of the registers.                                                 *)
TypeOK ==
  /\ mem \in [Addr -> Data]
  /\ rdata \in Data
  /\ state_q \in {"Idle", "DoAMO", "WriteBackAMO"}
  /\ amo_q \in [op : AMOs \cup {"None"}, addr : Addr, operand_b : Word]
  /\ amo_result_q \in Data
  /\ meta_q \in Seq(Meta)
  /\ rdata_fifo \in Seq(Data)
  /\ out_gnt \in BOOLEAN /\ sc_q \in BOOLEAN /\ sc_successful_q \in BOOLEAN
  /\ reservation_q \in [valid : BOOLEAN, addr : Addr, core : CoreIds]
  /\ link \in [Harts -> Addr \cup {X}]

(* assert_rdata_full, and its unasserted counterpart for the metadata      *)
(* register whose ready_o is left open (tcdm_adapter.sv:99): whatever the  *)
(* consumer does, neither buffer ever drops a push, and every taken        *)
(* request has exactly one answer stored or on its way.                    *)
AnswersPaired ==
  /\ out_gnt => ~ rdata_full
  /\ state_q = "Idle" /\ rdata_ready => Len(meta_q) < 2
  /\ Len(meta_q) = Len(rdata_fifo) + (IF out_gnt THEN 1 ELSE 0)

(* "An SC may succeed only if no store from another hart (or other device) *)
(* to the reservation set can be observed to have occurred between the LR  *)
(* and the SC" (tcdm_adapter.sv:210): the hart whose SC succeeds has read  *)
(* the word with LR, and nobody else has written it since.                 *)
StoreConditionalSound ==
  [][sc_successful_q' => link[Hart(meta_q'[Len(meta_q')])] = reservation_q.addr]_vars

(* Why it holds: while the bank keeps a reservation, every hart it would   *)
(* let through has an unbroken LR of that address.                         *)
ReservationSound ==
  \A r \in Requests :
    reservation_q.valid /\ reservation_q.core = UniqueCoreId(r.meta)
      => link[Hart(r.meta)] = reservation_q.addr

(* The bank never stops taking requests for good.                          *)
BankReadyAgain == []<>(state_q = "Idle" /\ rdata_ready)

-------------------------------------------------------------------------------
(* The adapter implements AtomicBank: an atomic whose write-back is still  *)
(* to come has already happened, and the answers are the metadata paired   *)
(* with the data stored or arriving from the bank in this cycle.           *)
CONSTANT AmoValue(_, _, _)

AbsMem == IF state_q = "Idle" THEN mem
          ELSE [mem EXCEPT ![amo_q.addr] =
                  IF state_q = "DoAMO" THEN Alu(amo_q.op, rdata, amo_q.operand_b)
                                       ELSE amo_result_q]

Answers == IF out_gnt THEN Append(rdata_fifo, out_rdata) ELSE rdata_fifo

AbsResp == [i \in 1..Len(meta_q) |->
              <<meta_q[i], IF i <= Len(Answers) THEN Answers[i] ELSE X>>]

AbsAtomic == IF state_q = "DoAMO" THEN <<amo_q.op, amo_q.addr, amo_q.operand_b>> ELSE <<>>

Bank == INSTANCE AtomicBank WITH mem <- AbsMem, resp <- AbsResp, atomic <- AbsAtomic

(* Every behaviour of the adapter is one of AtomicBank: loads, stores,     *)
(* atomics and LR/SC take effect indivisibly and in the order of           *)
(* acceptance, and each answer goes to its requester with its own data.    *)
ImplementsAtomicBank == Bank!Spec
===============================================================================
