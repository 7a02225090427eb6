------------------------------ MODULE BankInterco ------------------------------
(***************************************************************************)
(* hardware/src/mempool_tcdm_bank_interco.sv, one instance per tile: the   *)
(* crossbar of the narrow requests of the cores, and the wide requests of  *)
(* the DMA, which take one word of every bank of a superbank.  A bank is   *)
(* what TcdmAdapter promises: a server that answers in order and holds at  *)
(* most two requests.  One step is one handshake.                          *)
(***************************************************************************)
EXTENDS Integers, Sequences, FiniteSets

CONSTANTS NumTiles,           \* tiles behind one DMA
          NumSuperbanks, NumBanksPerSB, SpmBankIdRemap,
          NarrowPorts

NumBanksPerTile == NumSuperbanks * NumBanksPerSB
RotFifoDepth == 2
BankDepth == 2                \* i_metadata_register of tcdm_adapter.sv

Tiles == 0 .. NumTiles - 1
Superbanks == 0 .. NumSuperbanks - 1
SBBanks == 0 .. NumBanksPerSB - 1
Banks == 0 .. NumBanksPerTile - 1

VARIABLES
  narrow,     \* per crossbar port: the request presented, or none
  bank,       \* per tile and bank: the requests to answer, oldest first
  rot_fifo,   \* per tile and superbank: i_rot_fifo
  taken,      \* i_wide_fork: the banks that have the wide request presented
  wide_sel    \* per tile: the superbank i_wide_resp_mux is locked to, or none

interco == <<narrow, bank, rot_fifo, taken, wide_sel>>

IntercoInit ==
  /\ narrow = [p \in NarrowPorts |-> <<>>]
  /\ bank = [x \in Tiles \X Banks |-> <<>>]
  /\ rot_fifo = [x \in Tiles \X Superbanks |-> <<>>]
  /\ taken = {}
  /\ wide_sel = [t \in Tiles |-> {}]

(* The bank-id remap: only the part of the bank id within a superbank      *)
(* advances with the row.                                                  *)
RemapLo(bank_id, row) ==
  ((bank_id % NumBanksPerSB) + (IF SpmBankIdRemap THEN row ELSE 0)) % NumBanksPerSB

narrow_sel(bank_id, row) ==
  (bank_id \div NumBanksPerSB) * NumBanksPerSB + RemapLo(bank_id, row)

-------------------------------------------------------------------------------
(* A wide request w = [tile, bank_id, row, id] is aligned to a superbank.  *)

Superbank(w) == (w.bank_id \div NumBanksPerSB) % NumSuperbanks
Port(d, b) == d * NumBanksPerSB + b

req_rotRaw(w) == w.bank_id % NumBanksPerSB      \* mutant: the row left out

req_rot(w) == RemapLo(w.bank_id, w.row)

(* The word of the wide access that bank b of the superbank carries.       *)
WordOf(b, r) == (b + NumBanksPerSB - r) % NumBanksPerSB

rot_fifo_in_ready(w) == Len(rot_fifo[w.tile, Superbank(w)]) < RotFifoDepth

(* wide_fork_valid of bank b of tile t, when wide holds the wide request   *)
(* presented, if any.                                                      *)
wide_fork_valid(t, b, wide) ==
  \E w \in wide : /\ w.tile = t /\ b \div NumBanksPerSB = Superbank(w)
                  /\ rot_fifo_in_ready(w)
                  /\ b \notin taken

LastTaken(w, b) == taken \cup {b} = {Port(Superbank(w), i) : i \in SBBanks}

(* Bank b takes its word of w; the last one to do so accepts the request   *)
(* and queues its rotation.                                                *)
WideTake(w, b) ==
  /\ wide_fork_valid(w.tile, b, {w})
  /\ Len(bank[w.tile, b]) < BankDepth
  /\ bank' = [bank EXCEPT ![<<w.tile, b>>] = Append(@,
       [wide |-> TRUE, row |-> w.row, id |-> w.id,
        word |-> WordOf(b % NumBanksPerSB, req_rot(w))])]
  /\ taken' = IF LastTaken(w, b) THEN {} ELSE taken \cup {b}
  /\ rot_fifo' = IF LastTaken(w, b)
                 THEN [rot_fifo EXCEPT ![<<w.tile, Superbank(w)>>] = Append(@, req_rot(w))]
                 ELSE rot_fifo

(* i_wide_join: every bank of the superbank offers a wide answer.          *)
sb_wide_resp_valid(t, d) ==
  \A b \in SBBanks : /\ bank[t, Port(d, b)] # <<>>
                     /\ Head(bank[t, Port(d, b)]).wide

(* Word j of the answer: the row of the bank that carries it, as the       *)
(* rotation at the head of the FIFO has it.                                *)
sb_wide_resp(t, d) ==
  [j \in SBBanks |->
     LET b == CHOOSE i \in SBBanks : WordOf(i, Head(rot_fifo[t, d])) = j
     IN  <<t, Port(d, b), Head(bank[t, Port(d, b)]).row>>]

(* i_wide_resp_mux locks to a superbank that has an answer until it is     *)
(* taken; free are the tiles whose answer is being taken.                  *)
WideMux(free) ==
  wide_sel' \in [Tiles -> {{}} \cup {{d} : d \in Superbanks}]
  /\ \A t \in Tiles :
       LET answers == {d \in Superbanks : sb_wide_resp_valid(t, d)'}
       IN  IF wide_sel[t] # {} /\ t \notin free THEN wide_sel'[t] = wide_sel[t]
           ELSE /\ wide_sel'[t] \subseteq answers
                /\ wide_sel'[t] = {} => answers = {}

WidePop(t, d) ==
  /\ bank' = [x \in Tiles \X Banks |->
                IF x[1] = t /\ x[2] \div NumBanksPerSB = d THEN Tail(bank[x]) ELSE bank[x]]
  /\ rot_fifo' = [rot_fifo EXCEPT ![<<t, d>>] = Tail(@)]

-------------------------------------------------------------------------------
(* Narrow requests [tile, bank_id, row], held until a bank takes them.     *)

NarrowTakeFirst(p, wide) ==             \* mutant: narrow overrides wide
  LET n == Head(narrow[p])
      b == narrow_sel(n.bank_id, n.row)
  IN  /\ Len(bank[n.tile, b]) < BankDepth
      /\ bank' = [bank EXCEPT ![<<n.tile, b>>] = Append(@, [wide |-> FALSE, port |-> p])]
      /\ narrow' = [narrow EXCEPT ![p] = <<>>]

NarrowTake(p, wide) ==
  LET n == Head(narrow[p])
      b == narrow_sel(n.bank_id, n.row)
  IN  /\ ~ wide_fork_valid(n.tile, b, wide)
      /\ Len(bank[n.tile, b]) < BankDepth
      /\ bank' = [bank EXCEPT ![<<n.tile, b>>] = Append(@, [wide |-> FALSE, port |-> p])]
      /\ narrow' = [narrow EXCEPT ![p] = <<>>]

(* A narrow answer leaves through the response crossbar.                   *)
NarrowRespondJoined(t, b) ==     \* mutant: takes the ready of the wide join
  /\ bank[t, b] # <<>> /\ ~ Head(bank[t, b]).wide
  /\ \A i \in SBBanks : bank[t, Port(b \div NumBanksPerSB, i)] # <<>>
  /\ bank' = [bank EXCEPT ![<<t, b>>] = Tail(@)]

NarrowRespond(t, b) ==
  /\ bank[t, b] # <<>> /\ ~ Head(bank[t, b]).wide
  /\ bank' = [bank EXCEPT ![<<t, b>>] = Tail(@)]
===============================================================================
