-------------------------- MODULE TcdmAdapterProofs --------------------------
(***************************************************************************)
(* Proofs about TcdmAdapter for every memory, word size, set of requests   *)
(* and both settings of RegisterAmo.                                       *)
(***************************************************************************)
EXTENDS TcdmAdapter, SequenceTheorems, TLAPS

(* An atomic that is about to be committed is one, and only the registered *)
(* adapter has a second write-back cycle.                                  *)
AmoStaged ==
  /\ state_q = "DoAMO" => amo_q.op \in AMOs
  /\ state_q = "WriteBackAMO" => RegisterAmo

(* The inductive invariant behind TypeOK and AnswersPaired.                *)
IInv == /\ TypeOK
        /\ AmoStaged
        /\ Len(rdata_fifo) <= 2
        /\ AnswersPaired

-------------------------------------------------------------------------------
(* The arithmetic of a buffer with two places.                             *)
LEMMA RoomForOne == \A n \in Nat : n <= 2 /\ n # 2 => n + 1 <= 2
  OBVIOUS

(* The data FIFO as its reader sees it holds well-typed words, two at most *)
(* and one more than the register when the bank answers.                   *)
LEMMA FifoSeenType ==
  ASSUME IInv
  PROVE  /\ fifoSeen \in Seq(Data)
         /\ Len(fifoSeen) = Len(meta_q)
         /\ Len(fifoSeen) <= 2
  <1>1. out_rdata \in Data
    BY ConstantTypes DEF IInv, TypeOK, out_rdata, Data
  <1>2. CASE out_gnt
    <2>1. ~ rdata_full
      BY <1>2 DEF IInv, AnswersPaired
    <2>2. fifoSeen = Append(rdata_fifo, out_rdata)
      BY <1>2, <2>1 DEF fifoSeen
    <2>3. rdata_fifo \in Seq(Data)
      BY DEF IInv, TypeOK
    <2>4. Len(meta_q) = Len(rdata_fifo) + 1
      BY <1>2 DEF IInv, AnswersPaired
    <2>5. Len(rdata_fifo) \in Nat
      BY <2>3
    <2>6. Len(rdata_fifo) <= 2 /\ Len(rdata_fifo) # 2
      BY <2>1 DEF IInv, rdata_full
    <2>7. Len(rdata_fifo) + 1 <= 2
      BY <2>5, <2>6, RoomForOne
    <2>8. fifoSeen \in Seq(Data) /\ Len(fifoSeen) = Len(rdata_fifo) + 1
      BY <1>1, <2>2, <2>3
    <2> QED
      BY <2>4, <2>7, <2>8
  <1>3. CASE ~ out_gnt
    <2>1. fifoSeen = rdata_fifo
      BY <1>3 DEF fifoSeen
    <2>2. rdata_fifo \in Seq(Data) /\ Len(rdata_fifo) <= 2
      BY DEF IInv, TypeOK
    <2>3. Len(meta_q) = Len(rdata_fifo) + 0
      BY <1>3 DEF IInv, AnswersPaired
    <2> QED
      BY <2>1, <2>2, <2>3
  <1> QED
    BY <1>2, <1>3

(* What the response side of a cycle does to the two buffers: both lose    *)
(* the answer that leaves, and the metadata of a request that was taken is *)
(* added when there is room.                                               *)
LEMMA RespondEffect ==
  ASSUME IInv, NEW ready \in BOOLEAN, NEW pushed \in Seq(Meta), Respond(ready, pushed),
         Len(pushed) > 0 => Len(meta_q) < 2
  PROVE  /\ rdata_fifo' \in Seq(Data)
         /\ meta_q' \in Seq(Meta)
         /\ Len(rdata_fifo') <= Len(meta_q)
         /\ Len(meta_q') = Len(rdata_fifo') + Len(pushed)
  <1> DEFINE pop == ready /\ in_valid_o
             kept == IF pop THEN Tail(meta_q) ELSE meta_q
  <1>1. /\ fifoSeen \in Seq(Data) /\ Len(fifoSeen) = Len(meta_q) /\ Len(fifoSeen) <= 2
        /\ meta_q \in Seq(Meta)
    BY FifoSeenType DEF IInv, TypeOK
  <1>2. pop => fifoSeen # <<>> /\ meta_q # <<>>
    BY DEF in_valid_o
  <1>3. /\ rdata_fifo' = IF pop THEN Tail(fifoSeen) ELSE fifoSeen
        /\ meta_q' = kept \o (IF Len(meta_q) < 2 THEN pushed ELSE <<>>)
    BY DEF Respond
  <1>4. (IF Len(meta_q) < 2 THEN pushed ELSE <<>>) = pushed
    <2>1. CASE Len(meta_q) < 2
      BY <2>1
    <2>2. CASE ~ (Len(meta_q) < 2)
      <3>1. ~ (Len(pushed) > 0)
        BY <2>2
      <3>2. pushed = <<>>
        BY <3>1
      <3> QED
        BY <2>2, <3>2
    <2> QED
      BY <2>1, <2>2
  <1>5. /\ kept \in Seq(Meta) /\ rdata_fifo' \in Seq(Data)
        /\ Len(kept) = Len(rdata_fifo')
        /\ Len(rdata_fifo') <= Len(meta_q)
    <2> HIDE DEF pop
    <2>1. CASE pop
      BY <1>1, <1>2, <1>3, <2>1
    <2>2. CASE ~ pop
      BY <1>1, <1>3, <2>2
    <2> QED
      BY <2>1, <2>2
  <1> QED
    <2> HIDE DEF kept
    <2>1. meta_q' = kept \o pushed
      BY <1>3, <1>4
    <2> QED
      BY <1>5, <2>1

-------------------------------------------------------------------------------
(* The history of load-reserveds stays a function to addresses.            *)
LEMMA LinkType ==
  ASSUME TypeOK, NEW r \in Requests
  PROVE  LinkAfter(r) \in [Harts -> Addr \cup {X}]
  <1> DEFINE w == Hart(r.meta)
             kept == [h \in Harts |-> IF h # w /\ link[h] = r.addr /\ (BankWrites(r) \/ IsAmo(r))
                                      THEN X ELSE link[h]]
  <1>1. r.addr \in Addr
    BY ConstantTypes DEF RequestType
  <1>2. w \in Harts
    BY DEF Harts
  <1>3. kept \in [Harts -> Addr \cup {X}]
    BY DEF TypeOK
  <1>4. LinkAfter(r) = CASE r.amo = "LR" -> [kept EXCEPT ![w] = r.addr]
                         [] r.amo = "SC" -> [kept EXCEPT ![w] = X]
                         [] OTHER -> kept
    BY DEF LinkAfter
  <1> HIDE DEF kept, w
  <1> QED
    BY <1>1, <1>2, <1>3, <1>4

(* Reset establishes the invariant.                                        *)
LEMMA InitIInv == Init => IInv
  <1> SUFFICES ASSUME Init PROVE IInv
    OBVIOUS
  <1>1. (CHOOSE a \in Addr : TRUE) \in Addr
    BY ConstantTypes
  <1>2. mem \in [Addr -> Data] /\ rdata \in Data /\ link \in [Harts -> Addr \cup {X}]
    BY DEF Init, Data
  <1>3. amo_q \in [op : AMOs \cup {"None"}, addr : Addr, operand_b : Word] /\ amo_result_q \in Data
    BY <1>1, ConstantTypes DEF Init, AmoReset, Data
  <1>4. meta_q \in Seq(Meta) /\ rdata_fifo \in Seq(Data)
    BY DEF Init
  <1>5. reservation_q \in [valid : BOOLEAN, addr : Addr, core : CoreIds]
    BY <1>1 DEF Init, CoreIds
  <1>6. TypeOK
    BY <1>2, <1>3, <1>4, <1>5 DEF Init, TypeOK
  <1>7. Len(rdata_fifo) = 0 /\ Len(meta_q) = 0
    BY DEF Init
  <1>8. AnswersPaired
    BY <1>7 DEF Init, AnswersPaired, rdata_full
  <1> QED
    BY <1>6, <1>7, <1>8 DEF IInv, AmoStaged, Init

-------------------------------------------------------------------------------
(* When the adapter is ready, its data FIFO is empty and at most one       *)
(* answer is under way.                                                    *)
LEMMA ReadyMeansEmpty ==
  ASSUME IInv, rdata_ready
  PROVE  Len(rdata_fifo) = 0 /\ Len(meta_q) < 2
  <1>1. \A n \in Nat : n <= 2 /\ ~ (n % 2 = 1) /\ ~ (n = 2) => n = 0
    OBVIOUS
  <1>2. Len(rdata_fifo) \in Nat
    BY DEF IInv, TypeOK
  <1>3. Len(rdata_fifo) = 0
    BY <1>1, <1>2 DEF IInv, rdata_ready, rdata_usage, rdata_full
  <1> QED
    BY <1>3 DEF IInv, AnswersPaired

(* Taking a request preserves the invariant.                               *)
LEMMA AcceptIInv ==
  ASSUME IInv, NEW ready \in BOOLEAN, NEW r \in Requests, Accept(r, ready)
  PROVE  IInv'
  <1>1. /\ r.meta \in Meta /\ r.addr \in Addr /\ r.wdata \in Word /\ r.be \in Be
        /\ r.amo \in AMOs \cup {"None", "LR", "SC"}
    BY ConstantTypes DEF RequestType
  <1>2. Len(rdata_fifo) = 0 /\ Len(meta_q) < 2
    BY ReadyMeansEmpty DEF Accept
  <1>3. <<r.meta>> \in Seq(Meta) /\ Len(<<r.meta>>) = 1
    BY <1>1
  <1>4. /\ rdata_fifo' \in Seq(Data) /\ meta_q' \in Seq(Meta)
        /\ Len(rdata_fifo') <= Len(meta_q)
        /\ Len(meta_q') = Len(rdata_fifo') + 1
    BY <1>2, <1>3, RespondEffect DEF Accept
  <1>5. mem' \in [Addr -> Data] /\ rdata' \in Data
    <2>1. mem \in [Addr -> Data]
      BY DEF IInv, TypeOK
    <2>2. Merge(mem[r.addr], r.wdata, r.be) \in Data
      BY <1>1, <2>1, OperatorTypes DEF Data
    <2> QED
      BY <1>1, <2>1, <2>2 DEF Accept, SramAccess, Data
  <1>6. /\ amo_q' \in [op : AMOs \cup {"None"}, addr : Addr, operand_b : Word]
        /\ state_q' \in {"Idle", "DoAMO"}
        /\ state_q' = "DoAMO" => amo_q'.op \in AMOs
    <2>1. amo_q \in [op : AMOs \cup {"None"}, addr : Addr, operand_b : Word]
      BY DEF IInv, TypeOK
    <2> QED
      BY <1>1, <2>1 DEF Accept, IsAmo
  <1>7. reservation_q' \in [valid : BOOLEAN, addr : Addr, core : CoreIds]
    <2>1. UniqueCoreId(r.meta) \in CoreIds
      BY <1>1 DEF CoreIds
    <2>2. reservation_q \in [valid : BOOLEAN, addr : Addr, core : CoreIds]
      BY DEF IInv, TypeOK
    <2> QED
      BY <1>1, <2>1, <2>2 DEF Accept, ReservationAfter
  <1>8. link' \in [Harts -> Addr \cup {X}]
    BY LinkType DEF Accept, IInv
  <1>9. out_gnt' = TRUE /\ sc_q' \in BOOLEAN /\ sc_successful_q' \in BOOLEAN
    BY DEF Accept, ScSuccess
  <1>10. amo_result_q' \in Data
    BY DEF Accept, IInv, TypeOK
  <1>11. TypeOK'
    BY <1>4, <1>5, <1>6, <1>7, <1>8, <1>9, <1>10 DEF TypeOK, Data, Harts, CoreIds
  <1>12. AmoStaged'
    BY <1>6 DEF AmoStaged
  <1>13. \A n, k \in Nat : k < 2 /\ n <= k => n <= 2 /\ ~ (n = 2)
    OBVIOUS
  <1>14. Len(rdata_fifo') \in Nat /\ Len(meta_q) \in Nat
    BY <1>4 DEF IInv, TypeOK
  <1>15. Len(rdata_fifo') <= 2 /\ ~ rdata_full'
    BY <1>2, <1>4, <1>13, <1>14 DEF rdata_full
  <1>16. rdata_ready' => Len(meta_q') < 2
    <2>1. \A n \in Nat : n <= 2 /\ ~ (n % 2 = 1) /\ ~ (n = 2) => n + 1 < 2
      OBVIOUS
    <2> QED
      BY <1>4, <1>14, <1>15, <2>1 DEF rdata_ready, rdata_usage, rdata_full
  <1>17. AnswersPaired'
    BY <1>4, <1>9, <1>15, <1>16 DEF AnswersPaired
  <1> QED
    BY <1>11, <1>12, <1>15, <1>17 DEF IInv

(* A cycle without a new request only drains the buffers.                  *)
LEMMA DrainPaired ==
  ASSUME IInv, NEW ready \in BOOLEAN, Respond(ready, <<>>), out_gnt' = FALSE
  PROVE  /\ rdata_fifo' \in Seq(Data) /\ meta_q' \in Seq(Meta)
         /\ Len(rdata_fifo') <= 2
         /\ AnswersPaired'
  <1>1. <<>> \in Seq(Meta) /\ Len(<<>>) = 0 /\ ~ (Len(<<>>) > 0)
    OBVIOUS
  <1>2. /\ rdata_fifo' \in Seq(Data) /\ meta_q' \in Seq(Meta)
        /\ Len(rdata_fifo') <= Len(meta_q)
        /\ Len(meta_q') = Len(rdata_fifo') + 0
    BY <1>1, RespondEffect
  <1>3. Len(rdata_fifo') \in Nat /\ Len(meta_q) \in Nat /\ Len(meta_q) <= 2
    BY <1>2, FifoSeenType DEF IInv, TypeOK
  <1>4. Len(rdata_fifo') <= 2
    <2>1. \A n, k \in Nat : k <= 2 /\ n <= k => n <= 2
      OBVIOUS
    <2> QED
      BY <1>2, <1>3, <2>1
  <1>5. rdata_ready' => Len(meta_q') < 2
    <2>1. \A n \in Nat : n <= 2 /\ ~ (n = 2) => n + 0 < 2
      OBVIOUS
    <2> QED
      BY <1>2, <1>3, <1>4, <2>1 DEF rdata_ready, rdata_full
  <1> QED
    BY <1>2, <1>4, <1>5 DEF AnswersPaired

(* A cycle without a request preserves the invariant.                      *)
LEMMA NoRequestIInv ==
  ASSUME IInv, NEW ready \in BOOLEAN, NoRequest(ready)
  PROVE  IInv'
  <1>1. /\ rdata_fifo' \in Seq(Data) /\ meta_q' \in Seq(Meta)
        /\ Len(rdata_fifo') <= 2 /\ AnswersPaired'
    BY DrainPaired DEF NoRequest
  <1>2. amo_q' \in [op : AMOs \cup {"None"}, addr : Addr, operand_b : Word]
    BY DEF NoRequest, IInv, TypeOK
  <1>3. UNCHANGED <<mem, rdata, amo_result_q, reservation_q, link>> /\ state_q' = "Idle"
    BY DEF NoRequest
  <1>4. out_gnt' = FALSE /\ sc_q' = FALSE /\ sc_successful_q' = FALSE
    BY DEF NoRequest
  <1>5. TypeOK'
    BY <1>1, <1>2, <1>3, <1>4 DEF IInv, TypeOK, Data, Harts, CoreIds
  <1> QED
    BY <1>1, <1>3, <1>5 DEF IInv, AmoStaged

(* A write-back cycle preserves the invariant: the value it writes is a    *)
(* word because the operation it commits is an atomic.                     *)
LEMMA CommitAmoIInv ==
  ASSUME IInv, NEW ready \in BOOLEAN, CommitAmo(ready)
  PROVE  IInv'
  <1> DEFINE result == Alu(amo_q.op, rdata, amo_q.operand_b)
             written == IF RegisterAmo THEN amo_result_q ELSE result
  <1>1. /\ rdata_fifo' \in Seq(Data) /\ meta_q' \in Seq(Meta)
        /\ Len(rdata_fifo') <= 2 /\ AnswersPaired'
    BY DrainPaired DEF CommitAmo
  <1>2. amo_q \in [op : AMOs \cup {"None"}, addr : Addr, operand_b : Word]
    BY DEF IInv, TypeOK
  <1>3. amo_q' \in [op : AMOs \cup {"None"}, addr : Addr, operand_b : Word]
    BY <1>2 DEF CommitAmo
  <1>4. state_q = "DoAMO" => result \in Data
    BY <1>2, OperatorTypes DEF IInv, TypeOK, AmoStaged, Data
  <1>5. written \in Data
    BY <1>4 DEF CommitAmo, IInv, TypeOK, AmoStaged
  <1>6. amo_result_q' \in Data
    BY <1>4 DEF CommitAmo, IInv, TypeOK
  <1>7. mem' \in [Addr -> Data] /\ rdata' \in Data
    <2>1. mem' = [mem EXCEPT ![amo_q.addr] = written] /\ rdata' = X
      BY DEF CommitAmo, SramAccess
    <2> HIDE DEF written
    <2>2. mem \in [Addr -> Data] /\ amo_q.addr \in Addr
      BY <1>2 DEF IInv, TypeOK
    <2> QED
      BY <1>5, <2>1, <2>2 DEF Data
  <1>8. state_q' \in {"Idle", "WriteBackAMO"} /\ (state_q' = "WriteBackAMO" => RegisterAmo)
    BY DEF CommitAmo, AmoNextState
  <1>9. /\ out_gnt' = FALSE /\ sc_q' = FALSE /\ sc_successful_q' = FALSE
        /\ UNCHANGED <<reservation_q, link>>
    BY DEF CommitAmo
  <1>10. TypeOK'
    BY <1>1, <1>3, <1>6, <1>7, <1>8, <1>9 DEF IInv, TypeOK, Data, Harts, CoreIds
  <1> QED
    BY <1>1, <1>8, <1>10 DEF IInv, AmoStaged

(* A stuttering step changes nothing the invariant reads.                  *)
LEMMA StutterIInv ==
  ASSUME IInv, UNCHANGED vars
  PROVE  IInv'
  BY DEF vars, bankVars, respVars, scVars, IInv, TypeOK, AmoStaged, AnswersPaired,
         rdata_full, rdata_ready, rdata_usage, Data, Harts, CoreIds

-------------------------------------------------------------------------------
(* Every reachable state satisfies the inductive invariant.                *)
THEOREM Invariance == Spec => []IInv
  <1>1. Init => IInv
    BY InitIInv
  <1>2. IInv /\ [Next]_vars => IInv'
    <2> SUFFICES ASSUME IInv, [Next]_vars PROVE IInv'
      OBVIOUS
    <2>1. CASE Next
      <3>1. PICK ready \in BOOLEAN : Cycle(ready)
        BY <2>1 DEF Next
      <3>2. CASE \E r \in Requests : Accept(r, ready)
        BY <3>2, AcceptIInv
      <3>3. CASE NoRequest(ready)
        BY <3>3, NoRequestIInv
      <3>4. CASE CommitAmo(ready)
        BY <3>4, CommitAmoIInv
      <3> QED
        BY <3>1, <3>2, <3>3, <3>4 DEF Cycle
    <2>2. CASE UNCHANGED vars
      BY <2>2, StutterIInv
    <2> QED
      BY <2>1, <2>2
  <1> QED
    BY <1>1, <1>2, PTL DEF Spec

(* The registers of the adapter keep their types: in particular an atomic  *)
(* never commits anything but a word computed by the ALU.                  *)
THEOREM TypeCorrect == Spec => []TypeOK
  <1>1. IInv => TypeOK
    BY DEF IInv
  <1> QED
    BY <1>1, Invariance, PTL

(* Whatever the consumer of the answers does, the data FIFO is never       *)
(* pushed when full (assert_rdata_full), the metadata register, whose      *)
(* ready_o nobody looks at, always has room, and metadata and data stay    *)
(* paired one to one.                                                      *)
THEOREM NoAnswerLost == Spec => []AnswersPaired
  <1>1. IInv => AnswersPaired
    BY DEF IInv
  <1> QED
    BY <1>1, Invariance, PTL
-------------------------------------------------------------------------------
(* LR/SC.  The adapter names harts by UniqueCoreId; its promise can only   *)
(* hold when that name is what the comment at tcdm_adapter.sv:155 calls    *)
(* it, unique.                                                             *)
UniqueIds == \A r1, r2 \in Requests :
               UniqueCoreId(r1.meta) = UniqueCoreId(r2.meta) <=> Hart(r1.meta) = Hart(r2.meta)

(* The history variable after request r, at the hart behind request s.     *)
LEMMA LinkAt ==
  ASSUME TypeOK, NEW r \in Requests, NEW s \in Requests
  PROVE  LinkAfter(r)[Hart(s.meta)] =
           IF Hart(s.meta) = Hart(r.meta)
           THEN CASE r.amo = "LR" -> r.addr [] r.amo = "SC" -> X [] OTHER -> link[Hart(s.meta)]
           ELSE IF link[Hart(s.meta)] = r.addr /\ (BankWrites(r) \/ IsAmo(r))
                THEN X ELSE link[Hart(s.meta)]
  <1> DEFINE w == Hart(r.meta)
             h0 == Hart(s.meta)
             kept == [h \in Harts |-> IF h # w /\ link[h] = r.addr /\ (BankWrites(r) \/ IsAmo(r))
                                      THEN X ELSE link[h]]
  <1>1. w \in Harts /\ h0 \in Harts
    BY DEF Harts
  <1>2. LinkAfter(r) = CASE r.amo = "LR" -> [kept EXCEPT ![w] = r.addr]
                         [] r.amo = "SC" -> [kept EXCEPT ![w] = X]
                         [] OTHER -> kept
    BY DEF LinkAfter
  <1>3. kept[h0] = IF h0 # w /\ link[h0] = r.addr /\ (BankWrites(r) \/ IsAmo(r))
                   THEN X ELSE link[h0]
    BY <1>1
  <1>4. DOMAIN kept = Harts
    OBVIOUS
  <1> HIDE DEF w, h0, kept
  <1>5. /\ r.amo = "LR" => LinkAfter(r)[h0] = IF h0 = w THEN r.addr ELSE kept[h0]
        /\ r.amo = "SC" => LinkAfter(r)[h0] = IF h0 = w THEN X ELSE kept[h0]
        /\ r.amo \notin {"LR", "SC"} => LinkAfter(r)[h0] = kept[h0]
    BY <1>1, <1>2, <1>4
  <1>6. LinkAfter(r)[h0] =
           IF h0 = w
           THEN CASE r.amo = "LR" -> r.addr [] r.amo = "SC" -> X [] OTHER -> link[h0]
           ELSE IF link[h0] = r.addr /\ (BankWrites(r) \/ IsAmo(r)) THEN X ELSE link[h0]
    BY <1>3, <1>5
  <1> QED
    BY <1>6 DEF w, h0

(* A request that is taken never leaves a reservation for a hart whose     *)
(* load-reserved somebody else has overwritten.                            *)
LEMMA AcceptReservation ==
  ASSUME UniqueIds, IInv, ReservationSound,
         NEW ready \in BOOLEAN, NEW r \in Requests, Accept(r, ready)
  PROVE  ReservationSound'
  <1> SUFFICES ASSUME NEW s \in Requests,
                      reservation_q'.valid, reservation_q'.core = UniqueCoreId(s.meta)
               PROVE  link'[Hart(s.meta)] = reservation_q'.addr
    BY DEF ReservationSound
  <1>1. reservation_q' = ReservationAfter(r) /\ link' = LinkAfter(r)
    BY DEF Accept
  <1>2. reservation_q \in [valid : BOOLEAN, addr : Addr, core : CoreIds]
    BY DEF IInv, TypeOK
  <1>3. ~ Clears(r)
    <2>1. Clears(r) => reservation_q'.valid = FALSE
      BY <1>1, <1>2 DEF ReservationAfter
    <2> QED
      BY <2>1
  <1>4. CASE Reserves(r)
    <2>1. reservation_q' = [valid |-> TRUE, addr |-> r.addr, core |-> UniqueCoreId(r.meta)]
      BY <1>1, <1>3, <1>4 DEF ReservationAfter
    <2>2. Hart(s.meta) = Hart(r.meta)
      BY <2>1 DEF UniqueIds
    <2>3. r.amo = "LR"
      BY <1>4 DEF Reserves
    <2>4. link'[Hart(s.meta)] = r.addr
      BY <1>1, <2>2, <2>3, LinkAt DEF IInv
    <2> QED
      BY <2>1, <2>4
  <1>5. CASE ~ Reserves(r)
    <2>1. reservation_q' = reservation_q
      BY <1>1, <1>3, <1>5 DEF ReservationAfter
    <2>2. /\ reservation_q.valid
          /\ reservation_q.core = UniqueCoreId(s.meta)
          /\ link[Hart(s.meta)] = reservation_q.addr
      BY <2>1 DEF ReservationSound
    <2>3. CASE Hart(s.meta) = Hart(r.meta)
      <3>1. UniqueCoreId(r.meta) = reservation_q.core
        BY <2>2, <2>3 DEF UniqueIds
      <3>2. r.amo \notin {"LR", "SC"}
        BY <1>3, <1>5, <2>2, <3>1 DEF Clears, Reserves
      <3> QED
        BY <1>1, <2>1, <2>2, <2>3, <3>2, LinkAt DEF IInv
    <2>4. CASE Hart(s.meta) # Hart(r.meta)
      <3>1. UniqueCoreId(r.meta) # reservation_q.core
        BY <2>2, <2>4 DEF UniqueIds
      <3>2. r.addr = reservation_q.addr => ~ (IsAmo(r) \/ r.write)
        BY <1>3, <3>1 DEF Clears
      <3>3. ~ ScSuccess(r)
        BY <3>1 DEF ScSuccess
      <3>4. ~ (link[Hart(s.meta)] = r.addr /\ (BankWrites(r) \/ IsAmo(r)))
        BY <2>2, <3>2, <3>3 DEF BankWrites
      <3> QED
        BY <1>1, <2>1, <2>2, <2>4, <3>4, LinkAt DEF IInv
    <2> QED
      BY <2>3, <2>4
  <1> QED
    BY <1>4, <1>5
(* Every step of the adapter preserves ReservationSound.                   *)
LEMMA StepReservation ==
  ASSUME UniqueIds, IInv, ReservationSound, [Next]_vars
  PROVE  ReservationSound'
  <1>1. CASE Next
    <2>1. PICK ready \in BOOLEAN : Cycle(ready)
      BY <1>1 DEF Next
    <2>2. CASE \E r \in Requests : Accept(r, ready)
      BY <2>2, AcceptReservation
    <2>3. CASE NoRequest(ready) \/ CommitAmo(ready)
      <3>1. UNCHANGED <<reservation_q, link>>
        BY <2>3 DEF NoRequest, CommitAmo
      <3> QED
        BY <3>1 DEF ReservationSound
    <2> QED
      BY <2>1, <2>2, <2>3 DEF Cycle
  <1>2. CASE UNCHANGED vars
    <2>1. UNCHANGED <<reservation_q, link>>
      BY <1>2 DEF vars, scVars
    <2> QED
      BY <2>1 DEF ReservationSound
  <1> QED
    BY <1>1, <1>2

(* When UniqueCoreId tells the harts apart, the bank's reservation always  *)
(* belongs to harts with an unbroken load-reserved of the word.            *)
THEOREM ReservationsSound == UniqueIds => (Spec => []ReservationSound)
  <1> SUFFICES ASSUME UniqueIds PROVE Spec => []ReservationSound
    OBVIOUS
  <1>1. Init => ReservationSound
    BY DEF Init, ReservationSound
  <1>2. IInv /\ ReservationSound /\ [Next]_vars => ReservationSound'
    BY StepReservation
  <1> QED
    BY <1>1, <1>2, Invariance, PTL DEF Spec

(* The requester whose metadata a taken request appends.                   *)
LEMMA AcceptedIsLast ==
  ASSUME IInv, NEW ready \in BOOLEAN, NEW r \in Requests, Accept(r, ready)
  PROVE  meta_q'[Len(meta_q')] = r.meta
  <1> DEFINE kept == IF ready /\ in_valid_o THEN Tail(meta_q) ELSE meta_q
  <1>1. Len(meta_q) < 2
    BY ReadyMeansEmpty DEF Accept
  <1>2. meta_q' = kept \o <<r.meta>>
    BY <1>1 DEF Accept, Respond
  <1>3. meta_q \in Seq(Meta) /\ (in_valid_o => meta_q # <<>>)
    BY DEF IInv, TypeOK, in_valid_o
  <1>4. kept \in Seq(Meta)
    BY <1>3
  <1> HIDE DEF kept
  <1> QED
    BY <1>2, <1>4

(* Under the same condition a store-conditional succeeds only for a hart   *)
(* whose load-reserved of that word nobody has broken since.               *)
THEOREM StoreConditionalsSound == UniqueIds => (Spec => StoreConditionalSound)
  <1> SUFFICES ASSUME UniqueIds PROVE Spec => StoreConditionalSound
    OBVIOUS
  <1>1. IInv /\ ReservationSound /\ [Next]_vars =>
          [sc_successful_q' => link[Hart(meta_q'[Len(meta_q')])] = reservation_q.addr]_vars
    <2> SUFFICES ASSUME IInv, ReservationSound, Next, sc_successful_q'
                 PROVE  link[Hart(meta_q'[Len(meta_q')])] = reservation_q.addr
      OBVIOUS
    <2>1. PICK ready \in BOOLEAN : Cycle(ready)
      BY DEF Next
    <2>2. ~ NoRequest(ready) /\ ~ CommitAmo(ready)
      BY DEF NoRequest, CommitAmo
    <2>3. PICK r \in Requests : Accept(r, ready)
      BY <2>1, <2>2 DEF Cycle
    <2>4. reservation_q.valid /\ reservation_q.core = UniqueCoreId(r.meta)
      BY <2>3 DEF Accept, ScSuccess
    <2>5. meta_q'[Len(meta_q')] = r.meta
      BY <2>3, AcceptedIsLast
    <2> QED
      BY <2>4, <2>5 DEF ReservationSound
  <1> QED
    BY <1>1, Invariance, ReservationsSound, PTL DEF Spec, StoreConditionalSound
-------------------------------------------------------------------------------
(* The refinement.  Answers as pairs of metadata and data.                 *)
Pairs(m, f) == [i \in 1 .. Len(m) |-> <<m[i], f[i]>>]

(* Removing the head of a sequence shifts the others down by one.          *)
LEMMA TailIsShift ==
  ASSUME NEW S, NEW s \in Seq(S), s # <<>>
  PROVE  Tail(s) = [i \in 1 .. Len(s) - 1 |-> s[i + 1]]
  <1> DEFINE t == [i \in 1 .. Len(s) - 1 |-> s[i + 1]]
  <1>1. Len(s) \in Nat /\ Len(s) - 1 \in Nat
    OBVIOUS
  <1>2. t \in Seq(S) /\ Len(t) = Len(s) - 1
    BY <1>1
  <1>3. Tail(s) \in Seq(S) /\ Len(Tail(s)) = Len(s) - 1
    OBVIOUS
  <1>4. \A i \in 1 .. Len(s) - 1 : Tail(s)[i] = t[i]
    OBVIOUS
  <1> QED
    BY <1>2, <1>3, <1>4, SeqEqual

(* The pairs of two shortened queues are the shortened queue of pairs.     *)
LEMMA PairsTail ==
  ASSUME NEW m \in Seq(Meta), NEW f \in Seq(Data), Len(m) = Len(f), m # <<>>
  PROVE  Pairs(m, f) # <<>> /\ Tail(Pairs(m, f)) = Pairs(Tail(m), Tail(f))
  <1>1. Len(m) \in Nat /\ Len(m) # 0 /\ f # <<>>
    OBVIOUS
  <1>2. Pairs(m, f) \in Seq(Meta \X Data) /\ Len(Pairs(m, f)) = Len(m)
    BY DEF Pairs
  <1>3. Pairs(m, f) # <<>>
    BY <1>1, <1>2
  <1>4. Tail(m) \in Seq(Meta) /\ Len(Tail(m)) = Len(m) - 1
    BY <1>1
  <1>5. Pairs(Tail(m), Tail(f)) = [i \in 1 .. Len(m) - 1 |-> <<Tail(m)[i], Tail(f)[i]>>]
    BY <1>4 DEF Pairs
  <1>6. Tail(Pairs(m, f)) = [i \in 1 .. Len(m) - 1 |-> Pairs(m, f)[i + 1]]
    BY <1>2, <1>3, TailIsShift
  <1>7. \A i \in 1 .. Len(m) - 1 : /\ i + 1 \in 1 .. Len(m)
                                   /\ Tail(m)[i] = m[i + 1]
                                   /\ Tail(f)[i] = f[i + 1]
    BY <1>1
  <1>8. \A i \in 1 .. Len(m) - 1 : Pairs(m, f)[i + 1] = <<Tail(m)[i], Tail(f)[i]>>
    BY <1>7 DEF Pairs
  <1>9. Tail(Pairs(m, f)) = Pairs(Tail(m), Tail(f))
    BY <1>5, <1>6, <1>8
  <1> QED
    BY <1>3, <1>9

(* A request and its answer pushed together are one more pair.             *)
LEMMA PairsAppend ==
  ASSUME NEW m \in Seq(Meta), NEW f \in Seq(Data), Len(m) = Len(f), NEW a \in Meta, NEW d \in Data
  PROVE  Pairs(m \o <<a>>, Append(f, d)) = Append(Pairs(m, f), <<a, d>>)
  <1>1. Len(m) \in Nat
    OBVIOUS
  <1>2. Pairs(m, f) \in Seq(Meta \X Data) /\ Len(Pairs(m, f)) = Len(m)
    BY DEF Pairs
  <1>3. m \o <<a>> \in Seq(Meta) /\ Len(m \o <<a>>) = Len(m) + 1
    OBVIOUS
  <1>4. Pairs(m \o <<a>>, Append(f, d)) =
          [i \in 1 .. Len(m) + 1 |-> <<(m \o <<a>>)[i], Append(f, d)[i]>>]
    BY <1>3 DEF Pairs
  <1>5. Append(Pairs(m, f), <<a, d>>) =
          [i \in 1 .. Len(m) + 1 |-> IF i = Len(m) + 1 THEN <<a, d>> ELSE Pairs(m, f)[i]]
    BY <1>2
  <1>6. \A i \in 1 .. Len(m) + 1 :
          <<(m \o <<a>>)[i], Append(f, d)[i]>> = IF i = Len(m) + 1 THEN <<a, d>> ELSE Pairs(m, f)[i]
    <2> SUFFICES ASSUME NEW i \in 1 .. Len(m) + 1
                 PROVE  <<(m \o <<a>>)[i], Append(f, d)[i]>>
                          = IF i = Len(m) + 1 THEN <<a, d>> ELSE Pairs(m, f)[i]
      OBVIOUS
    <2>1. CASE i = Len(m) + 1
      BY <1>1, <2>1
    <2>2. CASE i # Len(m) + 1
      <3>1. i \in 1 .. Len(m)
        BY <1>1, <2>2
      <3>2. Pairs(m, f)[i] = <<m[i], f[i]>>
        BY <3>1 DEF Pairs
      <3>3. (m \o <<a>>)[i] = m[i] /\ Append(f, d)[i] = f[i]
        BY <1>1, <3>1
      <3> QED
        BY <2>2, <3>2, <3>3
    <2> QED
      BY <2>1, <2>2
  <1> QED
    BY <1>4, <1>5, <1>6
(* In a reachable state the abstract answers are the metadata paired with  *)
(* the data FIFO as its reader sees it.                                    *)
LEMMA AbsRespIsPairs == IInv => AbsResp = Pairs(meta_q, fifoSeen)
  <1> SUFFICES ASSUME IInv PROVE AbsResp = Pairs(meta_q, fifoSeen)
    OBVIOUS
  <1>1. Answers = fifoSeen
    BY DEF IInv, AnswersPaired, Answers, fifoSeen
  <1>2. Len(Answers) = Len(meta_q)
    BY <1>1, FifoSeenType
  <1>3. meta_q \in Seq(Meta)
    BY DEF IInv, TypeOK
  <1>4. \A i \in 1 .. Len(meta_q) : i <= Len(Answers)
    BY <1>2, <1>3
  <1> QED
    BY <1>1, <1>4 DEF AbsResp, Pairs

(* What is left of the answers once the oldest one may have gone.          *)
Left(ready, q) == IF ready /\ in_valid_o THEN Tail(q) ELSE q

(* What the consumer leaves behind is what AtomicBank allows to remain.    *)
LEMMA LeftIsRemaining ==
  ASSUME IInv, NEW ready \in BOOLEAN
  PROVE  /\ Left(ready, meta_q) \in Seq(Meta)
         /\ Left(ready, fifoSeen) \in Seq(Data)
         /\ Len(Left(ready, meta_q)) = Len(Left(ready, fifoSeen))
         /\ Pairs(Left(ready, meta_q), Left(ready, fifoSeen)) \in Bank!Remaining
  <1>1. /\ fifoSeen \in Seq(Data) /\ meta_q \in Seq(Meta)
        /\ Len(fifoSeen) = Len(meta_q)
    BY FifoSeenType DEF IInv, TypeOK
  <1>2. AbsResp = Pairs(meta_q, fifoSeen)
    BY AbsRespIsPairs
  <1>3. CASE ready /\ in_valid_o
    <2>1. /\ Left(ready, meta_q) = Tail(meta_q) /\ Left(ready, fifoSeen) = Tail(fifoSeen)
          /\ meta_q # <<>> /\ fifoSeen # <<>>
      BY <1>3 DEF Left, in_valid_o
    <2>2. AbsResp # <<>> /\ Tail(AbsResp) = Pairs(Tail(meta_q), Tail(fifoSeen))
      BY <1>1, <1>2, <2>1, PairsTail
    <2>3. Tail(AbsResp) \in Bank!Remaining
      BY <2>2 DEF Bank!Remaining
    <2>4. /\ Tail(meta_q) \in Seq(Meta) /\ Tail(fifoSeen) \in Seq(Data)
          /\ Len(Tail(meta_q)) = Len(meta_q) - 1 /\ Len(Tail(fifoSeen)) = Len(fifoSeen) - 1
      BY <1>1, <2>1
    <2> QED
      BY <1>1, <2>1, <2>2, <2>3, <2>4
  <1>4. CASE ~ (ready /\ in_valid_o)
    <2>1. Left(ready, meta_q) = meta_q /\ Left(ready, fifoSeen) = fifoSeen
      BY <1>4 DEF Left
    <2> QED
      BY <1>1, <1>2, <2>1 DEF Bank!Remaining
  <1> QED
    BY <1>3, <1>4

(* A cycle without a request changes the abstract answers only by letting  *)
(* the oldest one go.                                                      *)
LEMMA DrainRefines ==
  ASSUME IInv, IInv', NEW ready \in BOOLEAN, Respond(ready, <<>>), out_gnt' = FALSE,
         UNCHANGED link, AbsMem' = AbsMem, AbsAtomic' = <<>>
  PROVE  Bank!Next
  <1> DEFINE rest == Pairs(Left(ready, meta_q), Left(ready, fifoSeen))
  <1>1. Left(ready, meta_q) \in Seq(Meta) /\ rest \in Bank!Remaining
    BY LeftIsRemaining
  <1>2. rdata_fifo' = Left(ready, fifoSeen) /\ meta_q' = Left(ready, meta_q) \o <<>>
    BY DEF Respond, Left
  <1>3. meta_q' = Left(ready, meta_q)
    BY <1>1, <1>2
  <1>4. fifoSeen' = rdata_fifo'
    BY DEF fifoSeen
  <1>5. (AbsResp = Pairs(meta_q, fifoSeen))'
    BY AbsRespIsPairs, PTL
  <1>6. AbsResp' = rest
    BY <1>2, <1>3, <1>4, <1>5 DEF Pairs
  <1> QED
    BY <1>1, <1>6 DEF Bank!Next

(* The write-back of an atomic is invisible: the abstract memory already   *)
(* holds its result.                                                       *)
LEMMA CommitAmoKeepsMem ==
  ASSUME IInv, NEW ready \in BOOLEAN, CommitAmo(ready)
  PROVE  AbsMem' = AbsMem
  <1> DEFINE result == Alu(amo_q.op, rdata, amo_q.operand_b)
  <1>1. mem \in [Addr -> Data] /\ amo_q.addr \in Addr /\ amo_q'.addr = amo_q.addr
    BY DEF IInv, TypeOK, CommitAmo
  <1>2. /\ mem' = [mem EXCEPT ![amo_q.addr] = IF RegisterAmo THEN amo_result_q ELSE result]
        /\ amo_result_q' = IF RegisterAmo /\ state_q = "DoAMO" THEN result ELSE amo_result_q
        /\ state_q' = IF RegisterAmo /\ state_q # "WriteBackAMO" THEN "WriteBackAMO" ELSE "Idle"
        /\ state_q \in {"DoAMO", "WriteBackAMO"}
    BY DEF CommitAmo, SramAccess, AmoNextState
  <1>3. state_q = "WriteBackAMO" => RegisterAmo
    BY DEF IInv, AmoStaged
  <1>4. AbsMem = [mem EXCEPT ![amo_q.addr] = IF state_q = "DoAMO" THEN result ELSE amo_result_q]
    BY <1>2 DEF AbsMem
  <1> HIDE DEF result
  <1>5. CASE state_q' = "Idle"
    <2>1. AbsMem' = mem'
      BY <1>5 DEF AbsMem
    <2> QED
      BY <1>2, <1>3, <1>4, <1>5, <2>1
  <1>6. CASE state_q' = "WriteBackAMO"
    <2>1. AbsMem' = [mem' EXCEPT ![amo_q.addr] = result]
      BY <1>1, <1>2, <1>6 DEF AbsMem
    <2>2. state_q = "DoAMO"
      BY <1>2, <1>6
    <2> QED
      BY <1>1, <1>2, <1>4, <2>1, <2>2
  <1> QED
    BY <1>2, <1>5, <1>6

(* The ALU computes what the ISA defines.                                  *)
AluCorrect == \A op \in AMOs, old \in Data, b \in Word : Alu(op, old, b) = AmoValue(op, old, b)

(* How the history of load-reserveds changes, by the kind of request.      *)
LEMMA LinkByKind ==
  ASSUME TypeOK, NEW r \in Requests
  PROVE  LET h == Hart(r.meta)
             writes == BankWrites(r) \/ IsAmo(r)
         IN  /\ r.amo \notin {"LR", "SC"} /\ writes => LinkAfter(r) = Bank!Broken(h, r.addr)
             /\ r.amo \notin {"LR", "SC"} /\ ~ writes => LinkAfter(r) = link
             /\ r.amo = "LR" /\ ~ writes => LinkAfter(r) = [link EXCEPT ![h] = r.addr]
             /\ r.amo = "SC" /\ ~ writes => LinkAfter(r) = [link EXCEPT ![h] = X]
             /\ r.amo = "SC" /\ writes
                  => LinkAfter(r) = [Bank!Broken(h, r.addr) EXCEPT ![h] = X]
  <1> DEFINE h0 == Hart(r.meta)
             writes == BankWrites(r) \/ IsAmo(r)
             kept == [h \in Harts |-> IF h # h0 /\ link[h] = r.addr /\ writes THEN X ELSE link[h]]
  <1>1. link \in [Harts -> Addr \cup {X}]
    BY DEF TypeOK
  <1>2. LinkAfter(r) = CASE r.amo = "LR" -> [kept EXCEPT ![h0] = r.addr]
                         [] r.amo = "SC" -> [kept EXCEPT ![h0] = X]
                         [] OTHER -> kept
    BY DEF LinkAfter
  <1>3. writes => kept = Bank!Broken(h0, r.addr)
    BY <1>1 DEF Bank!Broken
  <1>4. ~ writes => kept = link
    BY <1>1
  <1> HIDE DEF h0, writes, kept
  <1>5. /\ r.amo \notin {"LR", "SC"} => LinkAfter(r) = kept
        /\ r.amo = "LR" => LinkAfter(r) = [kept EXCEPT ![h0] = r.addr]
        /\ r.amo = "SC" => LinkAfter(r) = [kept EXCEPT ![h0] = X]
    BY <1>2
  <1> QED
    BY <1>3, <1>4, <1>5 DEF h0, writes

(* A request that is taken acts on the abstract bank in that very step,    *)
(* and the bank's next output is its answer.                               *)
LEMMA AcceptServes ==
  ASSUME AluCorrect, IInv, ReservationSound,
         NEW ready \in BOOLEAN, NEW r \in Requests, Accept(r, ready)
  PROVE  Bank!Serve(r, out_rdata') /\ out_rdata' \in Data
  <1>1. /\ r.addr \in Addr /\ r.wdata \in Word /\ r.write \in BOOLEAN
        /\ r.amo \in AMOs \cup {"None", "LR", "SC"}
        /\ r.write => r.amo = "None"
    BY ConstantTypes DEF RequestType
  <1>2. mem \in [Addr -> Data] /\ TypeOK
    BY DEF IInv, TypeOK
  <1>3. AbsMem = mem
    BY DEF Accept, AbsMem
  <1>4. /\ mem' = IF BankWrites(r)
                  THEN [mem EXCEPT ![r.addr] = Merge(mem[r.addr], r.wdata, r.be)] ELSE mem
        /\ rdata' = IF BankWrites(r) THEN X ELSE mem[r.addr]
        /\ link' = LinkAfter(r)
    BY DEF Accept, SramAccess
  <1>5. out_rdata' = IF r.amo = "SC" THEN (IF ScSuccess(r) THEN 0 ELSE 1) ELSE rdata'
    BY DEF Accept, out_rdata
  <1>6. ScSuccess(r) => r.amo = "SC"
    BY DEF ScSuccess
  <1>7. out_rdata' \in Data
    BY <1>1, <1>2, <1>4, <1>5, ConstantTypes DEF Data
  <1>8. CASE IsAmo(r)
    <2>1. r.amo \in AMOs /\ r.amo \notin {"None", "LR", "SC"}
      BY <1>8 DEF IsAmo, AMOs
    <2>2. ~ BankWrites(r)
      BY <1>1, <1>6, <2>1 DEF BankWrites
    <2>3. mem' = mem /\ rdata' = mem[r.addr] /\ out_rdata' = mem[r.addr]
      BY <1>4, <1>5, <2>1, <2>2
    <2>4. /\ state_q' = "DoAMO"
          /\ amo_q' = [op |-> r.amo, addr |-> r.addr, operand_b |-> r.wdata]
      BY <1>8 DEF Accept
    <2>5. AbsMem' = [mem EXCEPT ![r.addr] = Alu(r.amo, mem[r.addr], r.wdata)]
      BY <2>3, <2>4 DEF AbsMem
    <2>6. Alu(r.amo, mem[r.addr], r.wdata) = AmoValue(r.amo, mem[r.addr], r.wdata)
      BY <1>1, <1>2, <2>1 DEF AluCorrect
    <2>7. link' = Bank!Broken(Hart(r.meta), r.addr)
      BY <1>2, <1>4, <1>8, <2>1, LinkByKind
    <2>8. Bank!Amo(r)
      BY <1>3, <2>1, <2>5, <2>6, <2>7 DEF Bank!Amo
    <2> QED
      BY <1>3, <1>7, <2>3, <2>8 DEF Bank!Serve
  <1>9. CASE ~ IsAmo(r)
    <2>1. AbsMem' = mem'
      BY <1>9 DEF Accept, AbsMem
    <2>2. r.amo \in {"None", "LR", "SC"}
      BY <1>1, <1>9 DEF IsAmo
    <2>3. CASE r.write
      <3>1. BankWrites(r) /\ r.amo = "None" /\ r.amo \notin {"LR", "SC"}
        BY <1>1, <2>3 DEF BankWrites
      <3>2. link' = Bank!Broken(Hart(r.meta), r.addr)
        BY <1>2, <1>4, <3>1, LinkByKind
      <3>3. Bank!Store(r)
        BY <1>3, <1>4, <2>1, <2>3, <3>1, <3>2 DEF Bank!Store
      <3>4. out_rdata' = X
        BY <1>4, <1>5, <3>1
      <3> QED
        BY <1>7, <3>3, <3>4 DEF Bank!Serve
    <2>4. CASE ~ r.write /\ r.amo = "None"
      <3>1. ~ BankWrites(r) /\ r.amo \notin {"LR", "SC"}
        BY <1>6, <2>4 DEF BankWrites
      <3>2. link' = link
        BY <1>2, <1>4, <1>9, <3>1, LinkByKind
      <3>3. Bank!Load(r)
        BY <1>3, <1>4, <2>1, <2>4, <3>1, <3>2 DEF Bank!Load
      <3>4. out_rdata' = mem[r.addr]
        BY <1>4, <1>5, <3>1
      <3> QED
        BY <1>3, <1>7, <3>3, <3>4 DEF Bank!Serve
    <2>5. CASE r.amo = "LR"
      <3>1. ~ BankWrites(r)
        BY <1>1, <1>6, <2>5 DEF BankWrites
      <3>2. link' = [link EXCEPT ![Hart(r.meta)] = r.addr]
        BY <1>2, <1>4, <1>9, <2>5, <3>1, LinkByKind
      <3>3. Bank!LoadReserved(r)
        BY <1>3, <1>4, <2>1, <2>5, <3>1, <3>2 DEF Bank!LoadReserved
      <3>4. out_rdata' = mem[r.addr]
        BY <1>4, <1>5, <2>5, <3>1
      <3> QED
        BY <1>3, <1>7, <3>3, <3>4 DEF Bank!Serve
    <2>6. CASE r.amo = "SC" /\ ScSuccess(r)
      <3>1. BankWrites(r)
        BY <2>6 DEF BankWrites
      <3>2. link' = [Bank!Broken(Hart(r.meta), r.addr) EXCEPT ![Hart(r.meta)] = X]
        BY <1>2, <1>4, <2>6, <3>1, LinkByKind
      <3>3. link[Hart(r.meta)] = r.addr
        BY <2>6 DEF ScSuccess, ReservationSound
      <3>4. Bank!StoreConditional(r)
        BY <1>3, <1>4, <2>1, <2>6, <3>1, <3>2, <3>3 DEF Bank!StoreConditional
      <3>5. out_rdata' = 0
        BY <1>5, <2>6
      <3> QED
        BY <1>7, <3>4, <3>5 DEF Bank!Serve
    <2>7. CASE r.amo = "SC" /\ ~ ScSuccess(r)
      <3>1. ~ BankWrites(r)
        BY <1>1, <2>7 DEF BankWrites
      <3>2. link' = [link EXCEPT ![Hart(r.meta)] = X]
        BY <1>2, <1>4, <1>9, <2>7, <3>1, LinkByKind
      <3>3. Bank!StoreConditionalFails(r)
        BY <1>3, <1>4, <2>1, <2>7, <3>1, <3>2 DEF Bank!StoreConditionalFails
      <3>4. out_rdata' = 1
        BY <1>5, <2>7
      <3> QED
        BY <1>7, <3>3, <3>4 DEF Bank!Serve
    <2> QED
      BY <2>2, <2>3, <2>4, <2>5, <2>6, <2>7
  <1> QED
    BY <1>8, <1>9

(* Taking a request appends its answer to what is left of the others.      *)
LEMMA AcceptRefines ==
  ASSUME AluCorrect, IInv, IInv', ReservationSound,
         NEW ready \in BOOLEAN, NEW r \in Requests, Accept(r, ready)
  PROVE  Bank!Next
  <1> DEFINE rest == Pairs(Left(ready, meta_q), Left(ready, fifoSeen))
  <1>1. /\ Left(ready, meta_q) \in Seq(Meta) /\ Left(ready, fifoSeen) \in Seq(Data)
        /\ Len(Left(ready, meta_q)) = Len(Left(ready, fifoSeen))
        /\ rest \in Bank!Remaining
    BY LeftIsRemaining
  <1>2. Bank!Serve(r, out_rdata') /\ out_rdata' \in Data /\ r.meta \in Meta
    BY AcceptServes, ConstantTypes DEF RequestType
  <1>3. rdata_fifo' = Left(ready, fifoSeen) /\ meta_q' = Left(ready, meta_q) \o <<r.meta>>
    BY ReadyMeansEmpty DEF Accept, Respond, Left
  <1>4. fifoSeen' = Append(rdata_fifo', out_rdata')
    <2>1. out_gnt' /\ ~ rdata_full'
      BY DEF Accept, IInv, AnswersPaired
    <2> QED
      BY <2>1 DEF fifoSeen
  <1>5. (AbsResp = Pairs(meta_q, fifoSeen))'
    BY AbsRespIsPairs, PTL
  <1>6. AbsResp' = Pairs(Left(ready, meta_q) \o <<r.meta>>, Append(Left(ready, fifoSeen), out_rdata'))
    BY <1>3, <1>4, <1>5 DEF Pairs
  <1>7. AbsResp' = Append(rest, <<r.meta, out_rdata'>>)
    BY <1>1, <1>2, <1>6, PairsAppend
  <1> HIDE DEF rest
  <1>8. out_rdata' \in Word \cup {X}
    BY <1>2 DEF Data
  <1>9. AbsAtomic' = Bank!Atomic(r)
    <2>1. CASE IsAmo(r)
      <3>1. state_q' = "DoAMO" /\ amo_q' = [op |-> r.amo, addr |-> r.addr, operand_b |-> r.wdata]
        BY <2>1 DEF Accept
      <3>2. r.amo \notin {"None", "LR", "SC"}
        BY <2>1 DEF IsAmo, AMOs
      <3> QED
        BY <3>1, <3>2 DEF AbsAtomic, Bank!Atomic
    <2>2. CASE ~ IsAmo(r)
      <3>1. state_q' = "Idle"
        BY <2>2 DEF Accept
      <3>2. r.amo \in {"None", "LR", "SC"}
        BY <2>2, ConstantTypes DEF RequestType, IsAmo
      <3> QED
        BY <3>1, <3>2 DEF AbsAtomic, Bank!Atomic
    <2> QED
      BY <2>1, <2>2
  <1> QED
    BY <1>1, <1>2, <1>7, <1>8, <1>9 DEF Bank!Next

(* The adapter implements the atomic bank, provided its ALU computes what  *)
(* the ISA defines and its core identifiers tell the harts apart: stores,  *)
(* loads, atomics and LR/SC pairs take effect indivisibly in the order of  *)
(* acceptance, and every requester gets its own answer.                    *)
THEOREM AdapterImplementsBank ==
  UniqueIds /\ AluCorrect => (Spec => ImplementsAtomicBank)
  <1> SUFFICES ASSUME UniqueIds, AluCorrect PROVE Spec => ImplementsAtomicBank
    OBVIOUS
  <1>1. Init => Bank!Init
    <2> SUFFICES ASSUME Init PROVE Bank!Init
      OBVIOUS
    <2>1. AbsMem = [a \in Addr |-> X] /\ link = [h \in Harts |-> X]
      BY DEF Init, AbsMem
    <2>2. Len(meta_q) = 0
      BY DEF Init
    <2>3. AbsResp = [i \in 1 .. 0 |-> <<meta_q[i], IF i <= Len(Answers) THEN Answers[i] ELSE X>>]
      BY <2>2 DEF AbsResp
    <2>4. AbsResp = <<>>
      BY <2>3
    <2>5. AbsAtomic = <<>>
      BY DEF Init, AbsAtomic
    <2> QED
      BY <2>1, <2>4, <2>5 DEF Bank!Init, Harts
  <1>2. IInv /\ IInv' /\ ReservationSound /\ [Next]_vars => [Bank!Next]_(Bank!vars)
    <2> SUFFICES ASSUME IInv, IInv', ReservationSound, [Next]_vars PROVE [Bank!Next]_(Bank!vars)
      OBVIOUS
    <2>1. CASE UNCHANGED vars
      BY <2>1 DEF vars, bankVars, respVars, scVars, Bank!vars, AbsMem, AbsResp, AbsAtomic, Answers, out_rdata
    <2>2. CASE Next
      <3>1. PICK ready \in BOOLEAN : Cycle(ready)
        BY <2>2 DEF Next
      <3>2. CASE \E r \in Requests : Accept(r, ready)
        BY <3>2, AcceptRefines
      <3>3. CASE NoRequest(ready)
        <4>1. AbsMem' = AbsMem /\ AbsAtomic' = <<>>
          BY <3>3 DEF NoRequest, AbsMem, AbsAtomic
        <4> QED
          BY <3>3, <4>1, DrainRefines DEF NoRequest
      <3>4. CASE CommitAmo(ready)
        <4>1. AbsMem' = AbsMem
          BY <3>4, CommitAmoKeepsMem
        <4>2. AbsAtomic' = <<>>
          BY <3>4 DEF CommitAmo, AmoNextState, AbsAtomic
        <4> QED
          BY <3>4, <4>1, <4>2, DrainRefines DEF CommitAmo
      <3> QED
        BY <3>1, <3>2, <3>3, <3>4 DEF Cycle
    <2> QED
      BY <2>1, <2>2
  <1> QED
    BY <1>1, <1>2, Invariance, ReservationsSound, PTL DEF Spec, ImplementsAtomicBank, Bank!Spec
===============================================================================
