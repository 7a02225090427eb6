---------------------------- MODULE TcdmShimProofs ----------------------------
(***************************************************************************)
(* Proofs about TcdmShim for every number of identifiers and every address *)
(* map: the FIFOs of the shim never lose an identifier, and the load/store *)
(* unit sees one of the networks it was proved for.                        *)
(***************************************************************************)
EXTENDS TcdmShim, SnitchLsuProofs, FiniteSetTheorems, SequenceTheorems

InFlight == [id : Ids, req : Requests]

IdSeq(s) == [i \in 1 .. Len(s) |-> s[i].id]

(* s is a queue of SoC reads or SoC writes that stay in flight when the    *)
(* requests of gone are answered.                                          *)
Queue(s, w, gone) ==
  /\ s \in Seq(InFlight)
  /\ \A i \in 1 .. Len(s) : s[i] \in net \ gone /\ ToSoc(s[i]) /\ s[i].req.write = w
  /\ \A i, j \in 1 .. Len(s) : s[i] = s[j] => i = j

(* A FIFO holds the identifiers of what the SoC has not answered, which is *)
(* in flight.                                                              *)
ShimInv ==
  /\ SocIdsInOrder
  /\ Queue(soc_r, FALSE, {})
  /\ Queue(soc_w, TRUE, {})

-------------------------------------------------------------------------------
(* The identifiers of a queue of requests.                                 *)
LEMMA IdSeqType ==
  ASSUME NEW s \in Seq(InFlight)
  PROVE  /\ IdSeq(s) \in Seq(Ids) /\ Len(IdSeq(s)) = Len(s)
         /\ \A i \in 1 .. Len(s) : IdSeq(s)[i] = s[i].id
  <1>1. Len(s) \in Nat /\ \A i \in 1 .. Len(s) : s[i] \in InFlight
    OBVIOUS
  <1>2. \A i \in 1 .. Len(s) : s[i].id \in Ids
    BY <1>1 DEF InFlight
  <1> QED
    BY <1>1, <1>2 DEF IdSeq

(* What Tail and Append do to the identifiers of a queue.                  *)
LEMMA IdSeqTail ==
  ASSUME NEW s \in Seq(InFlight), s # <<>>
  PROVE  IdSeq(Tail(s)) = Tail(IdSeq(s)) /\ IdSeq(s) # <<>> /\ Head(IdSeq(s)) = Head(s).id
  <1>1. IdSeq(s) \in Seq(Ids) /\ Len(IdSeq(s)) = Len(s) /\ Len(s) \in Nat \ {0}
    BY IdSeqType
  <1>2. IdSeq(s) # <<>>
    BY <1>1
  <1>3. /\ Tail(s) \in Seq(InFlight) /\ Len(Tail(s)) = Len(s) - 1
        /\ \A i \in 1 .. Len(s) - 1 : Tail(s)[i] = s[i + 1] /\ i + 1 \in 1 .. Len(s)
    BY <1>1
  <1>4. /\ Tail(IdSeq(s)) \in Seq(Ids) /\ Len(Tail(IdSeq(s))) = Len(s) - 1
        /\ \A i \in 1 .. Len(s) - 1 : Tail(IdSeq(s))[i] = IdSeq(s)[i + 1]
    BY <1>1, <1>2
  <1>5. /\ IdSeq(Tail(s)) \in Seq(Ids) /\ Len(IdSeq(Tail(s))) = Len(s) - 1
        /\ \A i \in 1 .. Len(s) - 1 : IdSeq(Tail(s))[i] = Tail(s)[i].id
    BY <1>3, IdSeqType
  <1>6. \A i \in 1 .. Len(s) - 1 : IdSeq(Tail(s))[i] = Tail(IdSeq(s))[i]
    BY <1>3, <1>4, <1>5, IdSeqType
  <1>7. IdSeq(Tail(s)) = Tail(IdSeq(s))
    BY <1>4, <1>5, <1>6, SeqEqual
  <1>8. 1 \in 1 .. Len(s) /\ Head(s) = s[1] /\ Head(IdSeq(s)) = IdSeq(s)[1]
    BY <1>1, <1>2
  <1> QED
    BY <1>2, <1>7, <1>8, IdSeqType

(* Appending a request appends its identifier.                             *)
LEMMA IdSeqAppend ==
  ASSUME NEW s \in Seq(InFlight), NEW m \in InFlight
  PROVE  IdSeq(Append(s, m)) = Append(IdSeq(s), m.id)
  <1>1. IdSeq(s) \in Seq(Ids) /\ Len(IdSeq(s)) = Len(s) /\ m.id \in Ids
    BY IdSeqType DEF InFlight
  <1>2. /\ Len(Append(s, m)) = Len(s) + 1
        /\ \A i \in 1 .. Len(s) + 1 : Append(s, m)[i].id = IF i = Len(s) + 1 THEN m.id ELSE s[i].id
    OBVIOUS
  <1>3. /\ Append(IdSeq(s), m.id) \in Seq(Ids) /\ Len(Append(IdSeq(s), m.id)) = Len(s) + 1
        /\ \A i \in 1 .. Len(s) + 1 :
             Append(IdSeq(s), m.id)[i] = IF i = Len(s) + 1 THEN m.id ELSE IdSeq(s)[i]
    BY <1>1
  <1>4. \A i \in 1 .. Len(s) + 1 :
          Append(IdSeq(s), m.id)[i] = IF i = Len(s) + 1 THEN m.id ELSE s[i].id
    BY <1>3 DEF IdSeq
  <1>5. IdSeq(Append(s, m)) = [i \in 1 .. Len(s) + 1 |-> IF i = Len(s) + 1 THEN m.id ELSE s[i].id]
    BY <1>2 DEF IdSeq
  <1> QED
    BY <1>3, <1>4, <1>5

(* The oldest request of a queue leaves.                                   *)
LEMMA QueueTail ==
  ASSUME NEW s, NEW w \in BOOLEAN, Queue(s, w, {}), s # <<>>
  PROVE  Queue(Tail(s), w, {Head(s)}) /\ Head(s) \in net /\ Head(s).req.write = w
  <1>1. s \in Seq(InFlight) /\ Len(s) \in Nat \ {0}
    BY DEF Queue
  <1>2. /\ Tail(s) \in Seq(InFlight) /\ Len(Tail(s)) = Len(s) - 1 /\ Head(s) = s[1]
        /\ \A i \in 1 .. Len(s) - 1 : Tail(s)[i] = s[i + 1]
    BY <1>1
  <1>3. \A i \in 1 .. Len(s) - 1 : i + 1 \in 1 .. Len(s) /\ i + 1 # 1
    BY <1>1
  <1>4. 1 \in 1 .. Len(s)
    BY <1>1
  <1>5. \A i \in 1 .. Len(s) - 1 : s[i + 1] # s[1]
    BY <1>3, <1>4 DEF Queue
  <1>6. \A i, j \in 1 .. Len(s) - 1 : s[i + 1] = s[j + 1] => i = j
    BY <1>3 DEF Queue
  <1> QED
    BY <1>2, <1>3, <1>4, <1>5, <1>6 DEF Queue

(* A request that is not in a queue leaves.                                *)
LEMMA QueueOther ==
  ASSUME NEW s, NEW w \in BOOLEAN, Queue(s, w, {}), NEW m, ~ ToSoc(m) \/ m.req.write # w
  PROVE  Queue(s, w, {m})
  BY DEF Queue

(* The identifier that a request leaves with is not in flight, so a queue  *)
(* of requests in flight is shorter than there are identifiers: the FIFO   *)
(* has room although nobody looks at its full flag.                        *)
LEMMA QueueHasRoom ==
  ASSUME IInv, NEW q \in Presented, data_qvalid(q), NEW s, NEW w \in BOOLEAN, NEW gone,
         Queue(s, w, gone)
  PROVE  /\ Len(s) < NumOutstandingLoads
         /\ data_qid \in Ids /\ \A m \in net : m.id # data_qid
  <1> DEFINE f == IdSeq(s)
             T == Ids \ {data_qid}
  <1>1. data_qid \in Ids /\ \A m \in net : m.id # data_qid
    <2>1. CASE handshake_pending_q
      BY <2>1 DEF IInv, TypeOK, IdsConserved, data_qid
    <2>2. CASE ~ handshake_pending_q
      <3>1. req_id \in id_available_q
        BY <2>2, ReqIdFree DEF data_qvalid, IInv, TypeOK
      <3> QED
        BY <2>2, <3>1 DEF data_qid, IInv, TypeOK, IdsConserved
    <2> QED
      BY <2>1, <2>2
  <1>2. s \in Seq(InFlight) /\ Len(s) \in Nat /\ \A i \in 1 .. Len(s) : s[i] \in net
    BY DEF Queue
  <1>3. \A i \in 1 .. Len(s) : f[i] \in T /\ f[i] = s[i].id
    <2>1. \A i \in 1 .. Len(s) : f[i] = s[i].id
      BY <1>2, IdSeqType
    <2>2. \A i \in 1 .. Len(s) : s[i].id \in Ids
      BY <1>2 DEF InFlight, IInv, TypeOK
    <2> QED
      BY <1>1, <1>2, <2>1, <2>2
  <1>4. \A i, j \in 1 .. Len(s) : f[i] = f[j] => i = j
    BY <1>2, <1>3 DEF IInv, IdsConserved, Queue
  <1>5. f \in Injection(1 .. Len(s), T)
    BY <1>3, <1>4 DEF IdSeq, Injection, IsInjective
  <1>6. IsFiniteSet(Ids) /\ Cardinality(Ids) = NumOutstandingLoads
    BY NumOutstandingAssumption, FS_Interval DEF Ids
  <1>7. IsFiniteSet(T) /\ Cardinality(T) = NumOutstandingLoads - 1
    BY <1>1, <1>6, FS_RemoveElement
  <1>8. Cardinality(1 .. Len(s)) <= Cardinality(T)
    BY <1>5, <1>7, FS_Injection
  <1>9. Cardinality(1 .. Len(s)) = Len(s)
    <2>1. 1 \in Int /\ Len(s) \in Int
      BY <1>2
    <2>2. Cardinality(1 .. Len(s)) = IF 1 > Len(s) THEN 0 ELSE Len(s) - 1 + 1
      BY <2>1, FS_Interval
    <2> QED
      BY <1>2, <2>2
  <1> QED
    BY <1>1, <1>2, <1>7, <1>8, <1>9, NumOutstandingAssumption

(* A queue keeps its place when nothing is added to it.                    *)
LEMMA QueueStays ==
  ASSUME NEW s, NEW w \in BOOLEAN, NEW gone, Queue(s, w, gone), net \ gone \subseteq net'
  PROVE  /\ s \in Seq(InFlight)
         /\ \A i \in 1 .. Len(s) : s[i] \in net' /\ ToSoc(s[i]) /\ s[i].req.write = w
         /\ \A i, j \in 1 .. Len(s) : s[i] = s[j] => i = j
  BY DEF Queue

(* A request that was not in flight joins the end of a queue.              *)
LEMMA QueueGrows ==
  ASSUME NEW s, NEW w \in BOOLEAN, NEW gone, Queue(s, w, gone), net \ gone \subseteq net',
         NEW m \in InFlight, m \notin net, m \in net', ToSoc(m), m.req.write = w
  PROVE  /\ Append(s, m) \in Seq(InFlight)
         /\ \A i \in 1 .. Len(Append(s, m)) :
              LET x == Append(s, m)[i] IN x \in net' /\ ToSoc(x) /\ x.req.write = w
         /\ \A i, j \in 1 .. Len(Append(s, m)) : Append(s, m)[i] = Append(s, m)[j] => i = j
  <1>1. s \in Seq(InFlight) /\ Len(s) \in Nat
    BY DEF Queue
  <1>2. /\ Append(s, m) \in Seq(InFlight) /\ Len(Append(s, m)) = Len(s) + 1
        /\ \A i \in 1 .. Len(s) : Append(s, m)[i] = s[i]
        /\ Append(s, m)[Len(s) + 1] = m
    BY <1>1
  <1>3. \A i \in 1 .. Len(s) + 1 : i \in 1 .. Len(s) \/ i = Len(s) + 1
    BY <1>1
  <1>4. \A i \in 1 .. Len(s) : /\ s[i] \in net /\ s[i] \in net' /\ ToSoc(s[i])
                               /\ s[i].req.write = w /\ s[i] # m
    BY DEF Queue
  <1>5. \A i, j \in 1 .. Len(s) + 1 : Append(s, m)[i] = Append(s, m)[j] => i = j
    BY <1>2, <1>3, <1>4 DEF Queue
  <1> QED
    BY <1>2, <1>3, <1>4, <1>5
-------------------------------------------------------------------------------
(* A cycle that leaves the queues rs and ws behind, before its own request *)
(* is put into one of them, keeps the invariant.                           *)
LEMMA EnqueueInv ==
  ASSUME IInv, NEW q \in Presented, NEW qready \in BOOLEAN, NEW pready \in BOOLEAN,
         NEW p, NEW pid, Echoed(p, pid), Cycle(q, qready, p, pid, pready),
         NEW rs, NEW ws, Queue(rs, FALSE, Gone(p, pid, pready)), Queue(ws, TRUE, Gone(p, pid, pready)),
         SocEnqueue(q, qready, IdSeq(rs), IdSeq(ws), rs, ws)
  PROVE  ShimInv'
  <1> DEFINE gone == Gone(p, pid, pready)
             m == [id |-> data_qid, req |-> postreg_lsu_req(q)[1]]
             sent == data_qvalid(q) /\ qready /\ ToSoc(m)
  <1>1. net' = (net \ gone) \cup (IF data_qvalid(q) /\ qready THEN {m} ELSE {})
    BY DEF Cycle, NetAfter, Gone
  <1>2. rs \in Seq(InFlight) /\ ws \in Seq(InFlight)
    BY DEF Queue
  <1>3. net \ gone \subseteq net'
    BY <1>1
  <1>4. /\ meta_read' = IF sent /\ ~ m.req.write THEN Push(IdSeq(rs), m.id) ELSE IdSeq(rs)
        /\ meta_write' = IF sent /\ m.req.write THEN Push(IdSeq(ws), m.id) ELSE IdSeq(ws)
        /\ soc_r' = IF sent /\ ~ m.req.write THEN Append(rs, m) ELSE rs
        /\ soc_w' = IF sent /\ m.req.write THEN Append(ws, m) ELSE ws
    BY DEF SocEnqueue
  <1>5. data_qvalid(q) => postreg_lsu_req(q)[1] \in Requests
    BY PostregType DEF IInv, data_qvalid
  <1>6. \A r \in Requests : r.write \in BOOLEAN
    BY DEF Requests
  <1>7. sent => /\ m \in InFlight /\ m \notin net /\ m \in net' /\ m.req.write \in BOOLEAN
                /\ Len(rs) < NumOutstandingLoads /\ Len(ws) < NumOutstandingLoads
    <2> SUFFICES ASSUME sent
                 PROVE  /\ m \in InFlight /\ m \notin net /\ m \in net' /\ m.req.write \in BOOLEAN
                        /\ Len(rs) < NumOutstandingLoads /\ Len(ws) < NumOutstandingLoads
      OBVIOUS
    <2>1. /\ data_qid \in Ids /\ \A k \in net : k.id # data_qid
          /\ Len(rs) < NumOutstandingLoads /\ Len(ws) < NumOutstandingLoads
      BY QueueHasRoom
    <2>2. m.id = data_qid /\ m.req = postreg_lsu_req(q)[1]
      OBVIOUS
    <2>3. m \in InFlight
      BY <1>5, <2>1 DEF InFlight
    <2> QED
      BY <1>1, <1>5, <1>6, <2>1, <2>2, <2>3
  <1> HIDE DEF m, gone
  <1>8. soc_r' \in Seq(InFlight) /\ soc_w' \in Seq(InFlight)
    BY <1>2, <1>4, <1>7
  <1>9. meta_read' = IdSeq(soc_r') /\ meta_write' = IdSeq(soc_w')
    <2>1. sent => /\ Push(IdSeq(rs), m.id) = IdSeq(Append(rs, m))
                  /\ Push(IdSeq(ws), m.id) = IdSeq(Append(ws, m))
      <3>1. Len(IdSeq(rs)) = Len(rs) /\ Len(IdSeq(ws)) = Len(ws)
        BY <1>2, IdSeqType
      <3> QED
        BY <1>2, <1>7, <3>1, IdSeqAppend DEF Push
    <2> QED
      BY <1>4, <2>1
  <1>10. Queue(soc_r, FALSE, {})'
    <2>1. CASE sent /\ ~ m.req.write
      <3>1. soc_r' = Append(rs, m) /\ m.req.write = FALSE
        BY <1>4, <1>7, <2>1
      <3> QED
        BY <1>3, <1>7, <2>1, <3>1, QueueGrows DEF Queue, gone
    <2>2. CASE ~ (sent /\ ~ m.req.write)
      <3>1. soc_r' = rs
        BY <1>4, <2>2
      <3> QED
        BY <1>3, <3>1, QueueStays DEF Queue, gone
    <2> QED
      BY <2>1, <2>2
  <1>11. Queue(soc_w, TRUE, {})'
    <2>1. CASE sent /\ m.req.write
      <3>1. soc_w' = Append(ws, m) /\ m.req.write = TRUE
        BY <1>4, <1>7, <2>1
      <3> QED
        BY <1>3, <1>7, <2>1, <3>1, QueueGrows DEF Queue, gone
    <2>2. CASE ~ (sent /\ m.req.write)
      <3>1. soc_w' = ws
        BY <1>4, <2>2
      <3> QED
        BY <1>3, <3>1, QueueStays DEF Queue, gone
    <2> QED
      BY <2>1, <2>2
  <1> QED
    BY <1>9, <1>10, <1>11 DEF ShimInv, SocIdsInOrder, IdSeq

(* The FIFOs are the identifiers of the queues.                            *)
LEMMA FifosAreIds ==
  ASSUME ShimInv
  PROVE  meta_read = IdSeq(soc_r) /\ meta_write = IdSeq(soc_w)
  BY DEF ShimInv, SocIdsInOrder, IdSeq

(* A cycle without a response is a step of the core's own network.         *)
LEMMA QuietStep ==
  ASSUME IInv, ShimInv, NEW q \in Presented, NEW qready \in BOOLEAN, ShimQuiet(q, qready)
  PROVE  Next /\ ShimInv'
  <1>1. Cycle(q, qready, <<>>, 0, FALSE) /\ Echoed(<<>>, 0) /\ Gone(<<>>, 0, FALSE) = {}
    BY DEF ShimQuiet, Quiet, Echoed, Gone, id_table_pop
  <1>2. SocEnqueue(q, qready, IdSeq(soc_r), IdSeq(soc_w), soc_r, soc_w)
    BY FifosAreIds DEF ShimQuiet
  <1>3. Queue(soc_r, FALSE, {}) /\ Queue(soc_w, TRUE, {})
    BY DEF ShimInv
  <1>4. ShimInv'
    BY <1>1, <1>2, <1>3, EnqueueInv
  <1>5. Next
    BY DEF ShimQuiet, Next, Step
  <1> QED
    BY <1>4, <1>5

(* So is a cycle in which the TCDM answers.                                *)
LEMMA TcdmResponseStep ==
  ASSUME IInv, ShimInv, NEW q \in Presented, NEW qready \in BOOLEAN, NEW pready \in WritePortFree,
         NEW m \in net, TcdmResponse(m, q, qready, pready)
  PROVE  Next /\ ShimInv'
  <1>0. pready \in BOOLEAN
    BY WritePortBool
  <1>1. Cycle(q, qready, <<m>>, m.id, pready) /\ Echoed(<<m>>, m.id) /\ ~ ToSoc(m)
    BY DEF TcdmResponse, Response, Echoed
  <1>2. SocEnqueue(q, qready, IdSeq(soc_r), IdSeq(soc_w), soc_r, soc_w)
    BY FifosAreIds DEF TcdmResponse
  <1>3. Gone(<<m>>, m.id, pready) \in {{}, {m}}
    BY DEF Gone
  <1>4. Queue(soc_r, FALSE, Gone(<<m>>, m.id, pready)) /\ Queue(soc_w, TRUE, Gone(<<m>>, m.id, pready))
    <2>1. Queue(soc_r, FALSE, {}) /\ Queue(soc_w, TRUE, {})
      BY DEF ShimInv
    <2>2. Queue(soc_r, FALSE, {m}) /\ Queue(soc_w, TRUE, {m})
      BY <1>1, <2>1, QueueOther
    <2> QED
      BY <1>3, <2>1, <2>2
  <1>5. ShimInv'
    BY <1>0, <1>1, <1>2, <1>4, EnqueueInv
  <1>6. Next
    BY DEF TcdmResponse, Next, Step
  <1> QED
    BY <1>5, <1>6

(* An answer of the SoC on one of its channels: the identifier at the head *)
(* of the FIFO is that of the request the SoC answers.                     *)
LEMMA HeadAnswered ==
  ASSUME ShimInv, NEW s, NEW ids, NEW w \in BOOLEAN, Queue(s, w, {}), ids = IdSeq(s), s # <<>>,
         NEW pready \in BOOLEAN
  PROVE  LET pop == id_table_pop(<<Head(s)>>, Head(ids), pready)
             rest == IF pop THEN Tail(s) ELSE s
             gone == Gone(<<Head(s)>>, Head(ids), pready)
         IN  /\ Echoed(<<Head(s)>>, Head(ids)) /\ Head(s) \in net /\ Head(ids) = Head(s).id
             /\ (IF pop THEN Tail(ids) ELSE ids) = IdSeq(rest)
             /\ Queue(rest, w, gone)
             /\ \A t : Queue(t, ~ w, {}) => Queue(t, ~ w, gone)
  <1>1. s \in Seq(InFlight)
    BY DEF Queue
  <1>2. Head(ids) = Head(s).id /\ Tail(ids) = IdSeq(Tail(s))
    BY <1>1, IdSeqTail
  <1>3. Queue(Tail(s), w, {Head(s)}) /\ Head(s) \in net /\ Head(s).req.write = w
    BY QueueTail
  <1>4. \A t : Queue(t, ~ w, {}) => Queue(t, ~ w, {Head(s)})
    BY <1>3, QueueOther
  <1>5. Gone(<<Head(s)>>, Head(ids), pready)
          = IF id_table_pop(<<Head(s)>>, Head(ids), pready) THEN {Head(s)} ELSE {}
    BY DEF Gone
  <1>6. Echoed(<<Head(s)>>, Head(ids))
    BY <1>2, <1>3 DEF Echoed
  <1> QED
    BY <1>2, <1>3, <1>4, <1>5, <1>6

(* The oldest SoC read is answered under the head of meta_read.            *)
LEMMA SocReadStep ==
  ASSUME IInv, ShimInv, NEW q \in Presented, NEW qready \in BOOLEAN, NEW pready \in WritePortFree,
         SocReadResponse(q, qready, pready)
  PROVE  Next /\ ShimInv'
  <1>0. pready \in BOOLEAN
    BY WritePortBool
  <1> DEFINE pid == Head(meta_read)
             pop == id_table_pop(<<Head(soc_r)>>, pid, pready)
             rest == IF pop THEN Tail(soc_r) ELSE soc_r
             gone == Gone(<<Head(soc_r)>>, pid, pready)
  <1>1. /\ soc_r # <<>> /\ Cycle(q, qready, <<Head(soc_r)>>, pid, pready)
        /\ SocEnqueue(q, qready, IF pop THEN Tail(meta_read) ELSE meta_read, meta_write, rest, soc_w)
    BY DEF SocReadResponse, SocId
  <1>2. Queue(soc_r, FALSE, {}) /\ Queue(soc_w, ~ FALSE, {})
    BY DEF ShimInv
  <1>3. /\ Echoed(<<Head(soc_r)>>, pid) /\ Head(soc_r) \in net /\ pid = Head(soc_r).id
        /\ (IF pop THEN Tail(meta_read) ELSE meta_read) = IdSeq(rest)
        /\ Queue(rest, FALSE, gone) /\ Queue(soc_w, ~ FALSE, gone)
    BY <1>0, <1>1, <1>2, FifosAreIds, HeadAnswered
  <1>4. SocEnqueue(q, qready, IdSeq(rest), IdSeq(soc_w), rest, soc_w)
    BY <1>1, <1>3, FifosAreIds
  <1>5. Queue(soc_w, TRUE, gone)
    BY <1>3
  <1> HIDE DEF rest, pid, pop
  <1>6. ShimInv'
    BY <1>0, <1>1, <1>3, <1>4, <1>5, EnqueueInv
  <1>7. Response(Head(soc_r), q, qready, pready)
    BY <1>1, <1>3 DEF Response
  <1>8. Next
    BY <1>3, <1>7 DEF Next, Step
  <1> QED
    BY <1>6, <1>8

(* The oldest SoC write is answered under the head of meta_write.          *)
LEMMA SocWriteStep ==
  ASSUME IInv, ShimInv, NEW q \in Presented, NEW qready \in BOOLEAN, NEW pready \in WritePortFree,
         SocWriteResponse(q, qready, pready)
  PROVE  Next /\ ShimInv'
  <1>0. pready \in BOOLEAN
    BY WritePortBool
  <1> DEFINE pid == Head(meta_write)
             pop == id_table_pop(<<Head(soc_w)>>, pid, pready)
             rest == IF pop THEN Tail(soc_w) ELSE soc_w
             gone == Gone(<<Head(soc_w)>>, pid, pready)
  <1>1. /\ soc_w # <<>> /\ Cycle(q, qready, <<Head(soc_w)>>, pid, pready)
        /\ SocEnqueue(q, qready, meta_read, IF pop THEN Tail(meta_write) ELSE meta_write, soc_r, rest)
    BY DEF SocWriteResponse, SocId
  <1>2. Queue(soc_w, TRUE, {}) /\ Queue(soc_r, ~ TRUE, {})
    BY DEF ShimInv
  <1>3. /\ Echoed(<<Head(soc_w)>>, pid) /\ Head(soc_w) \in net /\ pid = Head(soc_w).id
        /\ (IF pop THEN Tail(meta_write) ELSE meta_write) = IdSeq(rest)
        /\ Queue(rest, TRUE, gone) /\ Queue(soc_r, ~ TRUE, gone)
    BY <1>0, <1>1, <1>2, FifosAreIds, HeadAnswered
  <1>4. SocEnqueue(q, qready, IdSeq(soc_r), IdSeq(rest), soc_r, rest)
    BY <1>1, <1>3, FifosAreIds
  <1>5. Queue(soc_r, FALSE, gone)
    BY <1>3
  <1> HIDE DEF rest, pid, pop
  <1>6. ShimInv'
    BY <1>0, <1>1, <1>3, <1>4, <1>5, EnqueueInv
  <1>7. Response(Head(soc_w), q, qready, pready)
    BY <1>1, <1>3 DEF Response
  <1>8. Next
    BY <1>3, <1>7 DEF Next, Step
  <1> QED
    BY <1>6, <1>8

(* A step of the shim is a cycle of the load/store unit on a network that  *)
(* echoes identifiers, and keeps the invariant.                            *)
LEMMA ShimStepRefines ==
  ASSUME IInv, ShimInv, ShimNext
  PROVE  Next /\ ShimInv'
  <1>1. PICK qready \in BOOLEAN, q \in Presented :
          \/ ShimQuiet(q, qready)
          \/ \E pready \in WritePortFree :
               \/ \E m \in net : TcdmResponse(m, q, qready, pready)
               \/ SocReadResponse(q, qready, pready)
               \/ SocWriteResponse(q, qready, pready)
    BY DEF ShimNext, ShimStep
  <1> QED
    BY <1>1, QuietStep, TcdmResponseStep, SocReadStep, SocWriteStep

(* The load/store unit may treat banks and SoC alike: behind the shim, a   *)
(* response of either carries the identifier of its own request.           *)
THEOREM ShimIsOneNetwork == ShimSpec => ShimIsNetwork /\ []ShimInv
  <1>1. ShimInit => Init /\ ShimInv
    <2>1. <<>> \in Seq(InFlight) /\ Len(<<>>) = 0
      OBVIOUS
    <2> QED
      BY <2>1 DEF ShimInit, ShimInv, SocIdsInOrder, Queue
  <1>2. IInv /\ ShimInv /\ [ShimNext]_shimVars => [Next]_vars /\ ShimInv'
    <2> SUFFICES ASSUME IInv, ShimInv, [ShimNext]_shimVars PROVE [Next]_vars /\ ShimInv'
      OBVIOUS
    <2>1. CASE ShimNext
      BY <2>1, ShimStepRefines
    <2>2. CASE UNCHANGED shimVars
      BY <2>2 DEF shimVars, vars, ShimInv, SocIdsInOrder, Queue
    <2> QED
      BY <2>1, <2>2
  <1>3. IInv /\ [Next]_vars => IInv'
    BY StepIInv
  <1>4. Init => IInv
    BY InitIInv
  <1> QED
    BY <1>1, <1>2, <1>3, <1>4, PTL DEF ShimSpec, ShimIsNetwork, Spec

(* The FIFOs of the shim hold the identifiers of exactly the SoC accesses  *)
(* that are unanswered, in order: none is dropped although nobody looks at *)
(* the full flag, since a full FIFO would mean that no identifier is left. *)
THEOREM SocIdentifiersInOrder == ShimSpec => []SocIdsInOrder
  <1>1. ShimInv => SocIdsInOrder
    BY DEF ShimInv
  <1> QED
    BY <1>1, ShimIsOneNetwork, PTL

(* What was proved of the load/store unit on any network holds for the     *)
(* core behind its shim.                                                   *)
THEOREM CoreBehindShim ==
  ShimSpec => []IdsConserved /\ []ResponsesMatched /\ []ScoreboardExact /\ RequestStable
  <1>1. Spec => []IdsConserved /\ []ResponsesMatched /\ []ScoreboardExact /\ RequestStable
    BY IdentifiersConserved, EveryResponseMatched, ScoreboardIsExact, RequestsStable
  <1> QED
    BY <1>1, ShimIsOneNetwork DEF ShimIsNetwork
===============================================================================
