--------------------------- MODULE SnitchLsuProofs ---------------------------
(***************************************************************************)
(* Proofs about SnitchLsu for every number of identifiers.                 *)
(***************************************************************************)
EXTENDS SnitchLsu, WellFoundedInduction, TLAPS

(* A request that is held without an identifier was refused because none   *)
(* was free, and at most one has been freed since.                         *)
HeldMeansFull ==
  held # <<>> /\ ~ handshake_pending_q => \A i, j \in id_available_q : i = j

IInv == /\ TypeOK
        /\ IdsConserved
        /\ ResponsesMatched
        /\ HeldMeansFull

-------------------------------------------------------------------------------
(* The identifier that the leading-zero counter selects is a free one.     *)
LEMMA ReqIdFree ==
  ASSUME id_available_q \subseteq Ids, ~ id_table_full
  PROVE  req_id \in id_available_q
  <1>1. Ids \subseteq Nat
    BY NumOutstandingAssumption DEF Ids
  <1>2. id_available_q # {} /\ id_available_q \subseteq Nat
    BY <1>1 DEF id_table_full
  <1>3. \E i \in id_available_q : \A j \in id_available_q : ~ (<<j, i>> \in OpToRel(<, Nat))
    BY <1>2, NatLessThanWellFounded, WFMin
  <1>4. \E i \in id_available_q : \A j \in id_available_q : i <= j
    <2>1. \A i, j \in Nat : j < i => <<j, i>> \in OpToRel(<, Nat)
      BY DEF OpToRel
    <2>2. \A i, j \in Nat : ~ (j < i) => i <= j
      OBVIOUS
    <2>3. PICK i \in id_available_q : \A j \in id_available_q : ~ (<<j, i>> \in OpToRel(<, Nat))
      BY <1>3
    <2>4. \A j \in id_available_q : ~ (j < i)
      BY <1>2, <2>1, <2>3
    <2> QED
      BY <1>2, <2>2, <2>4
  <1> QED
    BY <1>4 DEF req_id

(* The signal that says whether a response may write its register.         *)
LEMMA WritePortBool == WritePortFree \subseteq BOOLEAN
  BY DEF WritePortFree

(* The request behind the fall-through register is one of the core's.      *)
LEMMA PostregType ==
  ASSUME TypeOK, NEW q \in Presented
  PROVE  postreg_lsu_req(q) = <<>> \/ \E r \in Requests : postreg_lsu_req(q) = <<r>>
  BY DEF TypeOK, Presented, postreg_lsu_req

(* Reset establishes the invariant.                                        *)
LEMMA InitIInv == Init => IInv
  <1> SUFFICES ASSUME Init PROVE IInv
    OBVIOUS
  <1>1. 0 \in Ids
    BY NumOutstandingAssumption DEF Ids
  <1>2. TypeOK
    <2>1. [r \in Regs \ {0} |-> 0] \in [Regs \ {0} -> Nat]
      OBVIOUS
    <2> QED
      BY <1>1, <2>1, RegsAssumption DEF Init, TypeOK
  <1> QED
    BY <1>2 DEF Init, IInv, IdsConserved, ResponsesMatched, HeldMeansFull
-------------------------------------------------------------------------------
(* What a response takes away: nothing, or a request in flight together    *)
(* with its identifier.                                                    *)
Gone(p, pid, pready) == IF id_table_pop(p, pid, pready) THEN {p[1]} ELSE {}
Freed(p, pid, pready) == IF id_table_pop(p, pid, pready) THEN {pid} ELSE {}

(* The response of a cycle as the network produces it.                     *)
Echoed(p, pid) == p = <<>> \/ \E m \in net : p = <<m>> /\ pid = m.id

(* What leaves with a response is one request in flight, and what it frees *)
(* is that request's identifier.                                           *)
LEMMA GoneInFlight ==
  ASSUME IInv, NEW p, NEW pid, NEW pready \in BOOLEAN, Echoed(p, pid)
  PROVE  \/ Gone(p, pid, pready) = {} /\ Freed(p, pid, pready) = {}
         \/ \E m \in net : Gone(p, pid, pready) = {m} /\ Freed(p, pid, pready) = {m.id}
  BY DEF Echoed, Gone, Freed, id_table_pop

(* A cycle preserves the invariant; the cases are the three things that    *)
(* can happen at the memory port: no request, one that already has its     *)
(* identifier, and a new one.                                              *)
LEMMA CycleIInv ==
  ASSUME IInv, NEW q \in Presented, NEW qready \in BOOLEAN, NEW pready \in BOOLEAN,
         NEW p, NEW pid, Echoed(p, pid), Cycle(q, qready, p, pid, pready), TypeOK'
  PROVE  IInv'
  <1> DEFINE post == postreg_lsu_req(q)
             gone == Gone(p, pid, pready)
             freed == Freed(p, pid, pready)
  <1>1. \/ gone = {} /\ freed = {}
        \/ \E m \in net : gone = {m} /\ freed = {m.id}
    BY GoneInFlight
  <1>2. /\ id_available_q' = (id_available_q \ (IF id_table_push(q) THEN {req_id} ELSE {})) \cup freed
        /\ net' = (net \ gone) \cup (IF data_qvalid(q) /\ qready
                                     THEN {[id |-> data_qid, req |-> post[1]]} ELSE {})
        /\ held' = IF postreg_lsu_req_ready(q, qready) THEN <<>> ELSE post
        /\ metadata_q' = IF id_table_push(q)
                         THEN [metadata_q EXCEPT ![req_id] = Meta(post[1])] ELSE metadata_q
        /\ handshake_pending_q' = (data_qvalid(q) /\ ~ qready)
        /\ req_id_q' = IF id_table_push(q) /\ ~ qready THEN req_id ELSE req_id_q
    BY DEF Cycle, MetadataAfter, IdsAfter, NetAfter, Gone, Freed
  <1>3. /\ net \subseteq [id : Ids, req : Requests] /\ id_available_q \subseteq Ids
        /\ req_id_q \in Ids /\ metadata_q \in [Ids -> [tag : Regs, write : BOOLEAN]]
    BY DEF IInv, TypeOK
  <1>4. IdsConserved /\ ResponsesMatched
    BY DEF IInv
  <1> HIDE DEF post, gone, freed
  <1>5. CASE ~ data_qvalid(q)
    <2>1. ~ handshake_pending_q
      BY <1>4, <1>5 DEF IdsConserved, data_qvalid, postreg_lsu_req
    <2>2. /\ id_available_q' = id_available_q \cup freed /\ net' = net \ gone
          /\ metadata_q' = metadata_q /\ handshake_pending_q' = FALSE
      BY <1>2, <1>5 DEF id_table_push
    <2>3. IdsConserved'
      BY <1>1, <1>3, <1>4, <2>1, <2>2 DEF IdsConserved
    <2>4. ResponsesMatched'
      BY <1>4, <2>2 DEF ResponsesMatched
    <2>5. held' # <<>> => id_available_q = {}
      BY <1>2, <1>5, <2>1 DEF postreg_lsu_req_ready, id_table_full
    <2>6. HeldMeansFull'
      BY <1>1, <2>2, <2>5 DEF HeldMeansFull
    <2> QED
      BY <2>3, <2>4, <2>6 DEF IInv
  <1>6. CASE data_qvalid(q) /\ handshake_pending_q
    <2>1. held # <<>> /\ post = held /\ data_qid = req_id_q
      BY <1>4, <1>6 DEF IdsConserved, postreg_lsu_req, data_qid, post
    <2>2. /\ id_available_q' = id_available_q \cup freed /\ metadata_q' = metadata_q
          /\ req_id_q' = req_id_q
      BY <1>2, <1>6 DEF id_table_push
    <2>3. CASE qready
      <3>1. /\ net' = (net \ gone) \cup {[id |-> req_id_q, req |-> held[1]]}
            /\ handshake_pending_q' = FALSE /\ held' = <<>>
        BY <1>2, <1>6, <2>1, <2>3 DEF postreg_lsu_req_ready
      <3>2. IdsConserved'
        <4>1. \A m \in net' : m \in net \ gone \/ (m.id = req_id_q /\ m = [id |-> req_id_q, req |-> held[1]])
          BY <3>1
        <4>2. \A m \in net : m.id # req_id_q
          BY <1>4, <1>6 DEF IdsConserved
        <4>3. \A m1, m2 \in net' : m1.id = m2.id => m1 = m2
          BY <1>4, <4>1, <4>2 DEF IdsConserved
        <4>4. \A i \in Ids : (\E m \in net' : m.id = i)
                              <=> (i = req_id_q \/ \E m \in net \ gone : m.id = i)
          <5>1. PICK e : net' = (net \ gone) \cup {e} /\ e.id = req_id_q
            <6>1. [id |-> req_id_q, req |-> held[1]].id = req_id_q
              OBVIOUS
            <6> QED
              BY <3>1, <6>1
          <5> QED
            BY <5>1
        <4>5. \A i \in Ids : i \in id_available_q' <=> ~ \E m \in net' : m.id = i
          BY <1>1, <1>3, <1>4, <1>6, <2>2, <4>2, <4>4 DEF IdsConserved
        <4> QED
          BY <3>1, <4>3, <4>5 DEF IdsConserved
      <3>3. ResponsesMatched'
        BY <1>4, <1>6, <2>2, <3>1 DEF ResponsesMatched
      <3> QED
        BY <3>1, <3>2, <3>3 DEF IInv, HeldMeansFull
    <2>4. CASE ~ qready
      <3>1. net' = net \ gone /\ handshake_pending_q' = TRUE /\ held' = held
        BY <1>2, <1>6, <2>1, <2>4 DEF postreg_lsu_req_ready
      <3>2. IdsConserved'
        BY <1>1, <1>3, <1>4, <1>6, <2>2, <3>1 DEF IdsConserved
      <3>3. ResponsesMatched'
        BY <1>4, <1>6, <2>2, <3>1 DEF ResponsesMatched
      <3> QED
        BY <3>1, <3>2, <3>3 DEF IInv, HeldMeansFull
    <2> QED
      BY <2>3, <2>4
  <1>7. CASE data_qvalid(q) /\ ~ handshake_pending_q
    <2>1. ~ id_table_full
      BY <1>7 DEF data_qvalid
    <2>2. req_id \in id_available_q /\ req_id \in Ids /\ data_qid = req_id
      BY <1>3, <1>7, <2>1, ReqIdFree DEF data_qid
    <2>3. /\ id_available_q' = (id_available_q \ {req_id}) \cup freed
          /\ metadata_q' = [metadata_q EXCEPT ![req_id] = Meta(post[1])]
      BY <1>2, <1>7 DEF id_table_push
    <2>4. \A m \in net : m.id # req_id
      BY <1>3, <1>4, <2>2 DEF IdsConserved
    <2>5. \A m \in net : metadata_q'[m.id] = metadata_q[m.id]
      BY <1>3, <2>3, <2>4
    <2>6. metadata_q'[req_id] = Meta(post[1])
      BY <1>3, <2>2, <2>3
    <2>7. CASE qready
      <3>1. /\ net' = (net \ gone) \cup {[id |-> req_id, req |-> post[1]]}
            /\ handshake_pending_q' = FALSE /\ held' = <<>>
        BY <1>2, <1>7, <2>1, <2>2, <2>7 DEF postreg_lsu_req_ready
      <3>2. IdsConserved'
        <4>1. \A m \in net' : m \in net \ gone \/ (m.id = req_id /\ m = [id |-> req_id, req |-> post[1]])
          BY <3>1
        <4>2. \A m1, m2 \in net' : m1.id = m2.id => m1 = m2
          BY <1>4, <2>4, <4>1 DEF IdsConserved
        <4>3. \A i \in Ids : (\E m \in net' : m.id = i)
                              <=> (i = req_id \/ \E m \in net \ gone : m.id = i)
          <5>1. PICK e : net' = (net \ gone) \cup {e} /\ e.id = req_id
            <6>1. [id |-> req_id, req |-> post[1]].id = req_id
              OBVIOUS
            <6> QED
              BY <3>1, <6>1
          <5> QED
            BY <5>1
        <4>4. \A i \in Ids : i \in id_available_q' <=> ~ \E m \in net' : m.id = i
          BY <1>1, <1>3, <1>4, <1>7, <2>2, <2>3, <2>4, <4>3 DEF IdsConserved
        <4> QED
          BY <3>1, <4>2, <4>4 DEF IdsConserved
      <3>3. ResponsesMatched'
        BY <1>4, <2>5, <2>6, <3>1 DEF ResponsesMatched
      <3> QED
        BY <3>1, <3>2, <3>3 DEF IInv, HeldMeansFull
    <2>8. CASE ~ qready
      <3>1. /\ net' = net \ gone /\ handshake_pending_q' = TRUE
            /\ held' = post /\ post # <<>> /\ req_id_q' = req_id
        BY <1>2, <1>7, <2>8 DEF postreg_lsu_req_ready, data_qvalid, id_table_push, post
      <3>2. IdsConserved'
        BY <1>1, <1>3, <1>4, <1>7, <2>2, <2>3, <2>4, <3>1 DEF IdsConserved
      <3>3. ResponsesMatched'
        BY <1>4, <2>5, <2>6, <3>1 DEF ResponsesMatched
      <3> QED
        BY <3>1, <3>2, <3>3 DEF IInv, HeldMeansFull
    <2> QED
      BY <2>7, <2>8
  <1> QED
    BY <1>5, <1>6, <1>7
-------------------------------------------------------------------------------
(* The accelerators: what an offloaded instruction and a result of theirs  *)
(* do to the count of their register.                                      *)
LEMMA OffloadsCounted ==
  ASSUME TypeOK, NEW q, NEW p, NEW pid, NEW t \in Regs \ {0},
         NEW offload \in Offloadable(q), NEW done \in Retirable(p, pid)
  PROVE  LET after == OffloadedAfter(offload, done)[t]
         IN  /\ after \in Nat /\ offloaded[t] \in Nat
             /\ t \in offload => q = <<>> /\ t \notin sb_q
             /\ t \in done => offloaded[t] > 0
             /\ t \in offload /\ t \notin done => after = offloaded[t] + 1
             /\ t \notin offload /\ t \in done => after = offloaded[t] - 1
             /\ t \notin offload /\ t \notin done => after = offloaded[t]
  <1> DEFINE n == offloaded[t]
             after == OffloadedAfter(offload, done)[t]
  <1>1. n \in Nat
    BY DEF TypeOK
  <1>2. t \in offload => q = <<>> /\ t \notin sb_q
    BY DEF Offloadable
  <1>3. t \in done => n > 0
    BY DEF Retirable
  <1>4. after = n + (IF t \in offload THEN 1 ELSE 0) - (IF t \in done THEN 1 ELSE 0)
    BY DEF OffloadedAfter
  <1> HIDE DEF n, after
  <1>5. /\ t \in offload /\ t \notin done => after = n + 1
        /\ t \notin offload /\ t \in done => after = n - 1
        /\ t \notin offload /\ t \notin done => after = n
        /\ t \in offload /\ t \in done => after = n
    <2>1. CASE t \in offload /\ t \notin done
      BY <1>1, <1>4, <2>1
    <2>2. CASE t \notin offload /\ t \in done
      BY <1>1, <1>4, <2>2
    <2>3. CASE t \notin offload /\ t \notin done
      BY <1>1, <1>4, <2>3
    <2>4. CASE t \in offload /\ t \in done
      BY <1>1, <1>4, <2>4
    <2> QED
      BY <2>1, <2>2, <2>3, <2>4
  <1>6. after \in Nat
    BY <1>1, <1>3, <1>5
  <1> QED
    BY <1>1, <1>2, <1>3, <1>5, <1>6 DEF n, after

(* A cycle keeps the types.                                                *)
LEMMA CycleTypeOK ==
  ASSUME IInv, NEW q \in Presented, NEW qready \in BOOLEAN, NEW pready \in BOOLEAN,
         NEW p, NEW pid, Echoed(p, pid), Cycle(q, qready, p, pid, pready)
  PROVE  TypeOK'
  <1> DEFINE post == postreg_lsu_req(q)
  <1>1. post = <<>> \/ \E r \in Requests : post = <<r>>
    BY PostregType DEF IInv
  <1>2. data_qvalid(q) => post[1] \in Requests
    BY <1>1 DEF data_qvalid
  <1>3. /\ net \subseteq [id : Ids, req : Requests] /\ id_available_q \subseteq Ids
        /\ req_id_q \in Ids /\ metadata_q \in [Ids -> [tag : Regs, write : BOOLEAN]]
        /\ sb_q \subseteq Regs \ {0}
    BY DEF IInv, TypeOK
  <1>4. id_table_push(q) => req_id \in Ids
    BY <1>3, ReqIdFree DEF id_table_push, data_qvalid
  <1>5. data_qvalid(q) => data_qid \in Ids
    BY <1>3, <1>4 DEF data_qid, id_table_push
  <1>6. id_table_pop(p, pid, pready) => pid \in Ids
    BY <1>3 DEF id_table_pop, Echoed
  <1>7. \A r \in Requests : r.tag \in Regs /\ Meta(r) \in [tag : Regs, write : BOOLEAN]
    BY RegsAssumption DEF Requests, Meta
  <1> HIDE DEF post
  <1>8. held' = <<>> \/ \E r \in Requests : held' = <<r>>
    BY <1>1 DEF Cycle, post
  <1>9. id_available_q' \subseteq Ids
    BY <1>3, <1>6 DEF Cycle, IdsAfter
  <1>10. metadata_q' \in [Ids -> [tag : Regs, write : BOOLEAN]]
    <2>1. CASE id_table_push(q)
      <3>1. Meta(post[1]) \in [tag : Regs, write : BOOLEAN]
        BY <1>2, <1>7, <2>1 DEF id_table_push
      <3>2. metadata_q' = [metadata_q EXCEPT ![req_id] = Meta(post[1])]
        BY <2>1 DEF Cycle, MetadataAfter, post
      <3> QED
        BY <1>3, <3>1, <3>2
    <2>2. CASE ~ id_table_push(q)
      BY <1>3, <2>2 DEF Cycle, MetadataAfter
    <2> QED
      BY <2>1, <2>2
  <1>11. handshake_pending_q' \in BOOLEAN
    BY DEF Cycle, data_qvalid
  <1>12. req_id_q' \in Ids
    BY <1>3, <1>4 DEF Cycle
  <1>13. net' \subseteq [id : Ids, req : Requests]
    BY <1>2, <1>3, <1>5 DEF Cycle, NetAfter, post
  <1>14. PICK offload \in Offloadable(q), done \in Retirable(p, pid) :
           /\ sb_q' = ScoreboardAfter(q, p, pid, pready, offload, done)
           /\ offloaded' = OffloadedAfter(offload, done)
    BY DEF Cycle
  <1>15. sb_q' \subseteq Regs \ {0}
    <2>1. q # <<>> => q[1] \in Requests
      BY DEF Presented
    <2>2. offload \subseteq Regs
      BY DEF Offloadable
    <2> QED
      BY <1>3, <1>7, <1>14, <2>1, <2>2 DEF ScoreboardAfter
  <1>16. offloaded' \in [Regs \ {0} -> Nat]
    <2>1. \A t \in Regs \ {0} : OffloadedAfter(offload, done)[t] \in Nat
      BY OffloadsCounted DEF IInv
    <2> QED
      BY <1>14, <2>1 DEF OffloadedAfter
  <1> QED
    BY <1>8, <1>9, <1>10, <1>11, <1>12, <1>13, <1>15, <1>16 DEF TypeOK

(* Every cycle is one with an echoed response, or with none.               *)
LEMMA StepIsCycle ==
  ASSUME Next
  PROVE  \E q \in Presented, qready, pready \in BOOLEAN : \E p, pid :
           Echoed(p, pid) /\ Cycle(q, qready, p, pid, pready)
  <1>1. PICK qready \in BOOLEAN : Step(qready)
    BY DEF Next
  <1>2. PICK q \in Presented : \/ Quiet(q, qready)
                               \/ \E m \in net, pready \in BOOLEAN : Response(m, q, qready, pready)
    BY <1>1, WritePortBool DEF Step
  <1>3. CASE Quiet(q, qready)
    <2>1. Echoed(<<>>, 0) /\ Cycle(q, qready, <<>>, 0, FALSE)
      BY <1>3 DEF Quiet, Echoed
    <2> QED
      BY <2>1
  <1>4. CASE \E m \in net, pready \in BOOLEAN : Response(m, q, qready, pready)
    <2>1. PICK m \in net, pready \in BOOLEAN : Response(m, q, qready, pready)
      BY <1>4
    <2>2. Echoed(<<m>>, m.id) /\ Cycle(q, qready, <<m>>, m.id, pready)
      BY <2>1 DEF Response, Echoed
    <2> QED
      BY <2>2
  <1> QED
    BY <1>2, <1>3, <1>4

(* A stuttering step changes nothing the invariant reads.                  *)
LEMMA StutterIInv ==
  ASSUME IInv, UNCHANGED vars
  PROVE  IInv'
  BY DEF vars, lsuVars, IInv, TypeOK, IdsConserved, ResponsesMatched, HeldMeansFull

(* Every step keeps the inductive invariant.                               *)
LEMMA StepIInv ==
  ASSUME IInv, [Next]_vars
  PROVE  IInv'
  <1>1. CASE Next
    BY <1>1, StepIsCycle, CycleTypeOK, CycleIInv
  <1>2. CASE UNCHANGED vars
    BY <1>2, StutterIInv
  <1> QED
    BY <1>1, <1>2

(* The inductive invariant holds in every cycle of the load/store unit.    *)
THEOREM Invariance == Spec => []IInv
  <1>1. Init => IInv
    BY InitIInv
  <1>2. IInv /\ [Next]_vars => IInv'
    BY StepIInv
  <1> QED
    BY <1>1, <1>2, PTL DEF Spec

(* The registers of the load/store unit keep their types.                  *)
THEOREM TypeCorrect == Spec => []TypeOK
  <1>1. IInv => TypeOK
    BY DEF IInv
  <1> QED
    BY <1>1, Invariance, PTL

(* However the network delays and reorders, no identifier is ever in use   *)
(* twice and none is lost (the assertions invalid_req_id, invalid_resp_id).*)
THEOREM IdentifiersConserved == Spec => []IdsConserved
  <1>1. IInv => IdsConserved
    BY DEF IInv
  <1> QED
    BY <1>1, Invariance, PTL

(* Every response finds the metadata of its own request.                   *)
THEOREM EveryResponseMatched == Spec => []ResponsesMatched
  <1>1. IInv => ResponsesMatched
    BY DEF IInv
  <1> QED
    BY <1>1, Invariance, PTL

(* With two identifiers or more, an empty table means that nothing is      *)
(* held or in flight, so FENCE is sound.                                   *)
THEOREM FenceIsSound == NumOutstandingLoads >= 2 => (Spec => []FenceSound)
  <1> SUFFICES ASSUME NumOutstandingLoads >= 2 PROVE Spec => []FenceSound
    OBVIOUS
  <1>1. IInv => FenceSound
    <2> SUFFICES ASSUME IInv, id_available_q = Ids PROVE held = <<>> /\ net = {}
      BY DEF FenceSound, lsu_empty
    <2>1. 0 \in Ids /\ 1 \in Ids
      BY NumOutstandingAssumption DEF Ids
    <2>2. ~ handshake_pending_q
      BY DEF IInv, TypeOK, IdsConserved
    <2>3. held = <<>>
      BY <2>1, <2>2 DEF IInv, HeldMeansFull
    <2>4. net = {}
      BY DEF IInv, TypeOK, IdsConserved
    <2> QED
      BY <2>3, <2>4
  <1> QED
    BY <1>1, Invariance, PTL
-------------------------------------------------------------------------------
(* Where the request behind the fall-through register goes in a cycle: to  *)
(* the network, or it is held; and nothing else gets there.                *)
LEMMA PostregMoves ==
  ASSUME IInv, NEW q \in Presented, NEW qready \in BOOLEAN, NEW pready \in BOOLEAN,
         NEW p, NEW pid, Echoed(p, pid), Cycle(q, qready, p, pid, pready)
  PROVE  LET post == postreg_lsu_req(q)
         IN  \/ /\ post # <<>> /\ held' = <<>>
                /\ \E e : e.req = post[1] /\ net' = (net \ Gone(p, pid, pready)) \cup {e}
             \/ held' = post /\ net' = net \ Gone(p, pid, pready)
  <1> DEFINE post == postreg_lsu_req(q)
             e == [id |-> data_qid, req |-> post[1]]
  <1>1. /\ held' = IF postreg_lsu_req_ready(q, qready) THEN <<>> ELSE post
        /\ net' = (net \ Gone(p, pid, pready)) \cup (IF data_qvalid(q) /\ qready THEN {e} ELSE {})
    BY DEF Cycle, NetAfter, Gone
  <1>2. e.req = post[1]
    OBVIOUS
  <1>3. data_qvalid(q) <=> post # <<>> /\ (~ id_table_full \/ handshake_pending_q)
    BY DEF data_qvalid
  <1>4. postreg_lsu_req_ready(q, qready)
          <=> ~ (data_qvalid(q) /\ ~ qready) /\ (~ id_table_full \/ handshake_pending_q)
    BY DEF postreg_lsu_req_ready
  <1> HIDE DEF e, post
  <1>5. CASE data_qvalid(q) /\ qready
    BY <1>1, <1>2, <1>3, <1>4, <1>5 DEF post
  <1>6. CASE ~ (data_qvalid(q) /\ qready)
    BY <1>1, <1>3, <1>4, <1>6 DEF post
  <1> QED
    BY <1>5, <1>6

(* Register t, as the scoreboard sees it: a load to it is in flight or     *)
(* held.                                                                   *)
Awaited(t) == \/ \E m \in net : ~ m.req.write /\ m.req.tag = t
              \/ held # <<>> /\ ~ held[1].write /\ held[1].tag = t

AwaitedRegs == {t \in Regs \ {0} : Awaited(t)}

TagsExact == sb_q = ({r.tag : r \in LoadsUnderWay} \ {0}) \cup {r \in Regs \ {0} : offloaded[r] > 0}
BusyMeansAwaited ==
  \A t \in Regs \ {0} : t \in sb_q <=> t \in AwaitedRegs \/ offloaded[t] > 0

LoadsAlone == \A r \in LoadsUnderWay : r.tag # 0 => offloaded[r.tag] = 0
NotBothAwaited == \A t \in AwaitedRegs : offloaded[t] = 0

(* Two parts of ScoreboardExact, register by register.                     *)
LEMMA ScoreboardByRegister ==
  TypeOK => (TagsExact <=> BusyMeansAwaited) /\ (LoadsAlone <=> NotBothAwaited)
  <1> SUFFICES ASSUME TypeOK
               PROVE  (TagsExact <=> BusyMeansAwaited) /\ (LoadsAlone <=> NotBothAwaited)
    OBVIOUS
  <1>1. sb_q \subseteq Regs \ {0}
    BY DEF TypeOK
  <1>2. \A r \in Requests : r.tag \in Regs
    BY RegsAssumption DEF Requests
  <1>3. \A m \in net : m.req \in Requests
    BY DEF TypeOK
  <1>4. {held[i] : i \in {j \in 1 .. Len(held) : ~ held[j].write}}
          = IF held # <<>> /\ ~ held[1].write THEN {held[1]} ELSE {}
    <2>1. CASE held = <<>>
      BY <2>1
    <2>2. CASE \E r \in Requests : held = <<r>>
      <3>1. PICK r \in Requests : held = <<r>>
        BY <2>2
      <3>2. Len(held) = 1 /\ held[1] = r
        BY <3>1
      <3>3. 1 .. 1 = {1}
        OBVIOUS
      <3> QED
        BY <3>1, <3>2, <3>3
    <2> QED
      BY <2>1, <2>2 DEF TypeOK
  <1>5. \A t : t \in {r.tag : r \in LoadsUnderWay} <=> Awaited(t)
    BY <1>4 DEF LoadsUnderWay, Awaited
  <1>6. held # <<>> => held[1].tag \in Regs
    BY <1>2 DEF TypeOK
  <1>7. \A t : Awaited(t) => t \in Regs
    BY <1>2, <1>3, <1>6 DEF Awaited
  <1>8. AwaitedRegs = {r.tag : r \in LoadsUnderWay} \ {0}
    BY <1>5, <1>7 DEF AwaitedRegs
  <1>9. TagsExact <=> BusyMeansAwaited
    BY <1>1, <1>8 DEF TagsExact, BusyMeansAwaited, AwaitedRegs
  <1>10. LoadsAlone <=> NotBothAwaited
    <2>1. LoadsAlone <=> \A t \in {r.tag : r \in LoadsUnderWay} : t # 0 => offloaded[t] = 0
      BY DEF LoadsAlone
    <2> QED
      BY <1>8, <2>1 DEF NotBothAwaited
  <1> QED
    BY <1>9, <1>10

(* A cycle keeps the scoreboard exact.  The request or the offloaded       *)
(* instruction that joins the others is one that dst_ready let through;    *)
(* what leaves is the only one that writes its register.                   *)
LEMMA CycleScoreboard ==
  ASSUME IInv, ScoreboardExact, NEW q \in Presented, NEW qready \in BOOLEAN,
         NEW pready \in BOOLEAN, NEW p, NEW pid, Echoed(p, pid),
         Cycle(q, qready, p, pid, pready), TypeOK'
  PROVE  ScoreboardExact'
  <1> DEFINE post == postreg_lsu_req(q)
             gone == Gone(p, pid, pready)
             kept == net \ gone
             new == held = <<>> /\ q # <<>>
             R == Regs \ {0}
  <1>1. TypeOK /\ ResponsesMatched
    BY DEF IInv
  <1>2. \A r \in Requests : r.tag # 0 => ~ r.write
    BY DEF Requests
  <1>3. q # <<>> => q[1] \in Requests /\ (q[1].write \/ q[1].tag \notin sb_q)
    BY DEF Presented
  <1>4. held # <<>> => held[1] \in Requests
    BY <1>1 DEF TypeOK
  <1>5. /\ \A m \in net : m.req \in Requests
        /\ \A r \in Requests : r.tag \in Regs
    BY <1>1, RegsAssumption DEF TypeOK, Requests
  <1>6. \A t \in R : /\ t \in sb_q <=> t \in AwaitedRegs \/ offloaded[t] > 0
                     /\ t \in AwaitedRegs => offloaded[t] = 0
                     /\ offloaded[t] = 0 \/ offloaded[t] = 1
    <2>1. \A t \in R : offloaded[t] \in Nat /\ offloaded[t] <= 1
      BY <1>1 DEF TypeOK, ScoreboardExact
    <2>2. TagsExact /\ LoadsAlone
      BY DEF ScoreboardExact, TagsExact, LoadsAlone
    <2>3. BusyMeansAwaited /\ NotBothAwaited
      BY <1>1, <2>2, ScoreboardByRegister
    <2> QED
      BY <2>1, <2>3 DEF BusyMeansAwaited, NotBothAwaited
  <1>7. \/ /\ post # <<>> /\ held' = <<>>
           /\ \E e : e.req = post[1] /\ net' = kept \cup {e}
        \/ held' = post /\ net' = kept
    BY PostregMoves
  <1>8. post = IF held # <<>> THEN held ELSE q
    BY DEF postreg_lsu_req
  <1> HIDE DEF post, R
  (* The register of the request that joins is not awaited.                *)
  <1>9. post # <<>> => post[1] \in Requests
    BY <1>3, <1>4, <1>8
  <1>10. post # <<>> /\ post[1].tag # 0 => \A m \in net : m.req.write \/ m.req.tag # post[1].tag
    <2>1. CASE held # <<>>
      BY <1>8, <2>1 DEF ScoreboardExact
    <2>2. CASE held = <<>> /\ q # <<>> /\ q[1].tag # 0
      <3>1. q[1].tag \in R /\ q[1].tag \notin sb_q
        BY <1>2, <1>3, <1>5, <2>2 DEF R
      <3>2. q[1].tag \notin AwaitedRegs
        BY <1>6, <3>1
      <3> QED
        BY <1>8, <2>2, <3>1, <3>2 DEF AwaitedRegs, Awaited, R
    <2> QED
      BY <1>8, <2>1, <2>2
  <1>11. \A m1, m2 \in net' : ~ m1.req.write /\ ~ m2.req.write /\ m1.req.tag = m2.req.tag
                                /\ m1.req.tag # 0 => m1 = m2
    BY <1>7, <1>10 DEF ScoreboardExact
  <1>12. held' # <<>> /\ held'[1].tag # 0 => \A m \in net' : m.req.write \/ m.req.tag # held'[1].tag
    BY <1>7, <1>10
  (* The scoreboard, register by register.                                 *)
  <1>13. \A t \in R : Awaited(t)' <=> \/ \E m \in kept : ~ m.req.write /\ m.req.tag = t
                                      \/ post # <<>> /\ ~ post[1].write /\ post[1].tag = t
    BY <1>7 DEF Awaited
  <1>14. PICK offload \in Offloadable(q), done \in Retirable(p, pid) :
           /\ sb_q' = ScoreboardAfter(q, p, pid, pready, offload, done)
           /\ offloaded' = OffloadedAfter(offload, done)
    BY DEF Cycle
  <1>15. \A t \in R :
           (id_table_pop(p, pid, pready) /\ ~ metadata_q[pid].write /\ metadata_q[pid].tag = t)
             <=> \E m \in gone : ~ m.req.write /\ m.req.tag = t
    <2>1. CASE id_table_pop(p, pid, pready)
      <3>1. PICK m \in net : p = <<m>> /\ pid = m.id
        BY <2>1 DEF id_table_pop, Echoed
      <3>2. gone = {m} /\ metadata_q[pid] = Meta(m.req)
        BY <1>1, <2>1, <3>1 DEF Gone, ResponsesMatched
      <3>3. metadata_q[pid].write = m.req.write /\ metadata_q[pid].tag = m.req.tag
        BY <3>2 DEF Meta
      <3> QED
        BY <2>1, <3>2, <3>3
    <2>2. CASE ~ id_table_pop(p, pid, pready)
      BY <2>2 DEF Gone
    <2> QED
      BY <2>1, <2>2
  <1>16. gone \subseteq net
    BY GoneInFlight
  <1> HIDE DEF gone
  <1> DEFINE retired == {t \in R : \E m \in gone : ~ m.req.write /\ m.req.tag = t}
             issued == {t \in R : new /\ ~ q[1].write /\ q[1].tag = t}
  <1>17. \A t \in R : t \in sb_q' <=>
           ((t \in sb_q /\ t \notin retired) \/ t \in issued \/ t \in offload) /\ t \notin done
    BY <1>14, <1>15 DEF ScoreboardAfter, lsu_qready, R
  <1>18. \A t \in R :
           t \in AwaitedRegs' <=> (t \in AwaitedRegs /\ t \notin retired) \/ t \in issued
    <2> SUFFICES ASSUME NEW t \in R
                 PROVE  t \in AwaitedRegs' <=> (t \in AwaitedRegs /\ t \notin retired) \/ t \in issued
      OBVIOUS
    <2>1. t \in AwaitedRegs' <=> \/ \E m \in kept : ~ m.req.write /\ m.req.tag = t
                                 \/ post # <<>> /\ ~ post[1].write /\ post[1].tag = t
      BY <1>13 DEF AwaitedRegs, R
    <2>2. CASE t \in retired
      <3>1. PICK m \in gone : ~ m.req.write /\ m.req.tag = t
        BY <2>2
      <3>2. \A k \in kept : k.req.write \/ k.req.tag # t
        BY <1>16, <3>1 DEF ScoreboardExact, R
      <3>3. post # <<>> => post[1].tag # t
        BY <1>10, <1>16, <3>1 DEF R
      <3>4. new => q[1].tag # t
        BY <1>8, <3>3
      <3> QED
        BY <2>1, <2>2, <3>2, <3>3, <3>4
    <2>3. CASE t \notin retired
      <3>1. (\E m \in kept : ~ m.req.write /\ m.req.tag = t)
              <=> \E m \in net : ~ m.req.write /\ m.req.tag = t
        BY <2>3
      <3> QED
        BY <1>8, <2>1, <2>3, <3>1 DEF AwaitedRegs, Awaited, R
    <2> QED
      BY <2>2, <2>3
  <1>19. \A t \in R : /\ t \in retired => t \in AwaitedRegs
                      /\ t \in issued => t \notin sb_q /\ q # <<>>
    BY <1>3, <1>16 DEF AwaitedRegs, Awaited, R
  <1> HIDE DEF retired, issued
  <1>20. \A t \in R :
           /\ t \in sb_q' <=> t \in AwaitedRegs' \/ offloaded'[t] > 0
           /\ t \in AwaitedRegs' => offloaded'[t] = 0
           /\ offloaded'[t] <= 1
    <2> SUFFICES ASSUME NEW t \in R
                 PROVE  /\ t \in sb_q' <=> t \in AwaitedRegs' \/ offloaded'[t] > 0
                        /\ t \in AwaitedRegs' => offloaded'[t] = 0
                        /\ offloaded'[t] <= 1
      OBVIOUS
    <2>1. /\ t \in offload => q = <<>> /\ t \notin sb_q
          /\ t \in done => offloaded[t] > 0
          /\ t \in offload /\ t \notin done => offloaded'[t] = offloaded[t] + 1
          /\ t \notin offload /\ t \in done => offloaded'[t] = offloaded[t] - 1
          /\ t \notin offload /\ t \notin done => offloaded'[t] = offloaded[t]
      BY <1>1, <1>14, OffloadsCounted DEF R
    <2>2. /\ t \in sb_q <=> t \in AwaitedRegs \/ offloaded[t] > 0
          /\ t \in AwaitedRegs => offloaded[t] = 0
          /\ offloaded[t] = 0 \/ offloaded[t] = 1
      BY <1>6
    <2>3. /\ t \in sb_q' <=> ((t \in sb_q /\ t \notin retired) \/ t \in issued \/ t \in offload)
                              /\ t \notin done
          /\ t \in AwaitedRegs' <=> (t \in AwaitedRegs /\ t \notin retired) \/ t \in issued
          /\ t \in retired => t \in AwaitedRegs
          /\ t \in issued => t \notin sb_q /\ q # <<>>
      BY <1>17, <1>18, <1>19
    <2>4. CASE t \in offload
      <3>1. offloaded[t] = 0 /\ t \notin AwaitedRegs /\ t \notin issued /\ t \notin done
        BY <2>1, <2>2, <2>3, <2>4
      <3> QED
        BY <2>1, <2>3, <2>4, <3>1
    <2>5. CASE t \in done /\ t \notin offload
      <3>1. offloaded[t] = 1 /\ t \notin AwaitedRegs /\ t \notin issued
        BY <2>1, <2>2, <2>3, <2>5
      <3> QED
        BY <2>1, <2>3, <2>5, <3>1
    <2>6. CASE t \notin offload /\ t \notin done
      BY <2>1, <2>2, <2>3, <2>6
    <2> QED
      BY <2>4, <2>5, <2>6
  <1>21. BusyMeansAwaited' /\ NotBothAwaited'
    <2>1. BusyMeansAwaited'
      BY <1>20 DEF BusyMeansAwaited, R
    <2>2. AwaitedRegs' \subseteq R
      BY DEF AwaitedRegs, R
    <2>3. NotBothAwaited'
      BY <1>20, <2>2 DEF NotBothAwaited
    <2> QED
      BY <2>1, <2>3
  <1>22. TagsExact' /\ LoadsAlone'
    BY <1>21, ScoreboardByRegister, PTL
  <1> QED
    BY <1>11, <1>12, <1>20, <1>22 DEF ScoreboardExact, TagsExact, LoadsAlone, R

(* Whatever order responses and results come in, a register is marked busy *)
(* exactly while the one load or offloaded instruction that writes it is   *)
(* under way: nothing late overwrites a newer value.                       *)
THEOREM ScoreboardIsExact == Spec => []ScoreboardExact
  <1>1. Init => ScoreboardExact
    BY DEF Init, ScoreboardExact, LoadsUnderWay
  <1>2. IInv /\ IInv' /\ ScoreboardExact /\ [Next]_vars => ScoreboardExact'
    <2> SUFFICES ASSUME IInv, IInv', ScoreboardExact, [Next]_vars PROVE ScoreboardExact'
      OBVIOUS
    <2>1. CASE Next
      <3>1. TypeOK'
        BY DEF IInv
      <3> QED
        BY <2>1, <3>1, StepIsCycle, CycleScoreboard
    <2>2. CASE UNCHANGED vars
      BY <2>2 DEF vars, lsuVars, ScoreboardExact, LoadsUnderWay
    <2> QED
      BY <2>1, <2>2
  <1> QED
    BY <1>1, <1>2, Invariance, PTL DEF Spec

(* The handshake of the memory port: a request that was not taken stays as *)
(* it is, identifier included, while identifiers come back around it.      *)
THEOREM RequestsStable == Spec => RequestStable
  <1>1. IInv /\ [Next]_vars
          => [handshake_pending_q /\ handshake_pending_q' => held' = held /\ data_qid' = data_qid]_vars
    <2> SUFFICES ASSUME IInv, Next, handshake_pending_q, handshake_pending_q'
                 PROVE  held' = held /\ data_qid' = data_qid
      OBVIOUS
    <2>1. PICK q \in Presented, qready, pready \in BOOLEAN : \E p, pid :
            Echoed(p, pid) /\ Cycle(q, qready, p, pid, pready)
      BY StepIsCycle
    <2>2. PICK p, pid : Cycle(q, qready, p, pid, pready)
      BY <2>1
    <2>3. postreg_lsu_req(q) = held
      BY DEF IInv, IdsConserved, postreg_lsu_req
    <2>4. data_qvalid(q) /\ ~ qready
      BY <2>2 DEF Cycle
    <2>5. held' = held
      BY <2>2, <2>3, <2>4 DEF Cycle, postreg_lsu_req_ready
    <2>6. req_id_q' = req_id_q
      BY <2>2 DEF Cycle, id_table_push
    <2> QED
      BY <2>5, <2>6 DEF data_qid
  <1> QED
    BY <1>1, Invariance, PTL DEF Spec, RequestStable
===============================================================================
