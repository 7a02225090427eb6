------------------------------ MODULE SnitchLsu ------------------------------
(***************************************************************************)
(* hardware/deps/snitch/src/snitch_lsu.sv with the scoreboard of snitch.sv *)
(* in front of it: a core's load/store unit, which tags every request with *)
(* an identifier and accepts the responses in any order.  The scoreboard   *)
(* also waits for the instructions offloaded to the accelerators (IPU, FP  *)
(* subsystem, shared divider).  One step of Next is one clock cycle.       *)
(***************************************************************************)
EXTENDS Integers, Sequences

CONSTANTS NumOutstandingLoads,
          RegNrWritePorts,   \* write ports of the register file, 2 in MemPool
          Regs,          \* destination registers, 0 among them
          Addr           \* addresses the core accesses

ASSUME NumOutstandingAssumption == NumOutstandingLoads \in Nat \ {0}
ASSUME WritePortsAssumption == RegNrWritePorts \in {1, 2}
ASSUME RegsAssumption == 0 \in Regs

Ids == 0 .. NumOutstandingLoads - 1

(* A load carries its destination register; a store has none.              *)
Requests == [tag : Regs, write : {FALSE}, addr : Addr] \cup [tag : {0}, write : {TRUE}, addr : Addr]

Meta(r) == [tag |-> r.tag, write |-> r.write]

VARIABLES
  sb_q,                  \* snitch.sv: registers waiting for a load or an accelerator
  offloaded,             \* external: unfinished offloaded instructions per register
  held,                  \* i_tcdm_master_resp_register: at most one request
  id_available_q,        \* the free identifiers
  metadata_q,            \* what each identifier was last used for
  handshake_pending_q, req_id_q,
  net                    \* external: requests accepted downstream, not yet answered

lsuVars == <<held, id_available_q, metadata_q, handshake_pending_q, req_id_q>>
vars == <<sb_q, offloaded, lsuVars, net>>

Init ==
  /\ sb_q = {}
  /\ offloaded = [r \in Regs \ {0} |-> 0]
  /\ held = <<>>
  /\ id_available_q = Ids
  /\ metadata_q = [i \in Ids |-> [tag |-> 0, write |-> FALSE]]
  /\ handshake_pending_q = FALSE
  /\ req_id_q = 0
  /\ net = {}

-------------------------------------------------------------------------------
(* Combinational signals; q is the request the core presents, an empty or  *)
(* a one-element sequence.                                                 *)

lsu_emptyAny == id_available_q # {}                            \* mutant: | for &

lsu_empty == id_available_q = Ids
id_table_full == id_available_q = {}

req_id == CHOOSE i \in id_available_q : \A j \in id_available_q : i <= j   \* lzc

postreg_lsu_reqNewest(q) == IF q # <<>> THEN q ELSE held       \* mutant: wrong priority

postreg_lsu_req(q) == IF held # <<>> THEN held ELSE q

data_qvalid(q) == postreg_lsu_req(q) # <<>> /\ (~ id_table_full \/ handshake_pending_q)

data_qid == IF handshake_pending_q THEN req_id_q ELSE req_id

id_table_pushAgain(q) == data_qvalid(q)                        \* mutant: push every cycle

id_table_push(q) == data_qvalid(q) /\ ~ handshake_pending_q

postreg_lsu_req_ready(q, qready) ==
  ~ (data_qvalid(q) /\ ~ qready) /\ (~ id_table_full \/ handshake_pending_q)

(* The core presents a memory access only when its destination register is *)
(* not waiting for a load or an accelerator.                               *)
Presented == {<<>>} \cup {<<r>> : r \in {s \in Requests : s.write \/ s.tag \notin sb_q}}

lsu_qready == held = <<>>

(* An instruction is a memory access or one for an accelerator, never      *)
(* both; the same dst_ready holds an offloaded one back.  x0 is never      *)
(* marked, so an offloaded instruction without a result leaves no trace.   *)
OffloadableIgnoringSb(q) ==                                    \* mutant: no dst_ready
  {{}} \cup {{r} : r \in IF q = <<>> THEN Regs \ {0} ELSE {}}

Offloadable(q) == {{}} \cup {{r} : r \in IF q = <<>> THEN (Regs \ {0}) \ sb_q ELSE {}}

(* An accelerator returns the register it was given, in any order.  With   *)
(* one write port a load goes first.                                       *)
Retirable(p, pid) ==
  {{}} \cup {{r} : r \in {s \in Regs \ {0} :
                          /\ offloaded[s] > 0
                          /\ RegNrWritePorts = 2 \/ p = <<>> \/ metadata_q[pid].write}}

(* lsu_pready: with two write ports the load's own is always free.         *)
WritePortFree == IF RegNrWritePorts = 2 THEN {TRUE} ELSE BOOLEAN

-------------------------------------------------------------------------------
(* One cycle: the core presents q, qready is data_qready_i; p is the       *)
(* in-flight request whose response arrives, if any, carrying identifier   *)
(* pid, and pready says that the core's write port is free for it.         *)

data_preadyLoadsOnly(pid, pready) == pready /\ ~ metadata_q[pid].write  \* mutant

data_pready(pid, pready) == pready \/ metadata_q[pid].write

id_table_pop(p, pid, pready) == p # <<>> /\ data_pready(pid, pready)

ScoreboardAfterWithX0(q, p, pid, pready, offload, done) ==     \* mutant: no sb_d[0] = 0
  LET retired == IF id_table_pop(p, pid, pready) /\ ~ metadata_q[pid].write
                 THEN {metadata_q[pid].tag} ELSE {}
      issued == IF q # <<>> /\ lsu_qready /\ ~ q[1].write THEN {q[1].tag} ELSE {}
  IN  ((sb_q \ retired) \cup issued \cup offload) \ done

(* sb_d: a load retires, a load or an offloaded instruction is issued, an  *)
(* accelerator's result retires, in this order.                            *)
ScoreboardAfter(q, p, pid, pready, offload, done) ==
  LET retired == IF id_table_pop(p, pid, pready) /\ ~ metadata_q[pid].write
                 THEN {metadata_q[pid].tag} ELSE {}
      issued == IF q # <<>> /\ lsu_qready /\ ~ q[1].write THEN {q[1].tag} ELSE {}
  IN  ((sb_q \ retired) \cup issued \cup offload) \ (done \cup {0})

OffloadedAfter(offload, done) ==
  [r \in Regs \ {0} |-> offloaded[r] + (IF r \in offload THEN 1 ELSE 0)
                                     - (IF r \in done THEN 1 ELSE 0)]

IdsAfter(q, p, pid, pready) ==
  (id_available_q \ (IF id_table_push(q) THEN {req_id} ELSE {}))
     \cup (IF id_table_pop(p, pid, pready) THEN {pid} ELSE {})

NetAfter(q, qready, p, pid, pready) ==
  (net \ (IF id_table_pop(p, pid, pready) THEN {p[1]} ELSE {}))
     \cup (IF data_qvalid(q) /\ qready THEN {[id |-> data_qid, req |-> postreg_lsu_req(q)[1]]} ELSE {})

MetadataAfterNewest(q) ==                                      \* mutant: before the register
  IF id_table_push(q) /\ q # <<>> THEN [metadata_q EXCEPT ![req_id] = Meta(q[1])] ELSE metadata_q

MetadataAfter(q) ==
  IF id_table_push(q) THEN [metadata_q EXCEPT ![req_id] = Meta(postreg_lsu_req(q)[1])] ELSE metadata_q

Cycle(q, qready, p, pid, pready) ==
  /\ \E offload \in Offloadable(q), done \in Retirable(p, pid) :
       /\ sb_q' = ScoreboardAfter(q, p, pid, pready, offload, done)
       /\ offloaded' = OffloadedAfter(offload, done)
  /\ held' = IF postreg_lsu_req_ready(q, qready) THEN <<>> ELSE postreg_lsu_req(q)
  /\ id_available_q' = IdsAfter(q, p, pid, pready)
  /\ metadata_q' = MetadataAfter(q)
  /\ handshake_pending_q' = (data_qvalid(q) /\ ~ qready)
  /\ req_id_q' = IF id_table_push(q) /\ ~ qready THEN req_id ELSE req_id_q
  /\ net' = NetAfter(q, qready, p, pid, pready)

(* A cycle in which no response arrives.                                   *)
Quiet(q, qready) == Cycle(q, qready, <<>>, 0, FALSE)

(* A cycle in which the response to m arrives; the network echoes the      *)
(* identifier it was given.                                                *)
Response(m, q, qready, pready) == Cycle(q, qready, <<m>>, m.id, pready)

Step(qready) == \E q \in Presented :
                  \/ Quiet(q, qready)
                  \/ \E m \in net, pready \in WritePortFree : Response(m, q, qready, pready)

Next == \E qready \in BOOLEAN : Step(qready)

Spec == Init /\ [][Next]_vars

-------------------------------------------------------------------------------
(* Types of the registers.                                                 *)
TypeOK ==
  /\ sb_q \subseteq Regs \ {0}
  /\ offloaded \in [Regs \ {0} -> Nat]
  /\ held = <<>> \/ \E r \in Requests : held = <<r>>
  /\ id_available_q \subseteq Ids
  /\ metadata_q \in [Ids -> [tag : Regs, write : BOOLEAN]]
  /\ handshake_pending_q \in BOOLEAN
  /\ req_id_q \in Ids
  /\ net \subseteq [id : Ids, req : Requests]

(* invalid_req_id and invalid_resp_id (snitch_lsu.sv:273-281) and what     *)
(* they are for: an identifier is taken exactly while one request, in      *)
(* flight or waiting for its handshake, uses it, so none is given out      *)
(* twice and none is lost.                                                 *)
IdsConserved ==
  /\ \A m1, m2 \in net : m1.id = m2.id => m1 = m2
  /\ handshake_pending_q => held # <<>> /\ \A m \in net : m.id # req_id_q
  /\ \A i \in Ids : i \in id_available_q <=> /\ ~ \E m \in net : m.id = i
                                            /\ ~ (handshake_pending_q /\ req_id_q = i)

(* Whatever the order of the responses, each one finds the destination     *)
(* register and the kind of its own request in the identifier table.       *)
ResponsesMatched ==
  /\ \A m \in net : metadata_q[m.id] = Meta(m.req)
  /\ handshake_pending_q => metadata_q[req_id_q] = Meta(held[1])

(* The loads between core and memory.                                      *)
LoadsUnderWay == {m.req : m \in {k \in net : ~ k.req.write}} \cup
                 {held[i] : i \in {j \in 1 .. Len(held) : ~ held[j].write}}

(* A register is marked busy exactly while one load or one offloaded       *)
(* instruction is to write it, and never two of them together, so no late  *)
(* response and no late result can overwrite a newer value.                *)
ScoreboardExact ==
  /\ sb_q = ({r.tag : r \in LoadsUnderWay} \ {0}) \cup {r \in Regs \ {0} : offloaded[r] > 0}
  /\ \A r \in Regs \ {0} : offloaded[r] <= 1
  /\ \A r \in LoadsUnderWay : r.tag # 0 => offloaded[r.tag] = 0
  /\ \A m1, m2 \in net :
       ~ m1.req.write /\ ~ m2.req.write /\ m1.req.tag = m2.req.tag /\ m1.req.tag # 0 => m1 = m2
  /\ held # <<>> /\ held[1].tag # 0 => \A m \in net : m.req.write \/ m.req.tag # held[1].tag

(* "No pending requests if all IDs are available" (snitch_lsu.sv:143): a   *)
(* FENCE, which stalls until lsu_empty (snitch.sv:669-673), lets the core  *)
(* go on only when every access before it has been answered.               *)
FenceSound == lsu_empty => held = <<>> /\ net = {}

(* While the network does not take a request, the request stays as it is.  *)
RequestStable ==
  [][handshake_pending_q /\ handshake_pending_q' => held' = held /\ data_qid' = data_qid]_vars
===============================================================================
