------------------------------- MODULE TcdmShim -------------------------------
(***************************************************************************)
(* hardware/src/tcdm_shim.sv and snitch_addr_demux.sv behind a core's      *)
(* load/store unit: requests go to the local banks, to remote tiles or to  *)
(* the SoC by address.  The banks return the identifier of a request, the  *)
(* SoC port does not: the shim keeps the identifiers of its reads and of   *)
(* its writes in two FIFOs.                                                *)
(***************************************************************************)
EXTENDS SnitchLsu

CONSTANT AddressMap      \* rules [match |-> set of addresses, slave |-> output], first wins

Outputs == {"TCDM_EXTERNAL", "TCDM_LOCAL", "SOC"}

ASSUME AddressMapType ==
  AddressMap \in Seq([match : SUBSET Addr, slave : Outputs])

VARIABLES meta_read, meta_write,   \* identifiers of the SoC reads and writes
          soc_r, soc_w             \* external: what the AXI port has not answered, in order

shimVars == <<vars, meta_read, meta_write, soc_r, soc_w>>

(* The first rule that matches decides; without one the demultiplexer      *)
(* selects output 0.                                                       *)
SlaveSelect(a) ==
  LET matching == {i \in 1 .. Len(AddressMap) : a \in AddressMap[i].match}
  IN  IF matching = {} THEN "TCDM_EXTERNAL"
      ELSE AddressMap[CHOOSE i \in matching : \A j \in matching : i <= j].slave

ToSoc(m) == SlaveSelect(m.req.addr) = "SOC"

PushShallow(fifo, x) ==                     \* mutant: one place too few
  IF Len(fifo) < NumOutstandingLoads - 1 THEN Append(fifo, x) ELSE fifo

(* fifo_v3 of depth NumOutstandingLoads drops a push when it is full.      *)
Push(fifo, x) == IF Len(fifo) < NumOutstandingLoads THEN Append(fifo, x) ELSE fifo

(* What the request of this cycle adds to the queues of its kind.          *)
SocEnqueue(q, qready, readIds, writeIds, reads, writes) ==
  LET m == [id |-> data_qid, req |-> postreg_lsu_req(q)[1]]
      sent == data_qvalid(q) /\ qready /\ ToSoc(m)
  IN  /\ meta_read' = IF sent /\ ~ m.req.write THEN Push(readIds, m.id) ELSE readIds
      /\ meta_write' = IF sent /\ m.req.write THEN Push(writeIds, m.id) ELSE writeIds
      /\ soc_r' = IF sent /\ ~ m.req.write THEN Append(reads, m) ELSE reads
      /\ soc_w' = IF sent /\ m.req.write THEN Append(writes, m) ELSE writes

SocIdReadFirst(write) == Head(IF meta_read # <<>> THEN meta_read ELSE meta_write)  \* mutant

(* The identifier the shim attaches to a SoC response.                     *)
SocId(write) == Head(IF write THEN meta_write ELSE meta_read)

-------------------------------------------------------------------------------
ShimInit == /\ Init
            /\ meta_read = <<>> /\ meta_write = <<>>
            /\ soc_r = <<>> /\ soc_w = <<>>

ShimQuiet(q, qready) ==
  /\ Quiet(q, qready)
  /\ SocEnqueue(q, qready, meta_read, meta_write, soc_r, soc_w)

(* A bank, local or remote, answers with the identifier it was given.      *)
TcdmResponse(m, q, qready, pready) ==
  /\ ~ ToSoc(m)
  /\ Response(m, q, qready, pready)
  /\ SocEnqueue(q, qready, meta_read, meta_write, soc_r, soc_w)

(* The SoC answers its oldest read; R and B are separate AXI channels.     *)
SocReadResponse(q, qready, pready) ==
  /\ soc_r # <<>> /\ meta_read # <<>>
  /\ LET pid == SocId(FALSE)
         pop == id_table_pop(<<Head(soc_r)>>, pid, pready)
     IN  /\ Cycle(q, qready, <<Head(soc_r)>>, pid, pready)
         /\ SocEnqueue(q, qready, IF pop THEN Tail(meta_read) ELSE meta_read, meta_write,
                                  IF pop THEN Tail(soc_r) ELSE soc_r, soc_w)

SocWriteResponse(q, qready, pready) ==
  /\ soc_w # <<>> /\ meta_write # <<>>
  /\ LET pid == SocId(TRUE)
         pop == id_table_pop(<<Head(soc_w)>>, pid, pready)
     IN  /\ Cycle(q, qready, <<Head(soc_w)>>, pid, pready)
         /\ SocEnqueue(q, qready, meta_read, IF pop THEN Tail(meta_write) ELSE meta_write,
                                  soc_r, IF pop THEN Tail(soc_w) ELSE soc_w)

ShimStep(qready) ==
  \E q \in Presented :
    \/ ShimQuiet(q, qready)
    \/ \E pready \in WritePortFree :
         \/ \E m \in net : TcdmResponse(m, q, qready, pready)
         \/ SocReadResponse(q, qready, pready)
         \/ SocWriteResponse(q, qready, pready)

ShimNext == \E qready \in BOOLEAN : ShimStep(qready)

ShimSpec == ShimInit /\ [][ShimNext]_shimVars

(* The arbiters of the responses have fixed priorities: the outputs of the *)
(* demultiplexer in the order of its inputs, and at the SoC port reads     *)
(* before writes.                                                          *)
Rank(m) ==
  LET o == SlaveSelect(m.req.addr)
  IN  CASE o = "TCDM_EXTERNAL"       -> 0
        [] o = "TCDM_LOCAL"          -> 1
        [] o = "SOC" /\ ~ m.req.write -> 2
        [] o = "SOC" /\ m.req.write   -> 3

(* A cycle in which the arbiters prefer an answer to those of rank r.      *)
Outranked(r) == \E m \in net \ net' : Rank(m) < r

(* From some cycle on, every cycle in which something happens is such one. *)
Starved(r) == <>[][Outranked(r)]_shimVars /\ []<><<Outranked(r)>>_shimVars

BankAnswers(i, r) ==
  \E m \in {k \in net : k.id = i /\ Rank(k) = r} :
    \E q \in Presented, qready \in BOOLEAN : TcdmResponse(m, q, qready, TRUE)

(* The banks and the SoC take a waiting request in the end, and each of    *)
(* them answers what it took.  With its two write ports the core takes a   *)
(* response in every cycle, so an answer comes through unless the arbiters *)
(* always have a better one.                                               *)
ShimFairSpec ==
  /\ ShimSpec
  /\ WF_shimVars(ShimStep(TRUE))
  /\ \A i \in Ids : WF_shimVars(BankAnswers(i, 0))
  /\ Starved(1) \/ \A i \in Ids : WF_shimVars(BankAnswers(i, 1))
  /\ \/ Starved(2)
     \/ WF_shimVars(\E q \in Presented, qready \in BOOLEAN : SocReadResponse(q, qready, TRUE))
  /\ \/ Starved(3)
     \/ WF_shimVars(\E q \in Presented, qready \in BOOLEAN : SocWriteResponse(q, qready, TRUE))

-------------------------------------------------------------------------------
(* The load/store unit may treat banks and SoC alike: the shim is one of   *)
(* the networks that module SnitchLsu allows, which return every response  *)
(* exactly once, in any order, with the identifier of its own request.     *)
ShimIsNetwork == Spec

(* The FIFOs hold the identifiers of exactly the SoC reads and writes that *)
(* are unanswered, in order, though nobody looks at their full flag.       *)
SocIdsInOrder ==
  /\ meta_read = [i \in 1 .. Len(soc_r) |-> soc_r[i].id]
  /\ meta_write = [i \in 1 .. Len(soc_w) |-> soc_w[i].id]

(* A cycle in which the core gets an answer and one more request of it is  *)
(* taken, neither of them a write to the SoC.                              *)
Saturated == /\ \E m \in net \ net' : ~ (ToSoc(m) /\ m.req.write)
             /\ \E m \in net' \ net : ~ (ToSoc(m) /\ m.req.write)

(* Every identifier that is in use becomes free again.  The fixed priority *)
(* of the response arbiters endangers this in one way only: the core gets  *)
(* one access through and one answer back in every cycle, for ever, from   *)
(* the banks and the reads of the SoC, which outrank its writes.           *)
IdsRecycled ==
  \/ \A i \in Ids : i \notin id_available_q ~> i \in id_available_q
  \/ <>[][Saturated]_shimVars /\ []<><<Saturated>>_shimVars
===============================================================================
