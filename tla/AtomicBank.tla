------------------------------ MODULE AtomicBank ------------------------------
(***************************************************************************)
(* What one L1 bank behind its tcdm_adapter promises to the harts that use *)
(* it: every request that is taken acts on the memory in one indivisible   *)
(* step, the answers leave in the order in which the requests were taken,  *)
(* each with the identity of its own requester, and a store-conditional    *)
(* succeeds only while the hart's load-reserved is still unbroken.  The    *)
(* SC may also fail for no reason, as the RISC-V A extension allows.       *)
(***************************************************************************)
EXTENDS Sequences, Naturals

CONSTANTS Word, Addr, X, Requests,
          AmoValue(_, _, _),   \* AmoValue(op, old, operand): the value an AMO leaves
          Merge(_, _, _),      \* Merge(old, new, be): old with the enabled bytes of new
          Hart(_)              \* the hart or device behind a request's metadata

VARIABLES mem,    \* the words of the bank
          resp,   \* answers <<metadata, data>> not yet taken, oldest first
          link,   \* per hart: the address of its unbroken load-reserved, or X
          atomic  \* <<operation, address, operand>> of the atomic just taken, or <<>>

vars == <<mem, resp, link, atomic>>

Init == /\ mem = [a \in Addr |-> X]
        /\ resp = <<>>
        /\ link = [h \in {Hart(r.meta) : r \in Requests} |-> X]
        /\ atomic = <<>>

(* A write by hart w to address a breaks every other hart's reservation of a. *)
Broken(w, a) == [h \in DOMAIN link |->
                   IF h # w /\ link[h] = a THEN X ELSE link[h]]

Store(r) == /\ r.write
            /\ mem' = [mem EXCEPT ![r.addr] = Merge(@, r.wdata, r.be)]
            /\ link' = Broken(Hart(r.meta), r.addr)

Load(r) == /\ ~ r.write
           /\ r.amo = "None"
           /\ UNCHANGED <<mem, link>>

LoadReserved(r) == /\ r.amo = "LR"
                   /\ link' = [link EXCEPT ![Hart(r.meta)] = r.addr]
                   /\ UNCHANGED mem

StoreConditional(r) ==
  /\ r.amo = "SC"
  /\ link[Hart(r.meta)] = r.addr
  /\ mem' = [mem EXCEPT ![r.addr] = Merge(@, r.wdata, r.be)]
  /\ link' = [Broken(Hart(r.meta), r.addr) EXCEPT ![Hart(r.meta)] = X]

StoreConditionalFails(r) == /\ r.amo = "SC"
                            /\ link' = [link EXCEPT ![Hart(r.meta)] = X]
                            /\ UNCHANGED mem

Amo(r) ==
  /\ r.amo \notin {"None", "LR", "SC"}
  /\ mem' = [mem EXCEPT ![r.addr] = AmoValue(r.amo, @, r.wdata)]
  /\ link' = Broken(Hart(r.meta), r.addr)

(* The step a request takes and the data its answer carries: the old word  *)
(* for whatever reads, 0 or 1 for an SC, nothing meaningful for a store.   *)
Serve(r, data) ==
  \/ Store(r)                 /\ data = X
  \/ Load(r)                  /\ data = mem[r.addr]
  \/ LoadReserved(r)          /\ data = mem[r.addr]
  \/ Amo(r)                   /\ data = mem[r.addr]
  \/ StoreConditional(r)      /\ data = 0
  \/ StoreConditionalFails(r) /\ data = 1

(* In one step the oldest answer may leave and one request may be taken.   *)
Remaining == {resp} \cup (IF resp = <<>> THEN {} ELSE {Tail(resp)})

Atomic(r) == IF r.amo \in {"None", "LR", "SC"} THEN <<>> ELSE <<r.amo, r.addr, r.wdata>>

Next == \E rest \in Remaining :
          \/ resp' = rest /\ atomic' = <<>> /\ UNCHANGED <<mem, link>>
          \/ \E r \in Requests, data \in Word \cup {X} :
               /\ Serve(r, data)
               /\ atomic' = Atomic(r)
               /\ resp' = Append(rest, <<r.meta, data>>)

Spec == Init /\ [][Next]_vars
===============================================================================
