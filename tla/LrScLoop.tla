------------------------------ MODULE LrScLoop ------------------------------
(***************************************************************************)
(* The users of a bank.  Either the requesters outside of Looping present  *)
(* whatever they like, or the harts of Looping run LR/SC loops: each       *)
(* issues a load-reserved, waits for its answer, issues the store-         *)
(* conditional and starts over.  A hart of Abandoning may leave its loop   *)
(* once it has read the word, as a compare-and-swap does when the          *)
(* comparison fails.                                                       *)
(***************************************************************************)
EXTENDS TcdmAdapter

CONSTANTS Looping, Abandoning

ASSUME LoopingType == /\ Abandoning \subseteq Looping /\ Looping \subseteq Meta
                      /\ Looping # {} => Abandoning # Looping

VARIABLE pc      \* per looping hart: "free" of loops, "lr", "lrWait", "sc", "scWait" or "left"

loopVars == <<vars, pc>>

InLoops == \E m \in Looping : pc[m] # "free"

LoopInit == Init /\ \E start \in {"free", "lr"} : pc = [m \in Looping |-> start]

(* A cycle of the bank with requesters that are not in loops.              *)
FreeCycle(ready) ==
  /\ ~ InLoops
  /\ \/ \E r \in Requests : r.meta \notin Looping /\ Accept(r, ready)
     \/ NoRequest(ready)
     \/ CommitAmo(ready)
  /\ UNCHANGED pc

(* What the hart that gets an answer does next.                            *)
Resumes(m) == CASE pc[m] = "scWait" -> {"lr"}
                [] m \in Abandoning -> {"sc", "left"}
                [] OTHER            -> {"sc"}

(* The program counters once the answer that leaves in this cycle, if any, *)
(* has reached its hart.                                                   *)
Delivered(ready) ==
  IF ready /\ in_valid_o
    THEN {[pc EXCEPT ![Head(meta_q)] = to] : to \in Resumes(Head(meta_q))}
    ELSE {pc}

(* A cycle in which the bank takes hart m's request.                       *)
Send(m, ready) ==
  /\ pc[m] \in {"lr", "sc"}
  /\ \E r \in Requests : /\ r.meta = m
                         /\ r.amo = (IF pc[m] = "lr" THEN "LR" ELSE "SC")
                         /\ Accept(r, ready)
  /\ \E p \in Delivered(ready) :
       pc' = [p EXCEPT ![m] = IF pc[m] = "lr" THEN "lrWait" ELSE "scWait"]

Quiet(ready) == NoRequest(ready) /\ pc' \in Delivered(ready)

LoopCycle(ready) == InLoops /\ (Quiet(ready) \/ \E m \in Looping : Send(m, ready))

LoopNext == \E ready \in BOOLEAN : FreeCycle(ready) \/ LoopCycle(ready)

(* The clock runs, answers are consumed again and again, for the response  *)
(* crossbar arbitrates round-robin, and the round-robin arbiters on the    *)
(* way to the bank let every waiting hart through in the end.              *)
LoopSpec == /\ LoopInit
            /\ [][LoopNext]_loopVars
            /\ WF_loopVars(FreeCycle(TRUE) \/ LoopCycle(TRUE))
            /\ \A m \in Looping : SF_loopVars(\E ready \in BOOLEAN : Send(m, ready))

(* A hart that left its loop without an SC still owns the reservation.     *)
Orphaned == \E m \in Looping : /\ pc[m] = "left"
                               /\ reservation_q.valid
                               /\ reservation_q.core = UniqueCoreId(m)

(* reservation_t records the owner "to prevent any live-locking"           *)
(* (tcdm_adapter.sv:168): among harts in LR/SC loops some store-           *)
(* conditional always succeeds in the end, however they interleave, unless *)
(* a hart abandons the bank's reservation; that one is then never freed,   *)
(* for a reservation outlives everything but its owner and a write to its  *)
(* word.                                                                   *)
ScProgress == []<>(InLoops => sc_successful_q) \/ <>[]Orphaned
===============================================================================
