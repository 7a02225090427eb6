----------------------------- MODULE GroupBarrier -----------------------------
(***************************************************************************)
(* What the barriers of software/runtime/synchronization.c promise.  Every *)
(* core goes through the barriers 1 .. Len(groups) again and again; at     *)
(* barrier k it waits for the cores of the set in groups[k] that holds it, *)
(* and goes past the barrier if there is none.                             *)
(***************************************************************************)
EXTENDS Naturals, Sequences

CONSTANT Cores

VARIABLES groups,              \* per barrier, disjoint sets of cores; never changes
          at,                  \* "out" of the barrier, waiting "in" it, free to "go"
          next                 \* the barrier each core is at or comes to next

vars == <<groups, at, next>>

Disjoint(sets) == \A g, h \in sets : g # h => g \cap h = {}

Following(k) == IF k = Len(groups) THEN 1 ELSE k + 1

Init == /\ groups # <<>>
        /\ \A k \in DOMAIN groups : Disjoint(groups[k])
        /\ at = [c \in Cores |-> "out"]
        /\ next = [c \in Cores |-> 1]

Arrive(c) ==
  /\ at[c] = "out"
  /\ c \in UNION groups[next[c]]
  /\ at' = [at EXCEPT ![c] = "in"]
  /\ UNCHANGED <<groups, next>>

(* A barrier opens, for all of its cores, when they are all in it.         *)
Open(k, g) ==
  /\ \A c \in g : at[c] = "in" /\ next[c] = k
  /\ at' = [c \in Cores |-> IF c \in g THEN "go" ELSE at[c]]
  /\ UNCHANGED <<groups, next>>

Leave(c) ==
  /\ at[c] = "go"
  /\ at' = [at EXCEPT ![c] = "out"]
  /\ next' = [next EXCEPT ![c] = Following(next[c])]
  /\ UNCHANGED groups

Pass(c) ==
  /\ at[c] = "out"
  /\ c \notin UNION groups[next[c]]
  /\ next' = [next EXCEPT ![c] = Following(next[c])]
  /\ UNCHANGED <<groups, at>>

Next == \/ \E c \in Cores : Arrive(c) \/ Leave(c) \/ Pass(c)
        \/ \E k \in DOMAIN groups : \E g \in groups[k] : Open(k, g)

Spec == Init /\ [][Next]_vars
===============================================================================
