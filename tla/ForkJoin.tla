------------------------------- MODULE ForkJoin -------------------------------
(***************************************************************************)
(* What the OpenMP runtime promises: the master runs one parallel region   *)
(* after the other.  A region is a sequence of stages, a stage the set of  *)
(* pieces of work between two barriers of the region; every piece is run   *)
(* exactly once, after all of the earlier stages and before the region is  *)
(* joined.                                                                 *)
(***************************************************************************)
EXTENDS Naturals, Sequences

VARIABLES regions,             \* the program: a sequence of regions; never changes
          now,                 \* the region that runs
          ran                  \* how often each piece of work of it has been run

Work(r) == UNION {regions[r][s] : s \in DOMAIN regions[r]}
Following(r) == IF r = Len(regions) THEN 1 ELSE r + 1
NothingRan(r) == [w \in Work(r) |-> 0]

Init == /\ now = 1
        /\ ran = NothingRan(1)

(* Some work of stage s is run.                                            *)
Run(s, done) ==
  /\ \A t \in 1 .. s - 1 : \A w \in regions[now][t] : ran[w] = 1
  /\ \A w \in done : ran[w] = 0
  /\ ran' = [w \in DOMAIN ran |-> IF w \in done THEN 1 ELSE ran[w]]
  /\ UNCHANGED <<regions, now>>

Join ==
  /\ \A w \in Work(now) : ran[w] = 1
  /\ now' = Following(now)
  /\ ran' = NothingRan(now')
  /\ UNCHANGED regions

Next == \/ Join
        \/ \E s \in DOMAIN regions[now] : \E done \in SUBSET regions[now][s] : Run(s, done)

Spec == Init /\ [][Next]_<<regions, now, ran>>
===============================================================================
