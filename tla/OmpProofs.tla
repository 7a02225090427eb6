------------------------------- MODULE OmpProofs -------------------------------
(***************************************************************************)
(* Proofs about the OpenMP runtime for every number of cores and every     *)
(* program whose regions have teams of one size: barriers, wake-ups and    *)
(* the join keep the threads of a team together, so that nothing resets a  *)
(* lock that is held.  For programs that find a free work share where they *)
(* need one, copyprivate delivers what was published; for those of them    *)
(* whose loops and sections are Regular, the runtime implements ForkJoin.  *)
(***************************************************************************)
EXTENDS Omp, FiniteSetTheorems, TLAPS

Constructs == {"loop", "sections", "single", "copyprivate", "barrier", "critical", "task"}
Calls == {"GOMP_parallel", "GOMP_parallel_loop_dynamic", "GOMP_parallel_sections"}

(* What the compiler emits.                                                *)
Compiled(p) ==
  /\ Len(p) \in Nat \ {0} /\ DOMAIN p = 1 .. Len(p)
  /\ \A r \in DOMAIN p :
       /\ p[r].fn \in Calls
       /\ Len(p[r].body) \in Nat /\ DOMAIN p[r].body = 1 .. Len(p[r].body)
       /\ \A k \in DOMAIN p[r].body :
            /\ p[r].body[k].op \in Constructs
            /\ p[r].body[k].op = "critical" => p[r].body[k].lock \in {"critical_lock", "atomic_lock"}

(* The regions of a program have teams of one size.  Otherwise a core that *)
(* was outside of a team brings old wake-ups into the next.  wake_up_q has *)
(* room for the two wake-ups a thread may be behind.                       *)
OneTeam ==
  /\ OutstandingWfi >= 3
  /\ \A p \in Programs :
       /\ Compiled(p)
       /\ \E n \in 0 .. NumCores : \A r \in DOMAIN p : p[r].num_threads = n

Size == TeamSize(1)
Team == 0 .. Size - 1

-------------------------------------------------------------------------------
(* The barriers of the region that runs, as numbers: 3 k + 1 is the one in *)
(* the middle of construct k, 3 k + 2 the one at its end.                  *)
Op(k) == program[serial].body[k].op
InMiddle(k) == Op(k) = "copyprivate"
AtEnd(k) ==
  Op(k) \in {"single", "copyprivate", "barrier"} \/ (Op(k) = "loop" /\ program[serial].fn = "GOMP_parallel")
Length == Len(program[serial].body)
Points ==
  {p \in 0 .. 3 * Length + 2 :
     \E k \in 1 .. Length : (p = 3 * k + 1 /\ InMiddle(k)) \/ (p = 3 * k + 2 /\ AtEnd(k))}

(* Where threads are.  i is 1 from the wake-up at the start of a barrier   *)
(* on until the one that ends it.                                          *)
Sharing == {"lock", "check", "share", "unlock"}
Returns == {"past", "copied", "sync"}

(* What a place in the region says of the construct.                       *)
Fits(place, k) ==
  /\ place \in Sharing => Op(k) \in {"loop", "sections", "single", "copyprivate"}
  /\ place = "work" => Op(k) \in {"loop", "sections", "single", "copyprivate"}
  /\ place \in {"loop_start", "loop_next"} => Op(k) = "loop"
  /\ place = "sections_next" => Op(k) = "sections"
  /\ place = "sync" => Op(k) \in {"single", "copyprivate", "barrier"}
  /\ place = "copied" => Op(k) = "copyprivate"
  /\ place = "past" => AtEnd(k)
  /\ place \in {"critical", "in_critical"} => Op(k) = "critical"
  /\ place = "task" => Op(k) = "task"

Places ==
  Sharing \cup Returns
    \cup {"work", "loop_start", "loop_next", "sections_next", "critical", "in_critical", "task"}

InRegion(c) == fn[c] = serial /\ turn[c] \in 1 .. Length + 1

(* Thread c runs the region, and has the wake-up of a barrier that core 0  *)
(* has started.                                                            *)
Runs(c, i) ==
  /\ InRegion(c) /\ wake_up_q[c] = i
  /\ \/ pc[c] = "task_end" /\ turn[c] = Length + 1
     \/ pc[c] \in Places /\ turn[c] <= Length /\ Fits(pc[c], turn[c])

(* It is in a barrier, after which it goes on at after[c].                 *)
InBarrier(c) ==
  /\ InRegion(c) /\ turn[c] <= Length
  /\ \/ after[c] = "past" /\ AtEnd(turn[c])
     \/ after[c] \in {"sync", "copied"} /\ InMiddle(turn[c])

Enters(c, i) ==
  /\ InBarrier(c) /\ wake_up_q[c] = i
  /\ pc[c] = "barrier" \/ (pc[c] = "wfi_init" /\ (c = 0 => i = 1))
Starts(c, i) == InBarrier(c) /\ wake_up_q[c] = 0 /\ c = 0 /\ i = 0 /\ pc[c] = "barrier_wake"
Adds(c, i) == InBarrier(c) /\ wake_up_q[c] = 0 /\ i = 1 /\ pc[c] = "barrier_add"
Waits(c, i) == InBarrier(c) /\ wake_up_q[c] = 0 /\ i = 1 /\ pc[c] = "wfi"
Closes(c, i) == InBarrier(c) /\ wake_up_q[c] = 0 /\ i = 1 /\ pc[c] \in {"barrier_clear", "barrier_release"}
Released(c, i) == InBarrier(c) /\ wake_up_q[c] = 1 + i /\ pc[c] = "wfi"

(* It has not begun the region, or has ended it.                           *)
Begins(c, i) ==
  after[c] = "run_task" /\ ((pc[c] = "run_task" /\ wake_up_q[c] = i) \/ (pc[c] = "wfi" /\ wake_up_q[c] = 1 + i))
Ended(c) ==
  /\ after[c] = "run_task" /\ wake_up_q[c] = 0
  /\ pc[c] = IF c = 0 THEN "join" ELSE "wfi"

Thread(c, i) ==
  \/ Runs(c, i) \/ Enters(c, i) \/ Starts(c, i) \/ Adds(c, i) \/ Waits(c, i) \/ Closes(c, i)
  \/ Released(c, i) \/ Begins(c, i) \/ Ended(c)

(* How far a thread is: between which barriers.                            *)
Half(c) ==
  LET place == IF pc[c] = "wfi" /\ wake_up_q[c] > 0 THEN after[c] ELSE pc[c]
  IN  IF place = "past" THEN 2
      ELSE IF place \in {"sync", "copied"} THEN 1
      ELSE IF place \notin Places /\ after[c] = "past" THEN 1 ELSE 0
Pos(c) ==
  IF Ended(c) THEN 3 * (Length + 1)
  ELSE IF after[c] = "run_task" /\ pc[c] \in {"wfi", "run_task"} THEN 0
  ELSE IF pc[c] = "task_end" THEN 3 * turn[c]
  ELSE 3 * turn[c] + Half(c)
Passed(c) == {p \in Points : p <= Pos(c)}

(* Core 0 has started a barrier.                                           *)
Started ==
  pc[0] \in {"wfi_init", "barrier_add", "barrier_clear", "barrier_release"} \/ Waits(0, 1)

-------------------------------------------------------------------------------
Asleep(c) == pc[c] = "wfi" /\ after[c] = "run_task" /\ wake_up_q[c] = 0

(* The master is alone.                                                    *)
Serial ==
  /\ pc[0] \in {"serial", "fork"} /\ wake_up_q[0] = 0
  /\ \A c \in Team \ {0} : Asleep(c)
  /\ pc[0] = "fork" => event = set_event(serial)

(* The team runs a region.                                                 *)
Working(i) ==
  /\ pc[0] \notin {"serial", "fork"}
  /\ event = [set_event(serial) EXCEPT !.barrier = Cardinality({c \in Team : ~ Ended(c)})]
  /\ i = 1 <=> Started
  /\ \A c \in Team : Thread(c, i)
  /\ \A c, d \in Team : Passed(c) = Passed(d)
  /\ pc[0] = "barrier_wake" => barrier = 0
  /\ \/ \A c \in Team : ~ Closes(c, i) /\ (i = 1 => barrier = Cardinality({d \in Team : Waits(d, i)}))
     \/ \E l \in Team : Closes(l, i) /\ \A c \in Team \ {l} : Waits(c, i)

Outsider(c) == pc[c] \in {"wfi", "run_task"} /\ after[c] = "run_task"

Locks == {"critical_lock", "atomic_lock"}
LockInv ==
  /\ Locks \subseteq DOMAIN works
  /\ \A c \in Cores : pc[c] = "in_critical" => At(c).lock \in Locks /\ works[At(c).lock] = 1
  /\ CriticalExclusive

StateInv ==
  /\ program \in Programs /\ serial \in DOMAIN program
  /\ DOMAIN pc = Cores /\ DOMAIN fn = Cores /\ DOMAIN turn = Cores
  /\ after \in [Cores -> Returns \cup {"run_task"}]
  /\ wake_up_q \in [Cores -> 0 .. OutstandingWfi - 1]

TeamInv ==
  /\ event.thread_pool \in {{}, Team} /\ (pc[0] # "serial" => event.thread_pool = Team)
  /\ \A c \in Cores \ Team : Outsider(c)
  /\ Serial \/ \E i \in {0, 1} : Working(i)

OmpInv == StateInv /\ TeamInv /\ LockInv

-------------------------------------------------------------------------------
(* The team.                                                               *)
LEMMA TheTeam ==
  ASSUME OneTeam, StateInv
  PROVE  /\ Size \in 1 .. NumCores /\ Team \subseteq Cores /\ 0 \in Team /\ 0 \in Cores
         /\ IsFiniteSet(Team) /\ Cardinality(Team) = Size
         /\ \A r \in DOMAIN program : TeamSize(r) = Size
         /\ Compiled(program) /\ Length \in Nat /\ 1 \in DOMAIN program
         /\ set_event(serial) = [fn |-> serial, nthreads |-> Size, barrier |-> Size, thread_pool |-> Team]
  <1>1. Compiled(program) /\ OutstandingWfi >= 3 /\ NumCores \in Nat \ {0}
    BY ConfigAssumption DEF OneTeam, StateInv
  <1>2. 1 \in DOMAIN program /\ Length \in Nat
    BY <1>1 DEF Compiled, StateInv, Length
  <1>3. PICK n \in 0 .. NumCores : \A r \in DOMAIN program : program[r].num_threads = n
    BY DEF OneTeam, StateInv
  <1>4. \A r \in DOMAIN program : TeamSize(r) = IF n = 0 THEN NumCores ELSE n
    BY <1>3 DEF TeamSize, num_cores
  <1>5. Size = IF n = 0 THEN NumCores ELSE n
    BY <1>2, <1>4 DEF Size
  <1>6. Size \in 1 .. NumCores
    BY <1>1, <1>5
  <1>7. Team \subseteq Cores /\ 0 \in Team /\ 0 \in Cores
    BY <1>1, <1>6 DEF Team, Cores
  <1>8. IsFiniteSet(Team) /\ Cardinality(Team) = Size
    <2>1. 0 \in Int /\ Size - 1 \in Int /\ 0 <= Size - 1
      BY <1>6
    <2>2. IsFiniteSet(0 .. Size - 1) /\ Cardinality(0 .. Size - 1) = Size - 1 - 0 + 1
      BY <2>1, FS_Interval
    <2> QED
      BY <2>2, <1>6 DEF Team
  <1>9. TeamSize(serial) = Size
    BY <1>4, <1>5 DEF StateInv
  <1> QED
    BY <1>1, <1>2, <1>4, <1>5, <1>6, <1>7, <1>8, <1>9 DEF set_event, Team

(* The constructs of the region that runs.                                 *)
LEMMA TheRegion ==
  ASSUME OneTeam, StateInv
  PROVE  /\ program[serial].fn \in Calls /\ DOMAIN program[serial].body = 1 .. Length
         /\ \A k \in 1 .. Length :
              /\ Op(k) \in Constructs
              /\ Op(k) = "critical" => program[serial].body[k].lock \in Locks
  BY TheTeam DEF StateInv, Compiled, Length, Op, Locks

(* What does not change while the program and the region do not.           *)
LEMMA Frozen ==
  ASSUME program' = program, serial' = serial
  PROVE  /\ Size' = Size /\ Team' = Team /\ Length' = Length /\ Points' = Points
         /\ set_event(serial)' = set_event(serial)
  BY DEF Size, Team, Length, Points, TeamSize, num_cores, InMiddle, AtEnd, Op, set_event

(* Which numbers are barriers.                                             *)
LEMMA PointKinds ==
  ASSUME OneTeam, StateInv, NEW p \in Points, NEW k \in Nat
  PROVE  /\ p \in Nat /\ p # 3 * k
         /\ p = 3 * k + 1 => k \in 1 .. Length /\ InMiddle(k)
         /\ p = 3 * k + 2 => k \in 1 .. Length /\ AtEnd(k)
  <1>1. Length \in Nat
    BY TheTeam
  <1>2. PICK j \in 1 .. Length : (p = 3 * j + 1 /\ InMiddle(j)) \/ (p = 3 * j + 2 /\ AtEnd(j))
    BY DEF Points
  <1>3. p \in Nat /\ p # 3 * k
    BY <1>1, <1>2
  <1>4. p = 3 * k + 1 => k = j /\ InMiddle(j)
    BY <1>1, <1>2
  <1>5. p = 3 * k + 2 => k = j /\ AtEnd(j)
    BY <1>1, <1>2
  <1> QED
    BY <1>3, <1>4, <1>5

(* A step past no barrier.                                                 *)
LEMMA PassedSame ==
  ASSUME OneTeam, StateInv, NEW c, Points' = Points, Pos(c) \in Nat, Pos(c)' \in Nat,
         Pos(c) <= Pos(c)',
         \A p \in Points : ~ (Pos(c) < p /\ p <= Pos(c)')
  PROVE  Passed(c)' = Passed(c)
  <1>1. \A p \in Points : p \in Nat
    BY PointKinds
  <1>2. \A p \in Points : p <= Pos(c)' <=> p <= Pos(c)
    BY <1>1
  <1>3. Passed(c)' = {p \in Points : p <= Pos(c)'}
    BY DEF Passed
  <1> QED
    BY <1>2, <1>3 DEF Passed

(* Only core c moves.                                                      *)
Alone(c) ==
  \A d \in Cores \ {c} :
    /\ pc'[d] = pc[d] /\ after'[d] = after[d] /\ fn'[d] = fn[d] /\ turn'[d] = turn[d]
    /\ wake_up_q'[d] = wake_up_q[d]

(* A core that does not move stays where it is.                            *)
LEMMA Stays ==
  ASSUME program' = program, serial' = serial, NEW i \in {0, 1}, NEW d,
         pc'[d] = pc[d], after'[d] = after[d], fn'[d] = fn[d], turn'[d] = turn[d],
         wake_up_q'[d] = wake_up_q[d]
  PROVE  /\ Thread(d, i)' = Thread(d, i) /\ Waits(d, i)' = Waits(d, i) /\ Closes(d, i)' = Closes(d, i)
         /\ Waits(d, 1)' = Waits(d, 1)
         /\ Ended(d)' = Ended(d) /\ Pos(d)' = Pos(d) /\ Passed(d)' = Passed(d)
  <1>1. Length' = Length /\ Points' = Points /\ \A k : Op(k)' = Op(k)
    BY Frozen DEF Op
  <1>2. InRegion(d)' = InRegion(d) /\ InBarrier(d)' = InBarrier(d)
    BY <1>1 DEF InRegion, InBarrier, AtEnd, InMiddle
  <1>3. Runs(d, i)' = Runs(d, i)
    BY <1>1, <1>2 DEF Runs, Fits, AtEnd
  <1>4. Ended(d)' = Ended(d)
    BY DEF Ended
  <1>5. Waits(d, i)' = Waits(d, i) /\ Closes(d, i)' = Closes(d, i) /\ Waits(d, 1)' = Waits(d, 1)
    BY <1>2 DEF Waits, Closes
  <1>6. Thread(d, i)' = Thread(d, i)
    BY <1>2, <1>3, <1>4, <1>5 DEF Thread, Enters, Starts, Adds, Released, Begins
  <1>7. Pos(d)' = Pos(d)
    BY <1>1, <1>4 DEF Pos, Half
  <1> QED
    BY <1>1, <1>4, <1>5, <1>6, <1>7 DEF Passed

(* Thread c moves on its own, neither past a barrier nor to or from the    *)
(* count of the threads that wait at one.                                  *)
Moves(c, i) ==
  /\ program' = program /\ serial' = serial /\ Alone(c)
  /\ Thread(c, i)' /\ Passed(c)' = Passed(c)
  /\ ~ Waits(c, i) /\ ~ Waits(c, i)' /\ ~ Closes(c, i) /\ ~ Closes(c, i)'
  /\ c = 0 => (Started' <=> Started) /\ pc'[0] \notin {"serial", "fork"}

(* Such a move keeps the team together.                                     *)
LEMMA MoveStep ==
  ASSUME OneTeam, StateInv, NEW i \in {0, 1}, Working(i), NEW c \in Team, Moves(c, i),
         event' = [event EXCEPT !.barrier = Cardinality({d \in Team : ~ Ended(d)'})],
         i = 1 => barrier' = barrier, pc'[0] = "barrier_wake" => barrier' = 0
  PROVE  Working(i)'
  <1>1. Size' = Size /\ Team' = Team /\ set_event(serial)' = set_event(serial)
    BY Frozen DEF Moves
  <1>2. Team \subseteq Cores /\ 0 \in Team
    BY TheTeam
  <1>3. ASSUME NEW d \in Team, d # c
        PROVE  /\ Thread(d, i)' = Thread(d, i) /\ Waits(d, i)' = Waits(d, i) /\ Closes(d, i)' = Closes(d, i)
               /\ Waits(d, 1)' = Waits(d, 1) /\ Ended(d)' = Ended(d) /\ Passed(d)' = Passed(d) /\ pc'[d] = pc[d]
    BY <1>2, <1>3, Stays DEF Moves, Alone
  <1>4. Started' <=> Started
    BY <1>2, <1>3 DEF Moves, Started
  <1>5. pc'[0] \notin {"serial", "fork"}
    BY <1>2, <1>3 DEF Moves, Working
  <1>7. {d \in Team : Waits(d, i)'} = {d \in Team : Waits(d, i)}
    BY <1>3 DEF Moves
  <1>8. \A d \in Team : Thread(d, i)'
    BY <1>3 DEF Moves, Working
  <1>9. \A d, e \in Team : Passed(d)' = Passed(e)'
    <2>1. \A d \in Team : Passed(d)' = Passed(d)
      BY <1>3 DEF Moves
    <2> QED
      BY <2>1 DEF Working
  <1>10. \A d \in Team : ~ Closes(d, i) /\ (i = 1 => barrier = Cardinality({e \in Team : Waits(e, i)}))
    <2>1. ~ \E l \in Team : Closes(l, i) /\ \A d \in Team \ {l} : Waits(d, i)
      BY DEF Moves
    <2> QED
      BY <2>1 DEF Working
  <1>11. \A d \in Team : ~ Closes(d, i)' /\ (i = 1 => barrier' = Cardinality({e \in Team : Waits(e, i)'}))
    BY <1>3, <1>7, <1>10 DEF Moves
  <1>12. event' = [set_event(serial)' EXCEPT !.barrier = Cardinality({d \in Team : ~ Ended(d)'})]
    BY <1>1, TheTeam DEF Working
  <1>13. (i = 1 <=> Started')
    BY <1>4 DEF Working
  <1> QED
    BY <1>1, <1>5, <1>8, <1>9, <1>11, <1>12, <1>13 DEF Working

(* The same for a step within the region.                                  *)
LEMMA PlainMove ==
  ASSUME OneTeam, StateInv, NEW i \in {0, 1}, Working(i), NEW c \in Team, Moves(c, i),
         event' = event, barrier' = barrier, ~ Ended(c), ~ Ended(c)',
         c = 0 => pc'[0] # "barrier_wake"
  PROVE  Working(i)'
  <1>1. Team \subseteq Cores /\ 0 \in Team
    BY TheTeam
  <1>2. ASSUME NEW d \in Team, d # c
        PROVE  Ended(d)' = Ended(d) /\ pc'[d] = pc[d]
    BY <1>1, <1>2, Stays DEF Moves, Alone
  <1>3. {d \in Team : ~ Ended(d)'} = {d \in Team : ~ Ended(d)}
    BY <1>2
  <1>4. event' = [event EXCEPT !.barrier = Cardinality({d \in Team : ~ Ended(d)'})]
    BY <1>3, TheTeam DEF Working
  <1>5. pc'[0] = "barrier_wake" => barrier' = 0
    BY <1>1, <1>2 DEF Working
  <1> QED
    BY <1>4, <1>5, MoveStep

-------------------------------------------------------------------------------
(* Where a thread that runs is.                                            *)
PlaceOf(c) == IF pc[c] = "past" THEN 2 ELSE IF pc[c] \in {"sync", "copied"} THEN 1 ELSE 0

RunsFacts(c, i) ==
  /\ turn[c] \in 1 .. Length + 1 /\ turn[c] \in Nat
  /\ ~ Waits(c, i) /\ ~ Closes(c, i) /\ ~ Ended(c) /\ ~ Waits(c, 1)
  /\ pc[c] \in Places \cup {"task_end"}
  /\ pc[c] = "task_end" => Pos(c) = 3 * turn[c] /\ turn[c] = Length + 1
  /\ pc[c] # "task_end" =>
       turn[c] \in 1 .. Length /\ Fits(pc[c], turn[c]) /\ Pos(c) = 3 * turn[c] + PlaceOf(c)

(* The consequences of Runs for the position of a thread.                   *)
LEMMA RunsAt ==
  OneTeam /\ StateInv => \A c \in Team : \A i \in {0, 1} : Runs(c, i) => RunsFacts(c, i)
  <1> SUFFICES ASSUME OneTeam, StateInv, NEW i \in {0, 1}, NEW c \in Team, Runs(c, i)
               PROVE  RunsFacts(c, i)
    OBVIOUS
  <1>1. Length \in Nat
    BY TheTeam
  <1>2. pc[c] \in Places \cup {"task_end"} /\ pc[c] \notin {"wfi", "join", "barrier_clear", "barrier_release", "run_task"}
    BY DEF Runs, Places, Sharing, Returns
  <1>3. turn[c] \in 1 .. Length + 1 /\ turn[c] \in Nat
    BY <1>1 DEF Runs, InRegion
  <1>4. ~ Waits(c, i) /\ ~ Closes(c, i) /\ ~ Ended(c) /\ ~ Waits(c, 1)
    BY <1>2 DEF Waits, Closes, Ended
  <1>5. pc[c] = "task_end" => Pos(c) = 3 * turn[c] /\ turn[c] = Length + 1
    BY <1>4 DEF Pos, Runs, Places, Sharing, Returns
  <1>6. ASSUME pc[c] # "task_end"
        PROVE  turn[c] \in 1 .. Length /\ Fits(pc[c], turn[c]) /\ Pos(c) = 3 * turn[c] + PlaceOf(c)
    <2>1. turn[c] \in 1 .. Length /\ Fits(pc[c], turn[c])
      BY <1>1, <1>3, <1>6 DEF Runs
    <2>2. Half(c) = PlaceOf(c)
      BY <1>2, <1>6 DEF Half, PlaceOf
    <2> QED
      BY <1>2, <1>4, <1>6, <2>1, <2>2 DEF Pos
  <1> QED
    BY <1>2, <1>3, <1>4, <1>5, <1>6 DEF RunsFacts

(* The same after a step.                                                   *)
LEMMA RunsNext ==
  OneTeam /\ StateInv' => \A c \in Team' : \A i \in {0, 1} : Runs(c, i)' => RunsFacts(c, i)'
  <1>1. (OneTeam /\ StateInv => \A c \in Team : \A i \in {0, 1} : Runs(c, i) => RunsFacts(c, i))'
    BY RunsAt, PTL
  <1> QED
    BY <1>1

(* A thread that runs and goes on running.                                 *)
LEMMA RunOn ==
  ASSUME OneTeam, StateInv, StateInv', NEW i \in {0, 1}, Working(i), NEW c \in Team, Runs(c, i), Runs(c, i)',
         program' = program, serial' = serial, Alone(c), event' = event, barrier' = barrier,
         Pos(c) <= Pos(c)', \A p \in Points : ~ (Pos(c) < p /\ p <= Pos(c)')
  PROVE  Working(i)'
  <1>1. Team' = Team /\ Length' = Length /\ Points' = Points
    BY Frozen
  <1>2. Length \in Nat
    BY TheTeam
  <1>3. Pos(c) \in Nat /\ ~ Waits(c, i) /\ ~ Closes(c, i) /\ ~ Ended(c) /\ ~ Waits(c, 1)
    BY <1>2, RunsAt DEF RunsFacts, PlaceOf
  <1>4. RunsFacts(c, i)'
    BY <1>1, RunsNext
  <1>5. Pos(c)' \in Nat /\ ~ Waits(c, i)' /\ ~ Closes(c, i)' /\ ~ Ended(c)' /\ ~ Waits(c, 1)'
    BY <1>4 DEF RunsFacts, PlaceOf
  <1>6. Passed(c)' = Passed(c)
    BY <1>1, <1>3, <1>5, PassedSame
  <1>7. pc[c] \in Places \cup {"task_end"} /\ pc'[c] \in Places \cup {"task_end"}
    BY <1>4, RunsAt DEF RunsFacts
  <1>8. c = 0 => ~ Started /\ ~ Started' /\ pc'[0] \notin {"serial", "fork", "barrier_wake"}
    BY <1>3, <1>5, <1>7 DEF Started, Places, Sharing, Returns
  <1>9. Moves(c, i)
    BY <1>3, <1>5, <1>6, <1>8 DEF Moves, Thread
  <1> QED
    BY <1>3, <1>5, <1>8, <1>9, PlainMove

(* A thread that comes to a construct, or to the end of the region, passes *)
(* no barrier of that construct.                                           *)
LEMMA Entered ==
  ASSUME OneTeam, StateInv, StateInv', NEW i \in {0, 1}, NEW c \in Team, NEW k \in 1 .. Length + 1,
         Goto(c, serial, k), program' = program, serial' = serial, wake_up_q'[c] = i
  PROVE  /\ Runs(c, i)' /\ Pos(c)' \in Nat /\ 3 * k <= Pos(c)'
         /\ \A p \in Points : p <= Pos(c)' => p < 3 * k
  <1>1. Team' = Team /\ Length' = Length /\ Points' = Points /\ \A j : Op(j)' = Op(j) /\ AtEnd(j)' = AtEnd(j)
    BY Frozen DEF Op, AtEnd
  <1>2. Length \in Nat /\ c \in Cores
    BY TheTeam
  <1>3. turn'[c] = k /\ fn'[c] = serial
    BY <1>2 DEF Goto, StateInv
  <1>4. /\ k = Length + 1 => pc'[c] = "task_end"
        /\ k \in 1 .. Length => pc'[c] = Entry(program[serial].fn, program[serial].body[k])
    BY <1>2, TheRegion DEF Goto, StateInv
  <1>5. InRegion(c)'
    BY <1>1, <1>3 DEF InRegion
  <1>6. ASSUME k \in 1 .. Length
        PROVE  /\ pc'[c] \in Places /\ pc'[c] \notin {"past", "copied", "task_end"} /\ Fits(pc'[c], k)
               /\ pc'[c] = "sync" => ~ InMiddle(k)
    <2>1. Op(k) \in Constructs /\ program[serial].fn \in Calls
      BY <1>6, TheRegion
    <2>2. pc'[c] = Entry(program[serial].fn, program[serial].body[k])
      BY <1>4, <1>6
    <2>3. Op(k) = program[serial].body[k].op
      BY DEF Op
    <2>4. \/ pc'[c] = "loop_next" /\ Op(k) = "loop"
          \/ pc'[c] = "sections_next" /\ Op(k) = "sections"
          \/ pc'[c] = Op(k) /\ Op(k) \in {"critical", "task"}
          \/ pc'[c] = "sync" /\ Op(k) = "barrier"
          \/ pc'[c] = "lock" /\ Op(k) \in {"loop", "sections", "single", "copyprivate"}
      BY <2>1, <2>2, <2>3 DEF Entry, Constructs
    <2> QED
      BY <2>4 DEF Places, Sharing, Returns, Fits, InMiddle
  <1>7. Runs(c, i)'
    <2>1. CASE k = Length + 1
      BY <2>1, <1>1, <1>3, <1>4, <1>5 DEF Runs
    <2>2. CASE k \in 1 .. Length
      <3>1. Fits(pc'[c], k) = Fits(pc[c], turn[c])'
        BY <1>1, <1>3 DEF Fits
      <3> QED
        BY <2>2, <3>1, <1>1, <1>2, <1>3, <1>5, <1>6 DEF Runs
    <2> QED
      BY <2>1, <2>2, <1>2
  <1>8. RunsFacts(c, i)'
    BY <1>1, <1>7, RunsNext
  <1>9. CASE k = Length + 1
    <2>1. Pos(c)' = 3 * k
      BY <1>3, <1>4, <1>8, <1>9 DEF RunsFacts
    <2>2. \A p \in Points : p \in Nat /\ p # 3 * k
      BY <1>2, PointKinds
    <2>3. \A p \in Points : p <= Pos(c)' => p < 3 * k
      BY <1>2, <2>1, <2>2
    <2> QED
      BY <1>2, <1>7, <2>1, <2>3
  <1>10. CASE k \in 1 .. Length
    <2>1. Pos(c)' = 3 * k + (IF pc'[c] = "sync" THEN 1 ELSE 0)
      BY <1>3, <1>6, <1>8, <1>10 DEF RunsFacts, PlaceOf
    <2>2. ASSUME NEW p \in Points, p <= Pos(c)'
          PROVE  p < 3 * k
      <3>1. p \in Nat /\ p # 3 * k /\ (p = 3 * k + 1 => InMiddle(k))
        BY <1>2, PointKinds
      <3> QED
        BY <1>2, <1>6, <1>10, <2>1, <2>2, <3>1
    <2> QED
      BY <1>2, <1>7, <2>1, <2>2
  <1> QED
    BY <1>2, <1>9, <1>10

(* A thread leaves its construct, past its barrier if it ends with one.    *)
LEMMA AdvanceStep ==
  ASSUME OneTeam, StateInv, StateInv', NEW i \in {0, 1}, Working(i), NEW c \in Team, Runs(c, i),
         pc[c] # "task_end", pc[c] = "past" \/ ~ AtEnd(turn[c]), Advance(c),
         program' = program, serial' = serial, after' = after, wake_up_q' = wake_up_q,
         event' = event, barrier' = barrier
  PROVE  Working(i)'
  <1> DEFINE k == turn[c]
  <1>1. RunsFacts(c, i)
    BY RunsAt
  <1>2. Length \in Nat /\ c \in Cores
    BY TheTeam
  <1>3. k \in 1 .. Length /\ k + 1 \in 1 .. Length + 1 /\ k \in Nat
    BY <1>1, <1>2 DEF RunsFacts
  <1>4. Goto(c, serial, k + 1) /\ wake_up_q'[c] = i
    BY DEF Advance, Runs, InRegion
  <1>5. /\ Runs(c, i)' /\ Pos(c)' \in Nat /\ 3 * (k + 1) <= Pos(c)'
        /\ \A p \in Points : p <= Pos(c)' => p < 3 * (k + 1)
    BY <1>3, <1>4, Entered
  <1>6. Alone(c)
    BY DEF Alone, Advance, Goto, StateInv
  <1>7. Pos(c) = 3 * k + PlaceOf(c) /\ PlaceOf(c) \in 0 .. 2 /\ (pc[c] = "past" => PlaceOf(c) = 2)
    BY <1>1 DEF RunsFacts, PlaceOf
  <1>8. ASSUME NEW p \in Points
        PROVE  ~ (Pos(c) < p /\ p <= Pos(c)')
    <2>1. /\ p \in Nat /\ p # 3 * k /\ (p = 3 * k + 1 => AtEnd(k)) /\ (p = 3 * k + 2 => AtEnd(k))
      BY <1>3, PointKinds DEF InMiddle, AtEnd
    <2>2. p <= Pos(c)' => p < 3 * (k + 1)
      BY <1>5
    <2> QED
      BY <1>3, <1>7, <2>1, <2>2
  <1>9. Pos(c) <= Pos(c)'
    BY <1>3, <1>5, <1>7
  <1> QED
    BY <1>5, <1>6, <1>8, <1>9, RunOn

(* A thread goes on within its construct.                                  *)
LEMMA WithinStep ==
  ASSUME OneTeam, StateInv, StateInv', NEW i \in {0, 1}, Working(i), NEW c \in Team, Runs(c, i),
         NEW to \in Places \ {"past"}, pc[c] \notin {"task_end", "past"}, Fits(to, turn[c]),
         Step(c, pc[c], to),
         \/ to \in {"sync", "copied"} /\ (~ InMiddle(turn[c]) \/ pc[c] \in {"sync", "copied"})
         \/ to \notin {"sync", "copied"} /\ pc[c] \notin {"sync", "copied"},
         program' = program, serial' = serial, after' = after, wake_up_q' = wake_up_q,
         event' = event, barrier' = barrier
  PROVE  Working(i)'
  <1> DEFINE k == turn[c]
  <1>1. RunsFacts(c, i)
    BY RunsAt
  <1>2. Length \in Nat /\ c \in Cores
    BY TheTeam
  <1>3. k \in 1 .. Length /\ k \in Nat
    BY <1>1, <1>2 DEF RunsFacts
  <1>4. Team' = Team /\ Length' = Length /\ \A j : Op(j)' = Op(j) /\ AtEnd(j)' = AtEnd(j)
    BY Frozen DEF Op, AtEnd
  <1>5. pc'[c] = to /\ turn'[c] = k /\ fn'[c] = fn[c] /\ wake_up_q'[c] = wake_up_q[c]
    BY <1>2 DEF Step, StateInv
  <1>6. Runs(c, i)'
    <2>1. Fits(pc[c], turn[c])'
      BY <1>4, <1>5 DEF Fits
    <2> QED
      BY <2>1, <1>2, <1>3, <1>4, <1>5 DEF Runs, InRegion
  <1>7. RunsFacts(c, i)'
    BY <1>4, <1>6, RunsNext
  <1>8. Pos(c)' = 3 * k + (IF to \in {"sync", "copied"} THEN 1 ELSE 0)
    BY <1>5, <1>7 DEF RunsFacts, PlaceOf, Places, Sharing, Returns
  <1>9. Pos(c) = 3 * k + (IF pc[c] \in {"sync", "copied"} THEN 1 ELSE 0)
    BY <1>1 DEF RunsFacts, PlaceOf
  <1>10. ASSUME NEW p \in Points
         PROVE  ~ (Pos(c) < p /\ p <= Pos(c)')
    <2>1. p \in Nat /\ p # 3 * k /\ (p = 3 * k + 1 => InMiddle(k))
      BY <1>3, PointKinds
    <2>2. to \in {"sync", "copied"} => ~ InMiddle(k) \/ pc[c] \in {"sync", "copied"}
      OBVIOUS
    <2> HIDE DEF k
    <2>3. CASE to \in {"sync", "copied"}
      BY <1>3, <1>8, <1>9, <2>1, <2>2, <2>3
    <2>4. CASE to \notin {"sync", "copied"}
      BY <1>3, <1>8, <1>9, <2>1, <2>4
    <2> QED
      BY <2>3, <2>4
  <1>11. Pos(c) <= Pos(c)'
    BY <1>3, <1>8, <1>9
  <1>12. Alone(c)
    BY DEF Alone, Step, StateInv
  <1> QED
    BY <1>6, <1>10, <1>11, <1>12, RunOn

-------------------------------------------------------------------------------
(* Thread c is in front of a barrier.                                      *)
BarrierCode == {"barrier", "barrier_wake", "wfi_init", "barrier_add", "barrier_clear", "barrier_release"}
HeldUp(c) == InBarrier(c) /\ (pc[c] \in BarrierCode \/ (pc[c] = "wfi" /\ wake_up_q[c] = 0))
HeldFacts(c) ==
  /\ turn[c] \in 1 .. Length /\ turn[c] \in Nat /\ after[c] \in Returns /\ ~ Ended(c)
  /\ Pos(c) = 3 * turn[c] + (IF after[c] = "past" THEN 1 ELSE 0)
  /\ Pos(c) \in Nat /\ Pos(c) + 1 \in Points /\ Pos(c) + 1 <= 3 * Length + 2

(* Its next barrier is one of Points, right after its position.             *)
LEMMA HeldUpAt ==
  OneTeam /\ StateInv => \A c \in Team : HeldUp(c) => HeldFacts(c)
  <1> SUFFICES ASSUME OneTeam, StateInv, NEW c \in Team, HeldUp(c)
               PROVE  HeldFacts(c)
    OBVIOUS
  <1>1. Length \in Nat
    BY TheTeam
  <1>2. turn[c] \in 1 .. Length /\ turn[c] \in Nat
    BY <1>1 DEF HeldUp, InBarrier, InRegion
  <1>3. after[c] \in Returns
    BY DEF HeldUp, InBarrier, Returns
  <1>4. ~ Ended(c)
    BY <1>3 DEF Ended, Returns
  <1>5. Half(c) = IF after[c] = "past" THEN 1 ELSE 0
    BY DEF Half, HeldUp, BarrierCode, Places, Sharing, Returns
  <1>6. Pos(c) = 3 * turn[c] + (IF after[c] = "past" THEN 1 ELSE 0)
    BY <1>3, <1>4, <1>5 DEF Pos, HeldUp, BarrierCode, Returns
  <1>7. (after[c] = "past" => AtEnd(turn[c])) /\ (after[c] # "past" => InMiddle(turn[c]))
    BY DEF HeldUp, InBarrier
  <1>8. Pos(c) + 1 \in Points
    BY <1>1, <1>2, <1>6, <1>7 DEF Points
  <1> QED
    BY <1>1, <1>2, <1>3, <1>4, <1>6, <1>8 DEF HeldFacts

(* The same after a step.                                                   *)
LEMMA HeldUpNext ==
  OneTeam /\ StateInv' => \A c \in Team' : HeldUp(c)' => HeldFacts(c)'
  <1>1. (OneTeam /\ StateInv => \A c \in Team : HeldUp(c) => HeldFacts(c))'
    BY HeldUpAt, PTL
  <1> QED
    BY <1>1

(* No thread is past the barrier that another one is in front of.          *)
LEMMA NobodyPast ==
  ASSUME OneTeam, StateInv, NEW i \in {0, 1}, Working(i), NEW c \in Team, NEW d \in Team, HeldUp(d)
  PROVE  ~ Ended(c) /\ ~ (Runs(c, i) /\ pc[c] = "task_end") /\ ~ (Pos(c) >= Pos(d) + 1)
  <1>1. HeldFacts(d) /\ Length \in Nat
    BY HeldUpAt, TheTeam
  <1>2. Pos(d) + 1 \notin Passed(d)
    BY <1>1 DEF Passed, HeldFacts
  <1>3. Pos(d) + 1 \notin Passed(c)
    BY <1>2 DEF Working
  <1>4. ~ (Pos(d) + 1 <= Pos(c))
    BY <1>1, <1>3 DEF Passed, HeldFacts
  <1>5. Ended(c) => Pos(c) = 3 * (Length + 1)
    BY DEF Pos
  <1>6. Runs(c, i) /\ pc[c] = "task_end" => Pos(c) = 3 * (Length + 1)
    BY RunsAt DEF RunsFacts
  <1>7. Pos(d) + 1 <= 3 * (Length + 1)
    BY <1>1 DEF HeldFacts
  <1>8. Pos(c) >= Pos(d) + 1 => Pos(d) + 1 <= Pos(c)
    OBVIOUS
  <1> QED
    BY <1>4, <1>5, <1>6, <1>7, <1>8

(* While a barrier is under way core 0 is in front of it.                  *)
LEMMA CoreZeroHeld ==
  ASSUME OneTeam, StateInv, Working(1)
  PROVE  HeldUp(0)
  <1>1. Started /\ Thread(0, 1) /\ 0 \in Team
    BY TheTeam DEF Working
  <1>2. CASE Waits(0, 1)
    BY <1>2 DEF HeldUp, Waits
  <1>3. CASE pc[0] \in {"wfi_init", "barrier_add", "barrier_clear", "barrier_release"}
    <2>1. ~ Runs(0, 1) /\ ~ Begins(0, 1) /\ ~ Ended(0)
      BY <1>3 DEF Runs, Begins, Ended, Places, Sharing, Returns
    <2>2. InBarrier(0)
      BY <1>1, <2>1 DEF Thread, Enters, Starts, Adds, Waits, Closes, Released
    <2> QED
      BY <1>3, <2>2 DEF HeldUp, BarrierCode
  <1> QED
    BY <1>1, <1>2, <1>3 DEF Started

(* A thread calls mempool_barrier_gomp.                                    *)
LEMMA CallStep ==
  ASSUME OneTeam, StateInv, StateInv', NEW i \in {0, 1}, Working(i), NEW c \in Team, Runs(c, i),
         pc[c] \notin {"task_end", "past"}, NEW ret \in Returns, CallBarrier(c, pc[c], ret),
         \/ ret = "past" /\ AtEnd(turn[c]) /\ (~ InMiddle(turn[c]) \/ pc[c] \in {"sync", "copied"})
         \/ ret \in {"sync", "copied"} /\ InMiddle(turn[c]) /\ pc[c] \notin {"sync", "copied"},
         program' = program, serial' = serial, wake_up_q' = wake_up_q, event' = event, barrier' = barrier
  PROVE  Working(i)'
  <1> DEFINE k == turn[c]
  <1>1. RunsFacts(c, i)
    BY RunsAt
  <1>2. Length \in Nat /\ c \in Cores
    BY TheTeam
  <1>3. k \in 1 .. Length /\ k \in Nat
    BY <1>1, <1>2 DEF RunsFacts
  <1>4. /\ Team' = Team /\ Length' = Length /\ Points' = Points
        /\ \A j : AtEnd(j)' = AtEnd(j) /\ InMiddle(j)' = InMiddle(j)
    BY Frozen DEF Op, AtEnd, InMiddle
  <1>5. pc'[c] = "barrier" /\ after'[c] = ret /\ turn'[c] = k /\ fn'[c] = fn[c] /\ wake_up_q'[c] = i
    BY <1>2 DEF CallBarrier, Step, StateInv, Runs
  <1>6. InBarrier(c)'
    BY <1>2, <1>3, <1>4, <1>5 DEF InBarrier, InRegion, Runs
  <1>7. Enters(c, i)' /\ HeldUp(c)'
    BY <1>5, <1>6 DEF Enters, HeldUp, BarrierCode
  <1>8. HeldFacts(c)'
    BY <1>4, <1>7, HeldUpNext
  <1>9. Pos(c)' = 3 * k + (IF ret = "past" THEN 1 ELSE 0) /\ ~ Ended(c)' /\ Pos(c)' \in Nat
    BY <1>5, <1>8 DEF HeldFacts
  <1>10. Pos(c) = 3 * k + (IF pc[c] \in {"sync", "copied"} THEN 1 ELSE 0)
    BY <1>1 DEF RunsFacts, PlaceOf
  <1>11. ASSUME NEW p \in Points
         PROVE  ~ (Pos(c) < p /\ p <= Pos(c)')
    <2>1. p \in Nat /\ p # 3 * k /\ (p = 3 * k + 1 => InMiddle(k))
      BY <1>3, PointKinds
    <2>2. /\ ret = "past" => ~ InMiddle(k) \/ pc[c] \in {"sync", "copied"}
          /\ ret # "past" => pc[c] \notin {"sync", "copied"}
      OBVIOUS
    <2> HIDE DEF k
    <2>3. CASE ret = "past"
      BY <1>3, <1>9, <1>10, <2>1, <2>2, <2>3
    <2>4. CASE ret # "past"
      BY <1>3, <1>9, <1>10, <2>1, <2>2, <2>4
    <2> QED
      BY <2>3, <2>4
  <1>12. Passed(c)' = Passed(c)
    <2>1. Pos(c) \in Nat /\ Pos(c) <= Pos(c)'
      BY <1>3, <1>9, <1>10
    <2> QED
      BY <1>4, <1>9, <1>11, <2>1, PassedSame
  <1>13. Alone(c)
    BY DEF Alone, CallBarrier, Step, StateInv
  <1>14. ~ Waits(c, i)' /\ ~ Closes(c, i)' /\ ~ Waits(c, 1)'
    BY <1>5 DEF Waits, Closes
  <1>15. c = 0 => ~ Started /\ ~ Started' /\ pc'[0] \notin {"serial", "fork", "barrier_wake"}
    BY <1>1, <1>5, <1>14 DEF Started, RunsFacts, Places, Sharing, Returns
  <1>16. Moves(c, i)
    BY <1>1, <1>7, <1>12, <1>13, <1>14, <1>15 DEF Moves, Thread, RunsFacts
  <1> QED
    BY <1>1, <1>9, <1>15, <1>16, PlainMove DEF RunsFacts

-------------------------------------------------------------------------------
(* A thread with a stored wake-up passes its WFI.                          *)
LEMMA WfiStep ==
  ASSUME OneTeam, StateInv, StateInv', NEW i \in {0, 1}, Working(i), NEW c \in Team, Wfi(c)
  PROVE  Working(i)'
  <1>1. Length \in Nat /\ c \in Cores /\ wake_up_q[c] \in Nat
    BY TheTeam DEF StateInv
  <1>2. program' = program /\ serial' = serial /\ event' = event /\ barrier' = barrier
    BY DEF Wfi
  <1>3. /\ Team' = Team /\ Length' = Length /\ Points' = Points
        /\ \A j : Op(j)' = Op(j) /\ AtEnd(j)' = AtEnd(j) /\ InMiddle(j)' = InMiddle(j)
    BY <1>2, Frozen DEF Op, AtEnd, InMiddle
  <1>4. /\ pc[c] \in {"wfi", "wfi_init"} /\ wake_up_q[c] > 0
        /\ pc'[c] = Resumed(c) /\ wake_up_q'[c] = wake_up_q[c] - 1
        /\ after'[c] = after[c] /\ turn'[c] = turn[c] /\ fn'[c] = fn[c]
    BY <1>1 DEF Wfi, StateInv
  <1>5. Alone(c)
    BY DEF Alone, Wfi, StateInv
  <1>6. ~ Waits(c, i) /\ ~ Closes(c, i) /\ ~ Waits(c, 1) /\ ~ Ended(c)
    BY <1>1, <1>4 DEF Waits, Closes, Ended
  <1>7. Thread(c, i)
    BY DEF Working
  <1>8. \/ Begins(c, i) /\ pc[c] = "wfi"
        \/ Enters(c, i) /\ pc[c] = "wfi_init"
        \/ Released(c, i)
    BY <1>4, <1>6, <1>7
    DEF Thread, Runs, Enters, Starts, Adds, Begins, Places, Sharing, Returns
  <1>9. InBarrier(c)' = InBarrier(c)
    BY <1>2, <1>3, <1>4 DEF InBarrier, InRegion
  <1>10. CASE Begins(c, i) /\ pc[c] = "wfi"
    <2>1. pc'[c] = "run_task" /\ after'[c] = "run_task" /\ wake_up_q'[c] = i
      BY <1>4, <1>10 DEF Begins, Resumed
    <2>2. Begins(c, i)' /\ ~ Ended(c)' /\ ~ Waits(c, i)' /\ ~ Closes(c, i)' /\ ~ Waits(c, 1)'
      BY <2>1 DEF Begins, Ended, Waits, Closes
    <2>3. Pos(c) = 0 /\ Pos(c)' = 0
      BY <1>6, <1>10, <2>1, <2>2 DEF Pos, Begins
    <2>4. Passed(c)' = Passed(c)
      BY <1>3, <2>3 DEF Passed
    <2>5. c = 0 => ~ Started /\ ~ Started' /\ pc'[0] \notin {"serial", "fork", "barrier_wake"}
      BY <1>6, <1>10, <2>1, <2>2 DEF Started
    <2>6. Moves(c, i)
      BY <1>2, <1>5, <1>6, <2>2, <2>4, <2>5 DEF Moves, Thread
    <2> QED
      BY <1>2, <1>6, <2>2, <2>5, <2>6, PlainMove
  <1>11. CASE Enters(c, i) /\ pc[c] = "wfi_init"
    <2>1. pc'[c] = "barrier_add" /\ i = 1 /\ wake_up_q'[c] = 0
      BY <1>4, <1>11 DEF Enters, Resumed
    <2>2. Adds(c, i)' /\ ~ Waits(c, i)' /\ ~ Closes(c, i)' /\ HeldUp(c)' /\ HeldUp(c)
      BY <1>9, <1>11, <2>1 DEF Adds, Waits, Closes, HeldUp, Enters, BarrierCode
    <2>3. HeldFacts(c) /\ HeldFacts(c)'
      BY <1>3, <2>2, HeldUpAt, HeldUpNext
    <2>4. Passed(c)' = Passed(c) /\ ~ Ended(c)'
      BY <1>3, <1>4, <2>3 DEF Passed, HeldFacts
    <2>5. c = 0 => Started /\ Started' /\ pc'[0] \notin {"serial", "fork", "barrier_wake"}
      BY <1>11, <2>1 DEF Started
    <2>6. Moves(c, i)
      BY <1>2, <1>5, <1>6, <2>2, <2>4, <2>5 DEF Moves, Thread
    <2> QED
      BY <1>2, <1>6, <2>4, <2>5, <2>6, PlainMove
  <1>12. CASE Released(c, i)
    <2>1. /\ pc[c] = "wfi" /\ pc'[c] = after[c] /\ wake_up_q'[c] = i /\ InBarrier(c)
          /\ turn[c] \in 1 .. Length /\ turn[c] \in Nat /\ fn[c] = serial
      BY <1>1, <1>4, <1>12 DEF Released, Resumed, InBarrier, InRegion
    <2>2. after[c] \in Returns /\ Fits(after[c], turn[c])
      BY <2>1 DEF InBarrier, Returns, Fits, Sharing, InMiddle, AtEnd
    <2>3. Fits(pc[c], turn[c])'
      BY <1>3, <1>4, <2>1, <2>2 DEF Fits
    <2>4. Runs(c, i)'
      BY <1>1, <1>2, <1>3, <1>4, <2>1, <2>2, <2>3 DEF Runs, InRegion, Places, Returns
    <2>5. RunsFacts(c, i)'
      BY <1>3, <2>4, RunsNext
    <2>6. Pos(c)' = 3 * turn[c] + (IF after[c] = "past" THEN 2 ELSE 1)
      BY <1>4, <2>1, <2>2, <2>5 DEF RunsFacts, PlaceOf, Returns
    <2>7. Pos(c) = 3 * turn[c] + (IF after[c] = "past" THEN 2 ELSE 1)
      BY <1>4, <1>6, <2>1, <2>2 DEF Pos, Half, Returns
    <2>8. Passed(c)' = Passed(c)
      BY <1>3, <2>6, <2>7 DEF Passed
    <2>9. c = 0 => ~ Started /\ ~ Started' /\ pc'[0] \notin {"serial", "fork", "barrier_wake"}
      BY <1>6, <2>1, <2>2, <2>5 DEF Started, RunsFacts, Returns
    <2>10. Moves(c, i)
      BY <1>2, <1>5, <1>6, <2>4, <2>5, <2>8, <2>9 DEF Moves, Thread, RunsFacts
    <2> QED
      BY <1>2, <1>6, <2>5, <2>9, <2>10, PlainMove DEF RunsFacts
  <1> QED
    BY <1>8, <1>10, <1>11, <1>12

(* A thread begins the region.                                             *)
LEMMA RunTaskStep ==
  ASSUME OneTeam, StateInv, StateInv', NEW i \in {0, 1}, Working(i), NEW c \in Team, run_task(c)
  PROVE  Working(i)'
  <1>1. Length \in Nat /\ c \in Cores /\ 1 \in 1 .. Length + 1
    BY TheTeam
  <1>2. /\ program' = program /\ serial' = serial /\ event' = event /\ barrier' = barrier
        /\ wake_up_q' = wake_up_q /\ after' = after
    BY DEF run_task
  <1>3. Team' = Team /\ Points' = Points
    BY <1>2, Frozen
  <1>4. event.fn = serial
    BY TheTeam DEF Working
  <1>5. Begins(c, i) /\ wake_up_q[c] = i /\ pc[c] = "run_task"
    <2>1. Thread(c, i) /\ pc[c] = "run_task"
      BY DEF Working, run_task
    <2> QED
      BY <2>1 DEF Thread, Runs, Enters, Starts, Adds, Waits, Closes, Released, Begins, Ended,
                  Places, Sharing, Returns
  <1>6. Goto(c, serial, 1) /\ wake_up_q'[c] = i
    BY <1>2, <1>4, <1>5 DEF run_task
  <1>7. /\ Runs(c, i)' /\ Pos(c)' \in Nat /\ 3 * 1 <= Pos(c)'
        /\ \A p \in Points : p <= Pos(c)' => p < 3 * 1
    BY <1>1, <1>2, <1>6, Entered
  <1>8. ~ Waits(c, i) /\ ~ Closes(c, i) /\ ~ Waits(c, 1) /\ ~ Ended(c)
    BY <1>5 DEF Waits, Closes, Ended
  <1>9. RunsFacts(c, i)'
    BY <1>3, <1>7, RunsNext
  <1>10. Pos(c) = 0
    BY <1>5, <1>8 DEF Pos, Begins
  <1>11. \A p \in Points : ~ (p < 3)
    <2>1. SUFFICES ASSUME NEW p \in Points
                   PROVE  ~ (p < 3)
      OBVIOUS
    <2>2. PICK j \in 1 .. Length : p = 3 * j + 1 \/ p = 3 * j + 2
      BY DEF Points
    <2> QED
      BY <1>1, <2>2
  <1>12. Passed(c)' = Passed(c)
    BY <1>3, <1>7, <1>10, <1>11, PassedSame
  <1>13. Alone(c)
    BY DEF Alone, run_task, Goto, StateInv
  <1>14. c = 0 => ~ Started /\ ~ Started' /\ pc'[0] \notin {"serial", "fork", "barrier_wake"}
    BY <1>5, <1>8, <1>9 DEF Started, RunsFacts, Places, Sharing, Returns
  <1>15. Moves(c, i)
    BY <1>2, <1>7, <1>8, <1>9, <1>12, <1>13, <1>14 DEF Moves, Thread, RunsFacts
  <1> QED
    BY <1>2, <1>8, <1>9, <1>14, <1>15, PlainMove DEF RunsFacts

(* A thread ends the region: no barrier is under way then.                 *)
LEMMA TaskEndStep ==
  ASSUME OneTeam, StateInv, StateInv', NEW i \in {0, 1}, Working(i), NEW c \in Team, TaskEnd(c)
  PROVE  Working(i)'
  <1>1. Length \in Nat /\ c \in Cores /\ Team \subseteq Cores
    BY TheTeam
  <1>2. program' = program /\ serial' = serial /\ barrier' = barrier /\ wake_up_q' = wake_up_q
    BY DEF TaskEnd
  <1>3. Team' = Team /\ Points' = Points /\ Length' = Length
    BY <1>2, Frozen
  <1>4. Runs(c, i) /\ pc[c] = "task_end"
    <2>1. Thread(c, i) /\ pc[c] = "task_end"
      BY DEF Working, TaskEnd
    <2> QED
      BY <2>1 DEF Thread, Enters, Starts, Adds, Waits, Closes, Released, Begins, Ended
  <1>5. i = 0
    <2>1. ~ (i = 1)
      BY <1>4, CoreZeroHeld, NobodyPast, TheTeam
    <2> QED
      BY <2>1
  <1>6. RunsFacts(c, i)
    BY <1>4, RunsAt
  <1>7. pc'[c] = (IF c = 0 THEN "join" ELSE "wfi") /\ after'[c] = "run_task" /\ wake_up_q'[c] = 0
    BY <1>1, <1>2, <1>4, <1>5 DEF TaskEnd, StateInv, Runs
  <1>8. Ended(c)'
    BY <1>7 DEF Ended
  <1>9. Pos(c) = 3 * (Length + 1) /\ Pos(c)' = 3 * (Length + 1)
    BY <1>3, <1>4, <1>6, <1>8 DEF RunsFacts, Pos
  <1>10. Passed(c)' = Passed(c)
    BY <1>3, <1>9 DEF Passed
  <1>11. Alone(c)
    BY <1>2 DEF Alone, TaskEnd, StateInv
  <1>12. ~ Waits(c, i)' /\ ~ Closes(c, i)' /\ ~ Waits(c, 1)'
    BY <1>7 DEF Waits, Closes, InBarrier
  <1>13. c = 0 => ~ Started /\ ~ Started' /\ pc'[0] \notin {"serial", "fork", "barrier_wake"}
    BY <1>4, <1>6, <1>7, <1>12 DEF Started, RunsFacts
  <1>14. Moves(c, i)
    BY <1>2, <1>6, <1>8, <1>10, <1>11, <1>12, <1>13 DEF Moves, Thread, RunsFacts
  <1>15. pc'[0] = "barrier_wake" => barrier' = 0
    BY <1>2, <1>11, <1>13, TheTeam DEF Alone, Working
  <1>16. event' = [event EXCEPT !.barrier = Cardinality({d \in Team : ~ Ended(d)'})]
    <2> DEFINE U == {d \in Team : ~ Ended(d)}
               V == {d \in Team : ~ Ended(d)'}
    <2>1. \A d \in Team : d # c => Ended(d)' = Ended(d)
      BY <1>1, <1>2, <1>11, Stays DEF Alone
    <2>2. V = U \ {c} /\ c \in U
      BY <1>6, <1>8, <2>1 DEF RunsFacts
    <2>3. IsFiniteSet(U)
      BY TheTeam, FS_Subset
    <2>4. Cardinality(V) = Cardinality(U) - 1
      BY <2>2, <2>3, FS_RemoveElement
    <2>5. event.barrier = Cardinality(U) /\ DOMAIN event = {"fn", "nthreads", "barrier", "thread_pool"}
      BY TheTeam DEF Working
    <2>6. event' = [event EXCEPT !.barrier = event.barrier - 1]
      BY DEF TaskEnd
    <2> HIDE DEF U, V
    <2>7. event' = [event EXCEPT !.barrier = Cardinality(V)]
      BY <2>4, <2>5, <2>6
    <2> QED
      BY <2>7 DEF V
  <1> QED
    BY <1>2, <1>14, <1>15, <1>16, MoveStep

(* A thread begins a barrier; core 0 first clears the counter.             *)
LEMMA BarrierInitStep ==
  ASSUME OneTeam, StateInv, StateInv', NEW i \in {0, 1}, Working(i), NEW c \in Team, BarrierInit(c)
  PROVE  Working(i)'
  <1>1. Length \in Nat /\ c \in Cores
    BY TheTeam
  <1>2. /\ program' = program /\ serial' = serial /\ event' = event /\ wake_up_q' = wake_up_q
        /\ after' = after /\ barrier' = IF c = 0 THEN 0 ELSE barrier
    BY DEF BarrierInit
  <1>3. /\ Team' = Team /\ Length' = Length /\ Points' = Points
        /\ \A j : AtEnd(j)' = AtEnd(j) /\ InMiddle(j)' = InMiddle(j)
    BY <1>2, Frozen DEF Op, AtEnd, InMiddle
  <1>4. Enters(c, i) /\ pc[c] = "barrier"
    <2>1. Thread(c, i) /\ pc[c] = "barrier"
      BY DEF Working, BarrierInit, Step
    <2> QED
      BY <2>1 DEF Thread, Runs, Starts, Adds, Waits, Closes, Released, Begins, Ended, Places, Sharing, Returns
  <1>5. /\ pc'[c] = (IF c = 0 THEN "barrier_wake" ELSE "wfi_init") /\ turn'[c] = turn[c] /\ fn'[c] = fn[c]
        /\ wake_up_q'[c] = i
    BY <1>1, <1>2, <1>4 DEF BarrierInit, Step, StateInv, Enters
  <1>6. InBarrier(c)' /\ InBarrier(c)
    BY <1>2, <1>3, <1>4, <1>5 DEF InBarrier, InRegion, Enters
  <1>7. ~ Waits(c, i) /\ ~ Closes(c, i) /\ ~ Waits(c, 1)
    BY <1>4 DEF Waits, Closes
  <1>8. ~ Waits(c, i)' /\ ~ Closes(c, i)' /\ ~ Waits(c, 1)'
    BY <1>5 DEF Waits, Closes
  <1>9. c = 0 => ~ Started /\ ~ Started' /\ pc'[0] \notin {"serial", "fork"}
    BY <1>4, <1>5, <1>7, <1>8 DEF Started
  <1>10. c = 0 => i = 0
    BY <1>9 DEF Working
  <1>11. Thread(c, i)'
    BY <1>5, <1>6, <1>10 DEF Thread, Enters, Starts
  <1>12. HeldUp(c) /\ HeldUp(c)'
    BY <1>4, <1>5, <1>6 DEF HeldUp, BarrierCode
  <1>13. HeldFacts(c) /\ HeldFacts(c)'
    BY <1>3, <1>12, HeldUpAt, HeldUpNext
  <1>14. Passed(c)' = Passed(c) /\ ~ Ended(c) /\ ~ Ended(c)'
    BY <1>2, <1>3, <1>5, <1>13 DEF Passed, HeldFacts
  <1>15. Alone(c)
    BY <1>2 DEF Alone, BarrierInit, Step, StateInv
  <1>16. Moves(c, i)
    BY <1>2, <1>7, <1>8, <1>9, <1>11, <1>14, <1>15 DEF Moves
  <1>17. CASE c # 0
    BY <1>2, <1>14, <1>16, <1>17, PlainMove
  <1>18. CASE c = 0
    <2>1. \A d \in Team : d # c => (Ended(d)' <=> Ended(d))
      BY <1>1, <1>2, <1>15, Stays, TheTeam DEF Alone
    <2>2. {d \in Team : ~ Ended(d)'} = {d \in Team : ~ Ended(d)}
      BY <1>14, <2>1
    <2>3. event' = [event EXCEPT !.barrier = Cardinality({d \in Team : ~ Ended(d)'})]
      BY <1>2, <2>2, TheTeam DEF Working
    <2>4. (i = 1 => barrier' = barrier) /\ (pc'[0] = "barrier_wake" => barrier' = 0)
      BY <1>2, <1>10, <1>18
    <2> QED
      BY <1>16, <2>3, <2>4, MoveStep
  <1> QED
    BY <1>17, <1>18

-------------------------------------------------------------------------------
(* wake_up_all: a core that sleeps goes on, any other stores the wake-up.  *)
Sleeps(d) == pc[d] \in {"wfi", "wfi_init"} /\ wake_up_q[d] = 0

(* What wake_up_all does to a core d.                                       *)
LEMMA Pulse ==
  ASSUME OneTeam, StateInv, NEW c \in Cores, NEW from, NEW to, WakeUpAll(c, from, to),
         from \notin {"wfi", "wfi_init"}, NEW d \in Cores
  PROVE  /\ pc[c] = from /\ fn' = fn /\ turn' = turn
         /\ d = c => pc'[d] = to
         /\ d # c => pc'[d] = IF Sleeps(d) THEN Resumed(d) ELSE pc[d]
         /\ Sleeps(d) => wake_up_q'[d] = 0
         /\ ~ Sleeps(d) /\ wake_up_q[d] \in {0, 1} => wake_up_q'[d] = wake_up_q[d] + 1
         /\ wake_up_q'[d] \in 0 .. OutstandingWfi - 1
  <1>1. pc[c] = from /\ fn' = fn /\ turn' = turn
    BY DEF WakeUpAll
  <1>2. OutstandingWfi \in Nat /\ OutstandingWfi >= 3 /\ wake_up_q[d] \in 0 .. OutstandingWfi - 1
    BY ConfigAssumption DEF OneTeam, StateInv
  <1> DEFINE asleep == {e \in Cores : pc[e] \in {"wfi", "wfi_init"} /\ wake_up_q[e] = 0}
  <1>3. d \in asleep <=> Sleeps(d)
    BY DEF Sleeps
  <1>4. pc' = [e \in Cores |-> IF e = c THEN to ELSE IF e \in asleep THEN Resumed(e) ELSE pc[e]]
    BY DEF WakeUpAll
  <1>5. wake_up_q' = [e \in Cores |-> WakeUpAfter(e \in asleep, wake_up_q[e], FALSE, TRUE)]
    BY DEF WakeUpAll
  <1>6. wake_up_q'[d] = IF d \in asleep THEN wake_up_q[d] ELSE (wake_up_q[d] + 1) % OutstandingWfi
    <2>1. wake_up_q'[d] = WakeUpAfter(d \in asleep, wake_up_q[d], FALSE, TRUE)
      BY <1>5
    <2> HIDE DEF asleep
    <2> QED
      BY <2>1 DEF WakeUpAfter
  <1> HIDE DEF asleep
  <1>7. (wake_up_q[d] + 1) % OutstandingWfi \in 0 .. OutstandingWfi - 1
    BY <1>2
  <1>8. wake_up_q[d] \in {0, 1} => (wake_up_q[d] + 1) % OutstandingWfi = wake_up_q[d] + 1
    BY <1>2
  <1>9. Sleeps(d) => wake_up_q[d] = 0
    BY DEF Sleeps
  <1> QED
    BY <1>1, <1>2, <1>3, <1>4, <1>6, <1>7, <1>8, <1>9

(* Core 0 starts the barrier.  A thread in front of it sleeps or will find *)
(* the wake-up stored, one that still has the last wake-up stores two.     *)
LEMMA StartStep ==
  ASSUME OneTeam, StateInv, StateInv', NEW i \in {0, 1}, Working(i), NEW c \in Team, BarrierInitWake(c)
  PROVE  Working(1)'
  <1>1. Length \in Nat /\ c \in Cores /\ Team \subseteq Cores /\ 0 \in Team
    BY TheTeam
  <1>2. /\ program' = program /\ serial' = serial /\ event' = event /\ barrier' = barrier
        /\ after' = after /\ WakeUpAll(c, "barrier_wake", "wfi_init") /\ pc[c] = "barrier_wake"
    BY DEF BarrierInitWake, WakeUpAll
  <1>3. /\ Team' = Team /\ Length' = Length /\ Points' = Points /\ set_event(serial)' = set_event(serial)
        /\ \A j : Op(j)' = Op(j) /\ AtEnd(j)' = AtEnd(j) /\ InMiddle(j)' = InMiddle(j)
    BY <1>2, Frozen DEF Op, AtEnd, InMiddle
  <1>4. Starts(c, i) /\ c = 0 /\ i = 0
    <2>1. Thread(c, i) /\ pc[c] = "barrier_wake"
      BY <1>2 DEF Working
    <2>2. Starts(c, i)
      BY <2>1 DEF Thread, Runs, Enters, Adds, Waits, Closes, Released, Begins, Ended, Places, Sharing, Returns
    <2> QED
      BY <2>2 DEF Starts
  <1>5. HeldUp(0)
    BY <1>2, <1>4 DEF HeldUp, Starts, BarrierCode
  <1>6. \A d \in Team : ~ Ended(d)
    BY <1>1, <1>5, NobodyPast
  <1>7. ASSUME NEW d \in Team
        PROVE  Thread(d, 1)' /\ ~ Waits(d, 1)' /\ ~ Closes(d, 1)' /\ ~ Ended(d)' /\ Passed(d)' = Passed(d)
    <2>1. /\ fn' = fn /\ turn' = turn /\ after' = after
          /\ d = 0 => pc'[d] = "wfi_init"
          /\ d # 0 => pc'[d] = IF Sleeps(d) THEN Resumed(d) ELSE pc[d]
          /\ Sleeps(d) => wake_up_q'[d] = 0
          /\ ~ Sleeps(d) /\ wake_up_q[d] \in {0, 1} => wake_up_q'[d] = wake_up_q[d] + 1
      BY <1>1, <1>2, <1>4, Pulse
    <2>2. InRegion(d)' = InRegion(d) /\ InBarrier(d)' = InBarrier(d)
      BY <1>2, <1>3, <2>1 DEF InRegion, InBarrier
    <2>3. CASE d = 0
      <3>1. wake_up_q[d] = 0 /\ ~ Sleeps(d) /\ InBarrier(d) /\ HeldUp(d)
        BY <1>2, <1>4, <1>5, <2>3 DEF Starts, Sleeps
      <3>2. wake_up_q'[d] = 1 /\ pc'[d] = "wfi_init"
        BY <2>1, <2>3, <3>1
      <3>3. Enters(d, 1)' /\ HeldUp(d)' /\ ~ Waits(d, 1)' /\ ~ Closes(d, 1)'
        BY <2>2, <3>1, <3>2 DEF Enters, HeldUp, Waits, Closes, BarrierCode
      <3>4. HeldFacts(d) /\ HeldFacts(d)'
        BY <1>3, <3>1, <3>3, HeldUpAt, HeldUpNext
      <3> QED
        BY <1>3, <2>1, <3>3, <3>4 DEF Thread, HeldFacts, Passed
    <2>4. CASE d # 0 /\ Runs(d, 0)
      <3>1. RunsFacts(d, 0)
        BY <2>4, RunsAt
      <3>2. ~ Sleeps(d) /\ wake_up_q[d] = 0
        BY <2>4, <3>1 DEF Sleeps, RunsFacts, Places, Sharing, Returns, Runs
      <3>3. pc'[d] = pc[d] /\ wake_up_q'[d] = 1
        BY <2>1, <2>4, <3>2
      <3>4. Fits(pc[d], turn[d])' <=> Fits(pc[d], turn[d])
        BY <1>3, <2>1, <3>3 DEF Fits
      <3>5. Runs(d, 1)'
        BY <1>3, <2>1, <2>2, <2>4, <3>3, <3>4 DEF Runs
      <3>6. RunsFacts(d, 1)'
        BY <1>3, <3>5, RunsNext
      <3>7. Pos(d)' = Pos(d)
        BY <1>3, <2>1, <3>1, <3>3, <3>6 DEF RunsFacts, PlaceOf
      <3> QED
        BY <1>3, <3>5, <3>6, <3>7 DEF Thread, Passed, RunsFacts
    <2>5. CASE d # 0 /\ Enters(d, 0)
      <3>1. HeldUp(d) /\ InBarrier(d) /\ wake_up_q[d] = 0
        BY <2>5 DEF Enters, HeldUp, BarrierCode
      <3>2. \/ pc'[d] = "barrier" /\ wake_up_q'[d] = 1
            \/ pc'[d] = "barrier_add" /\ wake_up_q'[d] = 0
        BY <2>1, <2>5, <3>1 DEF Enters, Sleeps, Resumed
      <3>3. (Enters(d, 1)' \/ Adds(d, 1)') /\ HeldUp(d)' /\ ~ Waits(d, 1)' /\ ~ Closes(d, 1)'
        BY <2>2, <3>1, <3>2 DEF Enters, Adds, HeldUp, Waits, Closes, BarrierCode
      <3>4. HeldFacts(d) /\ HeldFacts(d)'
        BY <1>3, <3>1, <3>3, HeldUpAt, HeldUpNext
      <3> QED
        BY <1>3, <2>1, <3>3, <3>4 DEF Thread, HeldFacts, Passed
    <2>6. CASE d # 0 /\ Released(d, 0)
      <3>1. pc[d] = "wfi" /\ wake_up_q[d] = 1 /\ InBarrier(d) /\ ~ Sleeps(d)
        BY <2>6 DEF Released, Sleeps
      <3>2. pc'[d] = "wfi" /\ wake_up_q'[d] = 2
        BY <2>1, <2>6, <3>1
      <3>3. Released(d, 1)' /\ ~ Waits(d, 1)' /\ ~ Closes(d, 1)' /\ ~ Ended(d)'
        BY <2>2, <3>1, <3>2 DEF Released, Waits, Closes, Ended
      <3>4. Half(d)' = Half(d)
        BY <2>1, <3>1, <3>2 DEF Half
      <3>5. Pos(d)' = Pos(d)
        BY <1>3, <1>6, <2>1, <3>1, <3>2, <3>3, <3>4 DEF Pos
      <3> QED
        BY <1>3, <3>3, <3>5 DEF Thread, Passed
    <2>7. CASE d # 0 /\ Begins(d, 0)
      <3>1. after[d] = "run_task" /\ pc[d] \in {"run_task", "wfi"} /\ ~ Sleeps(d) /\ wake_up_q[d] \in {0, 1}
        BY <2>7 DEF Begins, Sleeps
      <3>2. pc'[d] = pc[d] /\ wake_up_q'[d] = wake_up_q[d] + 1
        BY <2>1, <2>7, <3>1
      <3>3. Begins(d, 1)' /\ ~ Waits(d, 1)' /\ ~ Closes(d, 1)' /\ ~ Ended(d)'
        BY <2>1, <2>7, <3>1, <3>2 DEF Begins, Waits, Closes, Ended
      <3>4. Pos(d)' = 0 /\ Pos(d) = 0
        BY <1>6, <2>1, <3>1, <3>2, <3>3 DEF Pos
      <3> QED
        BY <1>3, <3>3, <3>4 DEF Thread, Passed
    <2>8. Thread(d, 0) /\ ~ Ended(d)
      BY <1>4, <1>6 DEF Working
    <2>9. ~ Starts(d, 0) \/ d = 0
      BY DEF Starts
    <2> QED
      BY <2>3, <2>4, <2>5, <2>6, <2>7, <2>8, <2>9 DEF Thread, Adds, Waits, Closes
  <1>8. pc'[0] = "wfi_init"
    BY <1>1, <1>2, <1>4, Pulse
  <1>9. Started'
    BY <1>8 DEF Started
  <1>10. \A d, e \in Team : Passed(d)' = Passed(e)'
    BY <1>7 DEF Working
  <1>11. barrier' = 0 /\ {d \in Team : Waits(d, 1)'} = {}
    BY <1>2, <1>4, <1>7 DEF Working
  <1>12. barrier' = Cardinality({d \in Team : Waits(d, 1)'})
    BY <1>11, FS_EmptySet
  <1>13. {d \in Team : ~ Ended(d)'} = {d \in Team : ~ Ended(d)}
    BY <1>6, <1>7
  <1>14. event' = [set_event(serial)' EXCEPT !.barrier = Cardinality({d \in Team : ~ Ended(d)'})]
    BY <1>2, <1>3, <1>13 DEF Working
  <1> QED
    BY <1>3, <1>7, <1>8, <1>9, <1>10, <1>12, <1>14 DEF Working

(* A thread in the barrier moves to another place in front of it.          *)
LEMMA HeldOn ==
  ASSUME OneTeam, StateInv, StateInv', NEW c \in Team, HeldUp(c), Alone(c),
         program' = program, serial' = serial, after'[c] = after[c], turn'[c] = turn[c], fn'[c] = fn[c],
         pc'[c] \in BarrierCode \/ (pc'[c] = "wfi" /\ wake_up_q'[c] = 0)
  PROVE  /\ InBarrier(c)'
         /\ \A d \in Team : Passed(d)' = Passed(d) /\ (Ended(d)' <=> Ended(d))
         /\ ~ Ended(c)
  <1>1. /\ Team' = Team /\ Length' = Length /\ Points' = Points
        /\ \A j : AtEnd(j)' = AtEnd(j) /\ InMiddle(j)' = InMiddle(j)
    BY Frozen DEF Op, AtEnd, InMiddle
  <1>2. InBarrier(c)'
    BY <1>1 DEF HeldUp, InBarrier, InRegion
  <1>3. HeldFacts(c) /\ HeldFacts(c)'
    BY <1>1, <1>2, HeldUpAt, HeldUpNext DEF HeldUp
  <1>4. Passed(c)' = Passed(c) /\ ~ Ended(c) /\ ~ Ended(c)'
    BY <1>1, <1>3 DEF HeldFacts, Passed
  <1>5. \A d \in Team : d # c => Passed(d)' = Passed(d) /\ (Ended(d)' <=> Ended(d))
    BY Stays, TheTeam DEF Alone
  <1> QED
    BY <1>2, <1>4, <1>5

(* A thread counts itself; the one that finds all others counted goes on   *)
(* to clear the counter.                                                   *)
LEMMA FetchAddStep ==
  ASSUME OneTeam, StateInv, StateInv', NEW i \in {0, 1}, Working(i), NEW c \in Team, FetchAdd(c)
  PROVE  Working(i)'
  <1>1. Length \in Nat /\ c \in Cores /\ Team \subseteq Cores /\ 0 \in Team
    BY TheTeam
  <1>2. /\ program' = program /\ serial' = serial /\ event' = event /\ wake_up_q' = wake_up_q
        /\ after' = after /\ fn' = fn /\ turn' = turn /\ barrier' = barrier + 1
    BY DEF FetchAdd, Step
  <1>3. Team' = Team /\ set_event(serial)' = set_event(serial)
    BY <1>2, Frozen
  <1>4. Adds(c, i) /\ i = 1
    <2>1. Thread(c, i) /\ pc[c] = "barrier_add"
      BY DEF Working, FetchAdd, Step
    <2>2. Adds(c, i)
      BY <2>1 DEF Thread, Runs, Enters, Starts, Waits, Closes, Released, Begins, Ended, Places, Sharing, Returns
    <2> QED
      BY <2>2 DEF Adds
  <1>5. Alone(c)
    BY <1>2 DEF Alone, FetchAdd, Step, StateInv
  <1>6. /\ pc'[c] = IF barrier = event.nthreads - 1 THEN "barrier_clear" ELSE "wfi"
        /\ wake_up_q'[c] = 0
    BY <1>1, <1>2, <1>4 DEF FetchAdd, Step, StateInv, Adds
  <1>7. /\ InBarrier(c)' /\ ~ Ended(c)
        /\ \A d \in Team : Passed(d)' = Passed(d) /\ (Ended(d)' <=> Ended(d))
    <2>1. HeldUp(c) /\ (pc'[c] \in BarrierCode \/ (pc'[c] = "wfi" /\ wake_up_q'[c] = 0))
      BY <1>4, <1>6 DEF HeldUp, Adds, BarrierCode
    <2> QED
      BY <1>2, <1>5, <2>1, HeldOn
  <1>8. ASSUME NEW d \in Team, d # c
        PROVE  /\ Thread(d, i)' = Thread(d, i) /\ Waits(d, i)' = Waits(d, i) /\ Closes(d, i)' = Closes(d, i)
               /\ Waits(d, 1)' = Waits(d, 1) /\ pc'[d] = pc[d]
    BY <1>1, <1>2, <1>5, <1>8, Stays DEF Alone
  <1> DEFINE W == {d \in Team : Waits(d, i)}
  <1>9. (\A d \in Team : ~ Closes(d, i)) /\ barrier = Cardinality(W)
    <2>1. ~ Waits(c, i) /\ ~ Closes(c, i)
      BY <1>4 DEF Adds, Waits, Closes
    <2> QED
      BY <1>4, <2>1 DEF Working
  <1>10. W \subseteq Team \ {c} /\ IsFiniteSet(W) /\ IsFiniteSet(Team \ {c}) /\ Cardinality(Team \ {c}) = Size - 1
    <2>1. ~ Waits(c, i)
      BY <1>4 DEF Adds, Waits
    <2>2. W \subseteq Team \ {c}
      BY <2>1
    <2> HIDE DEF W
    <2> QED
      BY <2>2, TheTeam, FS_Subset, FS_RemoveElement
  <1>11. event.nthreads = Size
    BY TheTeam DEF Working
  <1>12. Started' /\ pc'[0] \notin {"serial", "fork", "barrier_wake"}
    <2>1. CASE c = 0
      BY <1>6, <1>7, <2>1 DEF Started, Waits
    <2>2. CASE c # 0
      <3>1. Started /\ pc[0] \notin {"serial", "fork"} /\ HeldUp(0)
        BY <1>4, CoreZeroHeld DEF Working
      <3>2. pc[0] # "barrier_wake"
        BY <3>1 DEF Started, Waits
      <3> QED
        BY <1>1, <1>8, <2>2, <3>1, <3>2 DEF Started
    <2> QED
      BY <2>1, <2>2
  <1>13. event' = [set_event(serial)' EXCEPT !.barrier = Cardinality({d \in Team : ~ Ended(d)'})]
    <2>1. {d \in Team : ~ Ended(d)'} = {d \in Team : ~ Ended(d)}
      BY <1>7
    <2> QED
      BY <1>2, <1>3, <2>1 DEF Working
  <1>14. \A d, e \in Team : Passed(d)' = Passed(e)'
    BY <1>7 DEF Working
  <1>15. CASE barrier = Size - 1
    <2>1. W = Team \ {c}
      <3> HIDE DEF W
      <3> QED
        BY <1>9, <1>10, <1>15, FS_Subset
    <2>2. Closes(c, i)'
      BY <1>4, <1>6, <1>7, <1>11, <1>15 DEF Closes
    <2>3. \A d \in Team \ {c} : Waits(d, i)' /\ Thread(d, i)'
      BY <1>8, <2>1 DEF Working
    <2>4. \A d \in Team : Thread(d, i)'
      BY <2>2, <2>3 DEF Thread
    <2> QED
      BY <1>3, <1>4, <1>12, <1>13, <1>14, <2>2, <2>3, <2>4 DEF Working
  <1>16. CASE barrier # Size - 1
    <2>1. Waits(c, i)' /\ ~ Closes(c, i)'
      BY <1>4, <1>6, <1>7, <1>11, <1>16 DEF Waits, Closes
    <2>2. {d \in Team : Waits(d, i)'} = W \cup {c}
      BY <1>8, <2>1
    <2>3. c \notin W
      BY <1>10
    <2>4. Cardinality(W \cup {c}) = Cardinality(W) + 1
      <3> HIDE DEF W
      <3> QED
        BY <1>10, <2>3, FS_AddElement
    <2>5. \A d \in Team : Thread(d, i)' /\ ~ Closes(d, i)'
      BY <1>8, <1>9, <2>1 DEF Thread, Working
    <2>6. barrier' = Cardinality({d \in Team : Waits(d, i)'})
      BY <1>2, <1>9, <2>2, <2>4
    <2> QED
      BY <1>3, <1>4, <1>12, <1>13, <1>14, <2>5, <2>6 DEF Working
  <1> QED
    BY <1>15, <1>16

(* The last thread, and what it knows of the others.                       *)
LEMMA LastThread ==
  ASSUME OneTeam, StateInv, NEW i \in {0, 1}, Working(i), NEW c \in Team,
         pc[c] \in {"barrier_clear", "barrier_release"}
  PROVE  /\ i = 1 /\ Closes(c, 1) /\ HeldUp(c)
         /\ \A d \in Team \ {c} : Waits(d, 1) /\ HeldUp(d)
         /\ \A d \in Team : Pos(d) = Pos(c) /\ ~ Ended(d)
  <1>1. Closes(c, i) /\ i = 1
    <2>1. Thread(c, i)
      BY DEF Working
    <2>2. Closes(c, i)
      BY <2>1 DEF Thread, Runs, Enters, Starts, Adds, Waits, Released, Begins, Ended, Places, Sharing, Returns
    <2> QED
      BY <2>2 DEF Closes
  <1>2. PICK l \in Team : Closes(l, i) /\ \A d \in Team \ {l} : Waits(d, i)
    BY <1>1 DEF Working
  <1>3. l = c
    BY <1>1, <1>2 DEF Closes, Waits
  <1>4. \A d \in Team \ {c} : Waits(d, 1) /\ HeldUp(d)
    BY <1>1, <1>2, <1>3 DEF HeldUp, Waits
  <1>5. HeldUp(c)
    BY <1>1 DEF HeldUp, Closes, BarrierCode
  <1>6. \A d \in Team : HeldUp(d)
    BY <1>4, <1>5
  <1>7. ASSUME NEW d \in Team
        PROVE  Pos(d) = Pos(c) /\ ~ Ended(d)
    <2>1. HeldFacts(d) /\ HeldFacts(c)
      BY <1>6, HeldUpAt
    <2>2. ~ (Pos(d) >= Pos(c) + 1) /\ ~ (Pos(c) >= Pos(d) + 1)
      BY <1>6, NobodyPast
    <2> QED
      BY <2>1, <2>2 DEF HeldFacts
  <1> QED
    BY <1>1, <1>4, <1>5, <1>7

(* The last thread clears the counter.                                      *)
LEMMA ClearStep ==
  ASSUME OneTeam, StateInv, StateInv', NEW i \in {0, 1}, Working(i), NEW c \in Team, Clear(c)
  PROVE  Working(i)'
  <1>1. c \in Cores /\ Team \subseteq Cores /\ 0 \in Team
    BY TheTeam
  <1>2. /\ program' = program /\ serial' = serial /\ event' = event /\ wake_up_q' = wake_up_q
        /\ after' = after /\ fn' = fn /\ turn' = turn /\ pc[c] = "barrier_clear"
    BY DEF Clear, Step
  <1>3. Team' = Team /\ set_event(serial)' = set_event(serial)
    BY <1>2, Frozen
  <1>4. /\ i = 1 /\ Closes(c, 1) /\ HeldUp(c) /\ \A d \in Team \ {c} : Waits(d, 1)
    BY <1>2, LastThread
  <1>5. Alone(c) /\ pc'[c] = "barrier_release"
    BY <1>1, <1>2 DEF Alone, Clear, Step, StateInv
  <1>6. InBarrier(c)' /\ \A d \in Team : Passed(d)' = Passed(d) /\ (Ended(d)' <=> Ended(d))
    BY <1>2, <1>4, <1>5, HeldOn DEF BarrierCode
  <1>7. Closes(c, 1)'
    BY <1>2, <1>4, <1>5, <1>6 DEF Closes
  <1>8. \A d \in Team \ {c} : Waits(d, 1)'
    BY <1>1, <1>2, <1>4, <1>5, Stays DEF Alone
  <1>9. \A d \in Team : Thread(d, 1)'
    BY <1>7, <1>8 DEF Thread
  <1>10. Started' /\ pc'[0] \notin {"serial", "fork", "barrier_wake"}
    BY <1>1, <1>5, <1>8 DEF Started, Waits
  <1>11. event' = [set_event(serial)' EXCEPT !.barrier = Cardinality({d \in Team : ~ Ended(d)'})]
    <2>1. {d \in Team : ~ Ended(d)'} = {d \in Team : ~ Ended(d)}
      BY <1>6
    <2> QED
      BY <1>2, <1>3, <2>1 DEF Working
  <1>12. \A d, e \in Team : Passed(d)' = Passed(e)'
    BY <1>6 DEF Working
  <1> QED
    BY <1>3, <1>4, <1>7, <1>8, <1>9, <1>10, <1>11, <1>12 DEF Working

(* The last thread wakes the others: all of the team has passed the        *)
(* barrier at once.                                                        *)
LEMMA ReleaseStep ==
  ASSUME OneTeam, StateInv, StateInv', NEW i \in {0, 1}, Working(i), NEW c \in Team, Release(c)
  PROVE  Working(0)'
  <1>1. Length \in Nat /\ c \in Cores /\ Team \subseteq Cores /\ 0 \in Team
    BY TheTeam
  <1>2. /\ program' = program /\ serial' = serial /\ event' = event /\ barrier' = barrier
        /\ after' = after /\ WakeUpAll(c, "barrier_release", "wfi") /\ pc[c] = "barrier_release"
    BY DEF Release, WakeUpAll
  <1>3. /\ Team' = Team /\ Length' = Length /\ Points' = Points /\ set_event(serial)' = set_event(serial)
        /\ \A j : Op(j)' = Op(j) /\ AtEnd(j)' = AtEnd(j) /\ InMiddle(j)' = InMiddle(j)
    BY <1>2, Frozen DEF Op, AtEnd, InMiddle
  <1>4. /\ Closes(c, 1) /\ HeldUp(c) /\ \A d \in Team \ {c} : Waits(d, 1) /\ HeldUp(d)
        /\ \A d \in Team : Pos(d) = Pos(c) /\ ~ Ended(d)
    BY <1>2, LastThread
  <1>5. ASSUME NEW d \in Team
        PROVE  /\ Thread(d, 0)' /\ ~ Closes(d, 0)' /\ ~ Ended(d)' /\ Pos(d)' = Pos(c) + 1
               /\ d = 0 => ~ Started' /\ pc'[0] \notin {"serial", "fork", "barrier_wake"}
    <2>1. /\ fn' = fn /\ turn' = turn /\ after' = after
          /\ d = c => pc'[d] = "wfi"
          /\ d # c => pc'[d] = IF Sleeps(d) THEN Resumed(d) ELSE pc[d]
          /\ Sleeps(d) => wake_up_q'[d] = 0
          /\ ~ Sleeps(d) /\ wake_up_q[d] \in {0, 1} => wake_up_q'[d] = wake_up_q[d] + 1
      BY <1>1, <1>2, Pulse
    <2>2. InRegion(d)' = InRegion(d) /\ InBarrier(d)' = InBarrier(d)
      BY <1>2, <1>3, <2>1 DEF InRegion, InBarrier
    <2>3. HeldFacts(d) /\ InBarrier(d)
      BY <1>4, HeldUpAt DEF HeldUp
    <2>4. CASE d = c
      <3>1. pc'[d] = "wfi" /\ wake_up_q'[d] = 1
        BY <1>2, <1>4, <2>1, <2>4 DEF Sleeps, Closes
      <3>2. Released(d, 0)' /\ ~ Closes(d, 0)' /\ ~ Ended(d)' /\ ~ Waits(d, 1)'
        BY <2>2, <2>3, <3>1 DEF Released, Closes, Ended, Waits
      <3>3. Half(d)' = IF after[d] = "past" THEN 2 ELSE 1
        BY <2>1, <2>3, <3>1 DEF Half, HeldFacts, Returns
      <3>4. Pos(d)' = 3 * turn[d] + (IF after[d] = "past" THEN 2 ELSE 1)
        BY <2>1, <2>3, <3>1, <3>2, <3>3 DEF Pos, HeldFacts, Returns
      <3>5. Pos(d)' = Pos(c) + 1
        BY <1>4, <2>3, <3>4 DEF HeldFacts
      <3> QED
        BY <3>1, <3>2, <3>5 DEF Thread, Started
    <2>5. CASE d # c
      <3>1. Sleeps(d) /\ pc[d] = "wfi"
        BY <1>4, <2>5 DEF Sleeps, Waits
      <3>2. pc'[d] = after[d] /\ wake_up_q'[d] = 0
        BY <2>1, <2>5, <3>1 DEF Resumed
      <3>3. after[d] \in Returns /\ Fits(after[d], turn[d])
        BY <2>3 DEF InBarrier, Returns, Fits, Sharing, InMiddle, AtEnd
      <3>4. Fits(pc[d], turn[d])'
        BY <1>3, <2>1, <3>2, <3>3 DEF Fits
      <3>5. Runs(d, 0)'
        BY <1>1, <1>3, <2>1, <2>2, <2>3, <3>2, <3>3, <3>4 DEF Runs, InBarrier, Places, HeldFacts
      <3>6. RunsFacts(d, 0)'
        BY <1>3, <3>5, RunsNext
      <3>7. Pos(d)' = 3 * turn[d] + (IF after[d] = "past" THEN 2 ELSE 1)
        BY <2>1, <3>2, <3>3, <3>6 DEF RunsFacts, PlaceOf, Returns
      <3>8. Pos(d)' = Pos(c) + 1
        BY <1>4, <2>3, <3>7 DEF HeldFacts
      <3> QED
        BY <3>2, <3>3, <3>5, <3>6, <3>8 DEF Thread, Started, RunsFacts, Returns
    <2> QED
      BY <2>4, <2>5
  <1>6. \A d, e \in Team : Passed(d)' = Passed(e)'
    <2>1. \A d \in Team : Passed(d)' = {p \in Points : p <= Pos(c) + 1}
      BY <1>3, <1>5 DEF Passed
    <2> QED
      BY <2>1
  <1>7. {d \in Team : ~ Ended(d)'} = {d \in Team : ~ Ended(d)}
    BY <1>4, <1>5
  <1>8. event' = [set_event(serial)' EXCEPT !.barrier = Cardinality({d \in Team : ~ Ended(d)'})]
    BY <1>2, <1>3, <1>7 DEF Working
  <1> QED
    BY <1>1, <1>3, <1>5, <1>6, <1>8 DEF Working

-------------------------------------------------------------------------------
(* The steps of a thread within the constructs.                            *)
ConstructStep(c) ==
  \/ Past(c) \/ LockShare(c) \/ gomp_work_share_start(c) \/ Share(c) \/ Unlock(c) \/ GOMP_sections_next(c)
  \/ Loop(c) \/ Work(c) \/ Copied(c) \/ GOMP_barrier(c) \/ Task(c) \/ EnterCritical(c) \/ LeaveCritical(c)

(* Whoever is at a place of a construct runs the region.                    *)
LEMMA PlacesRun ==
  ASSUME OneTeam, StateInv, NEW i \in {0, 1}, Working(i), NEW c \in Team, pc[c] \in Places
  PROVE  /\ Runs(c, i) /\ turn[c] \in 1 .. Length /\ Fits(pc[c], turn[c]) /\ fn[c] = serial
         /\ At(c) = program[serial].body[turn[c]] /\ At(c).op = Op(turn[c]) /\ pc[c] # "task_end"
         /\ Op(turn[c]) \in Constructs
  <1>1. Thread(c, i) /\ Length \in Nat
    BY TheTeam DEF Working
  <1>2. Runs(c, i) /\ pc[c] # "task_end"
    BY <1>1 DEF Thread, Enters, Starts, Adds, Waits, Closes, Released, Begins, Ended, Places, Sharing, Returns
  <1>3. turn[c] \in 1 .. Length /\ Fits(pc[c], turn[c]) /\ fn[c] = serial
    BY <1>2, RunsAt DEF RunsFacts, Runs, InRegion
  <1> QED
    BY <1>2, <1>3, TheRegion DEF At, Op

(* Each of them keeps the team together.                                    *)
LEMMA ConstructSteps ==
  ASSUME OneTeam, StateInv, StateInv', NEW i \in {0, 1}, Working(i), NEW c \in Team, ConstructStep(c)
  PROVE  Working(i)'
  <1> DEFINE k == turn[c]
  <1>1. /\ program' = program /\ serial' = serial /\ event' = event /\ barrier' = barrier
        /\ wake_up_q' = wake_up_q
    BY DEF ConstructStep, Past, LockShare, gomp_work_share_start, Share, Unlock, GOMP_sections_next,
           Loop, NextChunk, LoopEnd, Work, Copied, GOMP_barrier, Task, EnterCritical, LeaveCritical
  <1>2. pc[c] \in Places
    BY DEF ConstructStep, Past, LockShare, gomp_work_share_start, Share, Unlock, GOMP_sections_next,
           Loop, Work, Copied, GOMP_barrier, CallBarrier, Step, Task, EnterCritical, LeaveCritical,
           Places, Sharing, Returns
  <1>3. /\ Runs(c, i) /\ k \in 1 .. Length /\ Fits(pc[c], k) /\ fn[c] = serial
        /\ At(c).op = Op(k) /\ pc[c] # "task_end" /\ Op(k) \in Constructs
    BY <1>2, PlacesRun
  <1>4. ASSUME pc[c] = "past" \/ ~ AtEnd(k), Advance(c), after' = after
        PROVE  Working(i)'
    BY <1>1, <1>3, <1>4, AdvanceStep
  <1>5. ASSUME NEW to \in Places \ {"past"}, pc[c] # "past", Fits(to, k), Step(c, pc[c], to), after' = after,
               \/ to \in {"sync", "copied"} /\ (~ InMiddle(k) \/ pc[c] \in {"sync", "copied"})
               \/ to \notin {"sync", "copied"} /\ pc[c] \notin {"sync", "copied"}
        PROVE  Working(i)'
    BY <1>1, <1>3, <1>5, WithinStep
  <1>6. ASSUME NEW ret \in Returns, pc[c] # "past", CallBarrier(c, pc[c], ret),
               \/ ret = "past" /\ AtEnd(k) /\ (~ InMiddle(k) \/ pc[c] \in {"sync", "copied"})
               \/ ret \in {"sync", "copied"} /\ InMiddle(k) /\ pc[c] \notin {"sync", "copied"}
        PROVE  Working(i)'
    BY <1>1, <1>3, <1>6, CallStep
  <1> HIDE DEF k
  <1>7. CASE Past(c)
    BY <1>4, <1>7 DEF Past
  <1>8. CASE LockShare(c)
    <2>1. pc[c] = "lock" /\ Step(c, pc[c], "check") /\ after' = after
      BY <1>8 DEF LockShare, Step
    <2>2. "check" \in Places \ {"past"} /\ Fits("check", k)
      BY <1>3, <2>1 DEF Fits, Places, Sharing, Returns
    <2> QED
      BY <1>5, <2>1, <2>2
  <1>9. CASE gomp_work_share_start(c)
    <2>1. pc[c] = "check" /\ Step(c, pc[c], "share") /\ after' = after
      BY <1>9 DEF gomp_work_share_start, Step
    <2>2. "share" \in Places \ {"past"} /\ Fits("share", k)
      BY <1>3, <2>1 DEF Fits, Places, Sharing, Returns
    <2> QED
      BY <1>5, <2>1, <2>2
  <1>10. CASE Share(c)
    <2>1. pc[c] = "share" /\ Step(c, pc[c], "unlock") /\ after' = after
      BY <1>10 DEF Share, Step
    <2>2. "unlock" \in Places \ {"past"} /\ Fits("unlock", k)
      BY <1>3, <2>1 DEF Fits, Places, Sharing, Returns
    <2> QED
      BY <1>5, <2>1, <2>2
  <1>11. CASE GOMP_sections_next(c)
    <2>1. pc[c] = "sections_next" /\ Step(c, pc[c], "share") /\ after' = after
      BY <1>11 DEF GOMP_sections_next, Step
    <2>2. "share" \in Places \ {"past"} /\ Fits("share", k)
      BY <1>3, <2>1 DEF Fits, Places, Sharing, Returns
    <2> QED
      BY <1>5, <2>1, <2>2
  <1>12. CASE Unlock(c)
    <2>1. pc[c] = "unlock" /\ Op(k) \in {"loop", "sections", "single", "copyprivate"}
      BY <1>3, <1>12 DEF Unlock, Fits, Sharing
    <2>2. \/ Op(k) = "loop" /\ Step(c, pc[c], "loop_start") /\ after' = after
          \/ Op(k) = "sections" /\ Advance(c) /\ after' = after
          \/ Op(k) = "single" /\ Step(c, pc[c], "sync") /\ after' = after
          \/ Op(k) = "copyprivate" /\ CallBarrier(c, pc[c], "copied")
          \/ Op(k) # "loop" /\ Step(c, pc[c], "work") /\ after' = after
      BY <1>3, <1>12, <2>1 DEF Unlock
    <2>3. CASE Op(k) = "loop" /\ Step(c, pc[c], "loop_start") /\ after' = after
      BY <1>5, <2>1, <2>3 DEF Fits, Places, Sharing, Returns
    <2>4. CASE Op(k) = "sections" /\ Advance(c) /\ after' = after
      BY <1>4, <2>4 DEF AtEnd
    <2>5. CASE Op(k) = "single" /\ Step(c, pc[c], "sync") /\ after' = after
      BY <1>5, <2>1, <2>5 DEF Fits, Places, Sharing, Returns, InMiddle
    <2>6. CASE Op(k) = "copyprivate" /\ CallBarrier(c, pc[c], "copied")
      BY <1>6, <2>1, <2>6 DEF Returns, InMiddle
    <2>7. CASE Op(k) # "loop" /\ Step(c, pc[c], "work") /\ after' = after
      BY <1>5, <2>1, <2>7 DEF Fits, Places, Sharing, Returns
    <2> QED
      BY <2>2, <2>3, <2>4, <2>5, <2>6, <2>7
  <1>13. CASE Loop(c)
    <2>1. pc[c] \in {"loop_start", "loop_next"} /\ Op(k) = "loop"
      BY <1>3, <1>13 DEF Loop, Fits
    <2>2. \/ Step(c, pc[c], "work") /\ after' = after
          \/ program[serial].fn = "GOMP_parallel" /\ CallBarrier(c, pc[c], "past")
          \/ program[serial].fn # "GOMP_parallel" /\ Advance(c) /\ after' = after
      BY <1>3, <1>13 DEF Loop, NextChunk, LoopEnd
    <2>3. CASE Step(c, pc[c], "work") /\ after' = after
      BY <1>5, <2>1, <2>3 DEF Fits, Places, Sharing, Returns
    <2>4. CASE program[serial].fn = "GOMP_parallel" /\ CallBarrier(c, pc[c], "past")
      BY <1>6, <2>1, <2>4 DEF Returns, InMiddle, AtEnd
    <2>5. CASE program[serial].fn # "GOMP_parallel" /\ Advance(c) /\ after' = after
      BY <1>4, <2>1, <2>5 DEF AtEnd
    <2> QED
      BY <2>2, <2>3, <2>4, <2>5
  <1>14. CASE Work(c)
    <2>1. pc[c] = "work" /\ Op(k) \in {"loop", "sections", "single", "copyprivate"}
      BY <1>3, <1>14 DEF Work, Fits
    <2>2. \/ Op(k) = "loop" /\ Step(c, pc[c], "loop_next") /\ after' = after
          \/ Op(k) = "sections" /\ Step(c, pc[c], "sections_next") /\ after' = after
          \/ Op(k) = "single" /\ Step(c, pc[c], "sync") /\ after' = after
          \/ Op(k) = "copyprivate" /\ CallBarrier(c, pc[c], "sync")
      BY <1>3, <1>14, <2>1 DEF Work
    <2>3. CASE Op(k) = "loop" /\ Step(c, pc[c], "loop_next") /\ after' = after
      BY <1>5, <2>1, <2>3 DEF Fits, Places, Sharing, Returns
    <2>4. CASE Op(k) = "sections" /\ Step(c, pc[c], "sections_next") /\ after' = after
      BY <1>5, <2>1, <2>4 DEF Fits, Places, Sharing, Returns
    <2>5. CASE Op(k) = "single" /\ Step(c, pc[c], "sync") /\ after' = after
      BY <1>5, <2>1, <2>5 DEF Fits, Places, Sharing, Returns, InMiddle
    <2>6. CASE Op(k) = "copyprivate" /\ CallBarrier(c, pc[c], "sync")
      BY <1>6, <2>1, <2>6 DEF Returns, InMiddle
    <2> QED
      BY <2>2, <2>3, <2>4, <2>5, <2>6
  <1>15. CASE Copied(c)
    <2>1. pc[c] = "copied" /\ Step(c, pc[c], "sync") /\ after' = after
      BY <1>15 DEF Copied, Step
    <2>2. "sync" \in Places \ {"past"} /\ Fits("sync", k)
      BY <1>3, <2>1 DEF Fits, Places, Sharing, Returns
    <2> QED
      BY <1>5, <2>1, <2>2
  <1>16. CASE GOMP_barrier(c)
    <2>1. pc[c] = "sync" /\ CallBarrier(c, pc[c], "past")
      BY <1>16 DEF GOMP_barrier, CallBarrier, Step
    <2>2. AtEnd(k)
      BY <1>3, <2>1 DEF Fits, AtEnd
    <2> QED
      BY <1>6, <2>1, <2>2 DEF Returns
  <1>17. CASE Task(c)
    <2>1. Op(k) = "task" /\ Advance(c) /\ after' = after
      BY <1>3, <1>17 DEF Task, Fits
    <2> QED
      BY <1>4, <2>1 DEF AtEnd
  <1>18. CASE EnterCritical(c)
    <2>1. pc[c] = "critical" /\ Step(c, pc[c], "in_critical") /\ after' = after
      BY <1>18 DEF EnterCritical, Step
    <2>2. "in_critical" \in Places \ {"past"} /\ Fits("in_critical", k)
      BY <1>3, <2>1 DEF Fits, Places, Sharing, Returns
    <2> QED
      BY <1>5, <2>1, <2>2
  <1>19. CASE LeaveCritical(c)
    <2>1. Op(k) = "critical" /\ Advance(c) /\ after' = after
      BY <1>3, <1>19 DEF LeaveCritical, Fits
    <2> QED
      BY <1>4, <2>1 DEF AtEnd
  <1> QED
    BY <1>7, <1>8, <1>9, <1>10, <1>11, <1>12, <1>13, <1>14, <1>15, <1>16, <1>17, <1>18, <1>19 DEF ConstructStep

-------------------------------------------------------------------------------
(* The invariant holds at reset.                                            *)
LEMMA InitState ==
  ASSUME OneTeam, Init
  PROVE  OmpInv
  <1>1. program \in Programs /\ serial = 1 /\ NumCores \in Nat \ {0} /\ OutstandingWfi \in Nat \ {0}
    BY ConfigAssumption DEF Init
  <1>2. Compiled(program)
    BY <1>1 DEF OneTeam
  <1>3. StateInv
    <2>1. serial \in DOMAIN program
      BY <1>1, <1>2 DEF Compiled
    <2> QED
      BY <1>1, <2>1 DEF Init, StateInv, Returns
  <1>4. 0 \in Team /\ Team \subseteq Cores
    BY <1>3, TheTeam
  <1>5. TeamInv
    BY <1>4 DEF Init, TeamInv, Serial, Asleep, Outsider
  <1>6. LockInv
    BY DEF Init, LockInv, Locks, CriticalExclusive
  <1> QED
    BY <1>3, <1>5, <1>6 DEF OmpInv

(* Types and domains.                                                       *)
LEMMA StateStep ==
  ASSUME OneTeam, StateInv, TeamInv, Next
  PROVE  StateInv'
  <1>1. 0 \in Cores /\ Compiled(program)
    BY TheTeam
  <1>2. ASSUME NEW c \in Cores, NEW from, NEW to, from \notin {"wfi", "wfi_init"}, WakeUpAll(c, from, to)
        PROVE  /\ DOMAIN pc' = Cores /\ fn' = fn /\ turn' = turn
               /\ wake_up_q' \in [Cores -> 0 .. OutstandingWfi - 1]
    <2>1. \A d \in Cores : wake_up_q'[d] \in 0 .. OutstandingWfi - 1
      BY <1>2, Pulse
    <2>2. wake_up_q' = [d \in Cores |-> wake_up_q'[d]]
      BY <1>2 DEF WakeUpAll
    <2> QED
      BY <1>2, <2>1, <2>2 DEF WakeUpAll
  <1>3. CASE Fork
    BY <1>3 DEF Fork, Step, StateInv
  <1>4. CASE GOMP_parallel_start
    BY <1>1, <1>2, <1>4 DEF GOMP_parallel_start, StateInv
  <1>5. CASE GOMP_parallel_end
    BY <1>1, <1>5 DEF GOMP_parallel_end, Step, StateInv, Compiled
  <1>6. ASSUME NEW c \in Cores, CoreStep(c)
        PROVE  StateInv'
    <2>1. CASE Wfi(c)
      <3>1. wake_up_q[c] - 1 \in 0 .. OutstandingWfi - 1
        BY <2>1, ConfigAssumption DEF Wfi, StateInv
      <3> QED
        BY <2>1, <3>1 DEF Wfi, StateInv
    <2>2. CASE run_task(c) \/ NotInTeam(c) \/ TaskEnd(c) \/ BarrierInit(c) \/ FetchAdd(c) \/ Clear(c)
      BY <2>2 DEF run_task, NotInTeam, TaskEnd, BarrierInit, FetchAdd, Clear, Goto, Step, StateInv
    <2>3. CASE BarrierInitWake(c) \/ Release(c)
      BY <1>2, <2>3 DEF BarrierInitWake, Release, StateInv
    <2>4. CASE ConstructStep(c)
      <3>1. program' = program /\ serial' = serial /\ wake_up_q' = wake_up_q
        BY <2>4 DEF ConstructStep, Past, LockShare, gomp_work_share_start, Share, Unlock, GOMP_sections_next,
               Loop, NextChunk, LoopEnd, Work, Copied, GOMP_barrier, Task, EnterCritical, LeaveCritical
      <3>2. \/ \E from, to : Step(c, from, to) /\ after' = after
            \/ Advance(c) /\ after' = after
            \/ \E from : \E ret \in Returns : CallBarrier(c, from, ret)
        <4>1. CASE Unlock(c)
          BY <4>1 DEF Unlock, Returns
        <4>2. CASE Work(c)
          <5>1. At(c).op \in {"loop", "sections", "single", "copyprivate"}
            <6>1. pc[c] = "work"
              BY <4>2 DEF Work
            <6>2. c \in Team /\ \E i \in {0, 1} : Working(i)
              BY <1>6, <6>1 DEF TeamInv, Outsider, Serial, Asleep
            <6> QED
              BY <6>1, <6>2, PlacesRun DEF Places, Fits
          <5> QED
            BY <4>2, <5>1 DEF Work, Returns
        <4>3. CASE Loop(c)
          BY <4>3 DEF Loop, NextChunk, LoopEnd, Returns
        <4> QED
          BY <2>4, <4>1, <4>2, <4>3
          DEF ConstructStep, Past, LockShare, gomp_work_share_start, Share, GOMP_sections_next,
              Copied, GOMP_barrier, Task, EnterCritical, LeaveCritical, Returns
      <3> QED
        BY <3>1, <3>2 DEF Step, Advance, Goto, CallBarrier, StateInv
    <2> QED
      BY <1>6, <2>1, <2>2, <2>3, <2>4 DEF CoreStep, ConstructStep
  <1> QED
    BY <1>3, <1>4, <1>5, <1>6 DEF Next, MasterStep

-------------------------------------------------------------------------------
(* What the team does does not depend on the cores outside of it.          *)
LEMMA Untouched ==
  ASSUME OneTeam, StateInv, NEW i \in {0, 1}, Working(i),
         program' = program, serial' = serial, event' = event, barrier' = barrier,
         \A d \in Team : /\ pc'[d] = pc[d] /\ after'[d] = after[d] /\ fn'[d] = fn[d] /\ turn'[d] = turn[d]
                         /\ wake_up_q'[d] = wake_up_q[d]
  PROVE  Working(i)'
  <1>1. Team' = Team /\ set_event(serial)' = set_event(serial) /\ 0 \in Team
    BY Frozen, TheTeam
  <1>2. ASSUME NEW d \in Team
        PROVE  /\ Thread(d, i)' = Thread(d, i) /\ Waits(d, i)' = Waits(d, i) /\ Closes(d, i)' = Closes(d, i)
               /\ Waits(d, 1)' = Waits(d, 1) /\ Ended(d)' = Ended(d) /\ Passed(d)' = Passed(d) /\ pc'[d] = pc[d]
    BY Stays
  <1>3. /\ {d \in Team : ~ Ended(d)'} = {d \in Team : ~ Ended(d)}
        /\ {d \in Team : Waits(d, i)'} = {d \in Team : Waits(d, i)}
    BY <1>2
  <1>4. event' = [set_event(serial)' EXCEPT !.barrier = Cardinality({d \in Team : ~ Ended(d)'})]
    BY <1>1, <1>3 DEF Working
  <1>5. (i = 1 <=> Started') /\ pc'[0] \notin {"serial", "fork"} /\ (pc'[0] = "barrier_wake" => barrier' = 0)
    BY <1>1, <1>2 DEF Working, Started
  <1>6. \A d \in Team : Thread(d, i)'
    BY <1>2 DEF Working
  <1>7. \A d, e \in Team : Passed(d)' = Passed(e)'
    BY <1>2 DEF Working
  <1>8. \/ \A c \in Team : ~ Closes(c, i)' /\ (i = 1 => barrier' = Cardinality({d \in Team : Waits(d, i)'}))
        \/ \E l \in Team : Closes(l, i)' /\ \A c \in Team \ {l} : Waits(c, i)'
    BY <1>2, <1>3 DEF Working
  <1> QED
    BY <1>1, <1>4, <1>5, <1>6, <1>7, <1>8 DEF Working

(* The team has its event while it works.                                  *)
LEMMA TeamEvent ==
  OneTeam /\ StateInv => \A i \in {0, 1} : Working(i) => event.thread_pool = Team
  BY TheTeam DEF Working

(* The same after a step.                                                   *)
LEMMA TeamEventNext ==
  OneTeam /\ StateInv' => \A i \in {0, 1} : Working(i)' => event'.thread_pool = Team'
  <1>1. (OneTeam /\ StateInv => \A i \in {0, 1} : Working(i) => event.thread_pool = Team)'
    BY TeamEvent, PTL
  <1> QED
    BY <1>1

(* A wake-up leaves the cores outside of the team outside.                 *)
LEMMA OutsidersWoken ==
  ASSUME OneTeam, StateInv, \A d \in Cores \ Team : Outsider(d), NEW c \in Team, NEW from, NEW to,
         from \notin {"wfi", "wfi_init"}, WakeUpAll(c, from, to), program' = program,
         \A d \in Cores \ Team : after'[d] = after[d]
  PROVE  \A d \in Cores \ Team : Outsider(d)'
  <1> SUFFICES ASSUME NEW d \in Cores \ Team
               PROVE  Outsider(d)'
    OBVIOUS
  <1>1. d \in Cores /\ d # c /\ c \in Cores
    BY TheTeam
  <1>2. pc'[d] = IF Sleeps(d) THEN Resumed(d) ELSE pc[d]
    BY <1>1, Pulse
  <1>3. pc[d] \in {"wfi", "run_task"} /\ after[d] = "run_task" /\ after'[d] = "run_task"
    BY DEF Outsider
  <1> QED
    BY <1>2, <1>3 DEF Outsider, Resumed

(* While the master is alone no thread of the team takes a step.           *)
LEMMA NobodyElse ==
  ASSUME OneTeam, StateInv, Serial, NEW c \in Team
  PROVE  ~ CoreStep(c)
  <1>1. pc[c] \in {"serial", "fork", "wfi"} /\ wake_up_q[c] = 0
    BY DEF Serial, Asleep
  <1>2. ~ Wfi(c)
    BY <1>1 DEF Wfi
  <1>3. ~ (run_task(c) \/ NotInTeam(c) \/ TaskEnd(c) \/ BarrierInit(c) \/ BarrierInitWake(c))
    BY <1>1 DEF run_task, NotInTeam, TaskEnd, BarrierInit, BarrierInitWake, WakeUpAll, Step
  <1>4. ~ (FetchAdd(c) \/ Clear(c) \/ Release(c))
    BY <1>1 DEF FetchAdd, Clear, Release, WakeUpAll, Step
  <1>5. ~ ConstructStep(c)
    <2>1. ConstructStep(c) => pc[c] \in Places
      BY DEF ConstructStep, Past, LockShare, gomp_work_share_start, Share, Unlock, GOMP_sections_next,
             Loop, Work, Copied, GOMP_barrier, CallBarrier, Step, Task, EnterCritical, LeaveCritical,
             Places, Sharing, Returns
    <2> QED
      BY <1>1, <2>1 DEF Places, Sharing, Returns
  <1> QED
    BY <1>2, <1>3, <1>4, <1>5 DEF CoreStep, ConstructStep

(* The steps of a thread of the team.                                      *)
LEMMA ThreadSteps ==
  ASSUME OneTeam, StateInv, StateInv', NEW i \in {0, 1}, Working(i), NEW c \in Team, CoreStep(c)
  PROVE  \E j \in {0, 1} : Working(j)'
  <1>1. ~ NotInTeam(c)
    BY TeamEvent DEF NotInTeam
  <1>2. CASE Wfi(c)
    BY <1>2, WfiStep
  <1>3. CASE run_task(c)
    BY <1>3, RunTaskStep
  <1>4. CASE TaskEnd(c)
    BY <1>4, TaskEndStep
  <1>5. CASE BarrierInit(c)
    BY <1>5, BarrierInitStep
  <1>6. CASE BarrierInitWake(c)
    BY <1>6, StartStep
  <1>7. CASE FetchAdd(c)
    BY <1>7, FetchAddStep
  <1>8. CASE Clear(c)
    BY <1>8, ClearStep
  <1>9. CASE Release(c)
    BY <1>9, ReleaseStep
  <1>10. CASE ConstructStep(c)
    BY <1>10, ConstructSteps
  <1> QED
    BY <1>1, <1>2, <1>3, <1>4, <1>5, <1>6, <1>7, <1>8, <1>9, <1>10 DEF CoreStep, ConstructStep

(* They keep the team together and leave the other cores out.              *)
LEMMA TeamCoreStep ==
  ASSUME OneTeam, StateInv, StateInv', TeamInv, NEW c \in Team, CoreStep(c)
  PROVE  TeamInv'
  <1>1. Team \subseteq Cores /\ 0 \in Team
    BY TheTeam
  <1>2. PICK i \in {0, 1} : Working(i)
    BY NobodyElse DEF TeamInv
  <1>3. program' = program /\ serial' = serial
    BY DEF CoreStep, Wfi, run_task, NotInTeam, TaskEnd, BarrierInit, BarrierInitWake,
           FetchAdd, Clear, Release, Past, LockShare, gomp_work_share_start, Share, Unlock,
           GOMP_sections_next, Loop, NextChunk, LoopEnd, Work, Copied, GOMP_barrier, Task, EnterCritical,
           LeaveCritical
  <1>4. Team' = Team
    BY <1>3, Frozen
  <1>5. \E j \in {0, 1} : Working(j)'
    BY <1>2, ThreadSteps
  <1>6. event'.thread_pool = Team'
    BY <1>5, TeamEventNext
  <1>7. \A d \in Cores \ Team : Outsider(d)'
    <2>1. CASE BarrierInitWake(c) \/ Release(c)
      <3>1. after' = after /\ (WakeUpAll(c, "barrier_wake", "wfi_init") \/ WakeUpAll(c, "barrier_release", "wfi"))
        BY <2>1 DEF BarrierInitWake, Release
      <3> QED
        BY <1>3, <3>1, OutsidersWoken DEF TeamInv
    <2>2. CASE ~ (BarrierInitWake(c) \/ Release(c))
      <3>1. \A d \in Cores \ {c} : pc'[d] = pc[d] /\ after'[d] = after[d]
        <4>1. CASE ConstructStep(c)
          <5>1. \/ \E from, to : Step(c, from, to) /\ after' = after
                \/ Advance(c) /\ after' = after
                \/ \E from, ret : CallBarrier(c, from, ret)
            <6>1. CASE Unlock(c)
              BY <6>1 DEF Unlock
            <6>2. CASE Work(c)
              <7>1. pc[c] = "work"
                BY <6>2 DEF Work
              <7>2. At(c).op \in {"loop", "sections", "single", "copyprivate"}
                BY <1>2, <7>1, PlacesRun DEF Places, Fits
              <7> QED
                BY <6>2, <7>2 DEF Work
            <6>3. CASE Loop(c)
              BY <6>3 DEF Loop, NextChunk, LoopEnd
            <6> QED
              BY <4>1, <6>1, <6>2, <6>3
              DEF ConstructStep, Past, LockShare, gomp_work_share_start, Share, GOMP_sections_next,
                  Copied, GOMP_barrier, Task, EnterCritical, LeaveCritical
          <5> QED
            BY <5>1 DEF Step, Advance, Goto, CallBarrier, StateInv
        <4>2. CASE Wfi(c) \/ run_task(c) \/ NotInTeam(c) \/ TaskEnd(c) \/ BarrierInit(c) \/ FetchAdd(c) \/ Clear(c)
          BY <4>2 DEF Wfi, run_task, NotInTeam, TaskEnd, BarrierInit, FetchAdd, Clear, Goto, Step, StateInv
        <4> QED
          BY <2>2, <4>1, <4>2 DEF CoreStep, ConstructStep
      <3> QED
        BY <3>1 DEF TeamInv, Outsider
    <2> QED
      BY <2>1, <2>2
  <1> QED
    BY <1>4, <1>5, <1>6, <1>7 DEF TeamInv

(* A core outside of the team wakes up and goes back to sleep.             *)
LEMMA OutsiderMoves ==
  ASSUME OneTeam, StateInv, TeamInv, NEW c \in Cores \ Team, CoreStep(c)
  PROVE  /\ Wfi(c) \/ NotInTeam(c)
         /\ UNCHANGED <<program, serial, event, barrier, works, after, first, got, completed, fn, turn, ran>>
         /\ Alone(c) /\ pc'[c] \in {"wfi", "run_task"}
  <1>1. Outsider(c)
    BY DEF TeamInv
  <1>2. Wfi(c) \/ NotInTeam(c)
    <2>1. ~ run_task(c)
      BY DEF run_task, TeamInv
    <2>2. ~ (TaskEnd(c) \/ BarrierInit(c) \/ BarrierInitWake(c) \/ FetchAdd(c) \/ Clear(c) \/ Release(c))
      BY <1>1 DEF Outsider, TaskEnd, BarrierInit, BarrierInitWake, FetchAdd, Clear, Release, WakeUpAll, Step
    <2>3. ~ ConstructStep(c)
      <3>1. ConstructStep(c) => pc[c] \in Places
        BY DEF ConstructStep, Past, LockShare, gomp_work_share_start, Share, Unlock, GOMP_sections_next,
               Loop, Work, Copied, GOMP_barrier, CallBarrier, Step, Task, EnterCritical, LeaveCritical,
               Places, Sharing, Returns
      <3> QED
        BY <1>1, <3>1 DEF Outsider, Places, Sharing, Returns
    <2> QED
      BY <2>1, <2>2, <2>3 DEF CoreStep, ConstructStep
  <1>3. UNCHANGED <<program, serial, event, barrier, works, after, first, got, completed, fn, turn, ran>>
    BY <1>2 DEF Wfi, NotInTeam, localVars, Step
  <1>4. Alone(c) /\ pc'[c] \in {"wfi", "run_task"}
    BY <1>1, <1>2 DEF Wfi, NotInTeam, Alone, Step, StateInv, Outsider, Resumed
  <1> QED
    BY <1>2, <1>3, <1>4

(* Steps of the cores outside of the team keep the team as it is.          *)
LEMMA OutsiderSteps ==
  ASSUME OneTeam, StateInv, StateInv', TeamInv, NEW c \in Cores \ Team, CoreStep(c)
  PROVE  TeamInv'
  <1>1. Outsider(c) /\ Team \subseteq Cores /\ 0 \in Team
    BY TheTeam DEF TeamInv
  <1>2. program' = program /\ serial' = serial /\ event' = event /\ barrier' = barrier /\ after' = after
    BY OutsiderMoves
  <1>3. Alone(c) /\ pc'[c] \in {"wfi", "run_task"}
    BY OutsiderMoves
  <1>4. Team' = Team /\ set_event(serial)' = set_event(serial)
    BY <1>2, Frozen
  <1>5. \A d \in Team : /\ pc'[d] = pc[d] /\ after'[d] = after[d] /\ fn'[d] = fn[d] /\ turn'[d] = turn[d]
                        /\ wake_up_q'[d] = wake_up_q[d]
    BY <1>1, <1>3 DEF Alone
  <1>6. \A d \in Cores \ Team : Outsider(d)'
    BY <1>1, <1>2, <1>3 DEF Outsider, Alone, TeamInv
  <1>7. Serial => Serial'
    BY <1>1, <1>2, <1>4, <1>5 DEF Serial, Asleep
  <1>8. ASSUME NEW i \in {0, 1}, Working(i)
        PROVE  Working(i)'
    BY <1>2, <1>5, <1>8, Untouched
  <1> QED
    BY <1>1, <1>2, <1>4, <1>5, <1>6, <1>7, <1>8 DEF TeamInv

(* The master forks: nobody else of the team is awake.                     *)
LEMMA ForkStep ==
  ASSUME OneTeam, StateInv, StateInv', TeamInv, Fork
  PROVE  TeamInv'
  <1>1. Team \subseteq Cores /\ 0 \in Team /\ 0 \in Cores
    BY TheTeam
  <1>2. pc[0] = "serial" /\ program' = program /\ serial' = serial /\ wake_up_q' = wake_up_q /\ after' = after
    BY DEF Fork, Step
  <1>3. Team' = Team /\ set_event(serial)' = set_event(serial)
    BY <1>2, Frozen
  <1>4. Serial
    BY <1>2 DEF TeamInv, Working
  <1>5. pc'[0] = "fork" /\ \A d \in Cores \ {0} : pc'[d] = pc[d]
    BY <1>1 DEF Fork, Step, StateInv
  <1>6. event' = set_event(serial)' /\ event'.thread_pool = Team
    BY <1>3, TheTeam DEF Fork
  <1>7. Serial'
    BY <1>1, <1>2, <1>3, <1>4, <1>5, <1>6 DEF Serial, Asleep
  <1>8. \A d \in Cores \ Team : Outsider(d)'
    BY <1>1, <1>2, <1>5 DEF TeamInv, Outsider
  <1> QED
    BY <1>3, <1>6, <1>7, <1>8 DEF TeamInv

(* GOMP_parallel_start wakes the team.                                     *)
LEMMA TeamStarts ==
  ASSUME OneTeam, StateInv, StateInv', TeamInv, GOMP_parallel_start
  PROVE  TeamInv'
  <1>1. Team \subseteq Cores /\ 0 \in Team /\ 0 \in Cores /\ Cardinality(Team) = Size
    BY TheTeam
  <1>2. /\ program' = program /\ serial' = serial /\ event' = event /\ barrier' = barrier
        /\ WakeUpAll(0, "fork", "wfi") /\ pc[0] = "fork"
        /\ after'[0] = "run_task" /\ \A d \in Cores \ {0} : after'[d] = after[d]
    BY <1>1 DEF GOMP_parallel_start, WakeUpAll, StateInv
  <1>3. Team' = Team /\ set_event(serial)' = set_event(serial) /\ Points' = Points
    BY <1>2, Frozen
  <1>4. Serial /\ event = set_event(serial) /\ event.thread_pool = Team
    BY <1>2 DEF TeamInv, Working, Serial
  <1>5. ASSUME NEW d \in Team
        PROVE  Begins(d, 0)' /\ ~ Ended(d)' /\ Pos(d)' = 0 /\ ~ Closes(d, 0)' /\ (d = 0 => pc'[d] = "wfi" /\ wake_up_q'[d] = 1)
    <2>1. /\ d = 0 => pc'[d] = "wfi"
          /\ d # 0 => pc'[d] = IF Sleeps(d) THEN Resumed(d) ELSE pc[d]
          /\ Sleeps(d) => wake_up_q'[d] = 0
          /\ ~ Sleeps(d) /\ wake_up_q[d] \in {0, 1} => wake_up_q'[d] = wake_up_q[d] + 1
      BY <1>1, <1>2, Pulse
    <2>2. after'[d] = "run_task"
      BY <1>1, <1>2, <1>4 DEF Serial, Asleep
    <2>3. d = 0 => pc'[d] = "wfi" /\ wake_up_q'[d] = 1
      BY <1>2, <1>4, <2>1 DEF Serial, Sleeps
    <2>4. d # 0 => pc'[d] = "run_task" /\ wake_up_q'[d] = 0
      BY <1>4, <2>1 DEF Serial, Asleep, Sleeps, Resumed
    <2>5. Begins(d, 0)' /\ ~ Ended(d)' /\ ~ Closes(d, 0)'
      BY <2>2, <2>3, <2>4 DEF Begins, Ended, Closes
    <2>6. Pos(d)' = 0
      BY <2>2, <2>3, <2>4, <2>5 DEF Pos
    <2> QED
      BY <2>3, <2>5, <2>6
  <1>6. ~ Started' /\ pc'[0] \notin {"serial", "fork", "barrier_wake"}
    BY <1>1, <1>5 DEF Started, Waits
  <1>7. \A d, e \in Team : Passed(d)' = Passed(e)'
    BY <1>5 DEF Passed
  <1>8. event' = [set_event(serial)' EXCEPT !.barrier = Cardinality({d \in Team : ~ Ended(d)'})]
    <2>1. {d \in Team : ~ Ended(d)'} = Team
      BY <1>5
    <2> QED
      BY <1>1, <1>2, <1>3, <1>4, <2>1, TheTeam
  <1>9. Working(0)'
    BY <1>3, <1>5, <1>6, <1>7, <1>8 DEF Working, Thread
  <1>10. \A d \in Cores \ Team : Outsider(d)'
    BY <1>1, <1>2, OutsidersWoken DEF TeamInv
  <1> QED
    BY <1>2, <1>3, <1>4, <1>9, <1>10 DEF TeamInv

(* GOMP_parallel_end returns when all of the team has ended the region.    *)
LEMMA TeamEnds ==
  ASSUME OneTeam, StateInv, StateInv', TeamInv, GOMP_parallel_end
  PROVE  TeamInv'
  <1>1. Team \subseteq Cores /\ 0 \in Team /\ 0 \in Cores /\ IsFiniteSet(Team)
    BY TheTeam
  <1>2. /\ program' = program /\ event' = event /\ wake_up_q' = wake_up_q /\ after' = after
        /\ pc[0] = "join" /\ event.barrier = 0
    BY DEF GOMP_parallel_end, Step
  <1>3. Team' = Team
    BY <1>2 DEF Team, Size, TeamSize, num_cores
  <1>4. PICK i \in {0, 1} : Working(i)
    BY <1>2 DEF TeamInv, Serial
  <1>5. \A d \in Team : Ended(d)
    <2> DEFINE U == {d \in Team : ~ Ended(d)}
    <2>1. Cardinality(U) = 0
      BY <1>2, <1>4, TheTeam DEF Working
    <2>2. IsFiniteSet(U)
      BY <1>1, FS_Subset
    <2>3. U = {}
      <3> HIDE DEF U
      <3> QED
        BY <2>1, <2>2, FS_EmptySet
    <2> QED
      BY <2>3
  <1>6. pc'[0] = "serial" /\ \A d \in Cores \ {0} : pc'[d] = pc[d]
    BY <1>1 DEF GOMP_parallel_end, Step, StateInv
  <1>7. Serial'
    BY <1>1, <1>2, <1>3, <1>5, <1>6 DEF Serial, Asleep, Ended
  <1>8. event.thread_pool = Team
    BY <1>4, TeamEvent
  <1>9. \A d \in Cores \ Team : Outsider(d)'
    BY <1>1, <1>2, <1>6 DEF TeamInv, Outsider
  <1> QED
    BY <1>2, <1>3, <1>7, <1>8, <1>9 DEF TeamInv

(* Every step keeps the team together.                                      *)
LEMMA TeamStep ==
  ASSUME OneTeam, StateInv, StateInv', TeamInv, Next
  PROVE  TeamInv'
  BY TeamCoreStep, OutsiderSteps, ForkStep, TeamStarts, TeamEnds DEF Next, MasterStep

-------------------------------------------------------------------------------
(* Steps that neither take a lock of a critical section nor enter one.     *)
LEMMA LocksKept ==
  ASSUME LockInv, program' = program, Locks \subseteq DOMAIN works', \A l \in Locks : works'[l] = works[l],
         \A d \in Cores : pc'[d] = "in_critical" =>
           pc[d] = "in_critical" /\ fn'[d] = fn[d] /\ turn'[d] = turn[d]
  PROVE  LockInv'
  <1>1. \A d \in Cores : pc'[d] = "in_critical" => pc[d] = "in_critical" /\ At(d)' = At(d)
    BY DEF At
  <1> QED
    BY <1>1 DEF LockInv, CriticalExclusive

(* A construct never starts inside of a critical section.                  *)
LEMMA EntryOutside ==
  ASSUME NEW call, NEW x, x.op \in Constructs
  PROVE  Entry(call, x) # "in_critical"
  BY DEF Entry, Constructs

(* A thread that goes to another construct leaves the critical sections.    *)
LEMMA AdvanceOutside ==
  ASSUME OneTeam, StateInv, NEW c \in Cores, NEW k, Goto(c, serial, k)
  PROVE  pc'[c] # "in_critical" /\ \A d \in Cores \ {c} : pc'[d] = pc[d] /\ fn'[d] = fn[d] /\ turn'[d] = turn[d]
  <1>1. \A d \in Cores \ {c} : pc'[d] = pc[d] /\ fn'[d] = fn[d] /\ turn'[d] = turn[d]
    BY DEF Goto, StateInv
  <1>2. pc'[c] = IF k \in DOMAIN program[serial].body
                   THEN Entry(program[serial].fn, program[serial].body[k]) ELSE "task_end"
    BY DEF Goto, StateInv
  <1>3. k \in DOMAIN program[serial].body => program[serial].body[k].op \in Constructs
    BY TheRegion DEF Op
  <1> QED
    BY <1>1, <1>2, <1>3, EntryOutside

(* wake_up_all moves nobody into a critical section.                       *)
LEMMA WokenOutside ==
  ASSUME OneTeam, StateInv, NEW c \in Cores, NEW from, NEW to, WakeUpAll(c, from, to),
         from \notin {"wfi", "wfi_init"}, to # "in_critical"
  PROVE  \A d \in Cores : pc'[d] = "in_critical" => pc[d] = "in_critical" /\ fn'[d] = fn[d] /\ turn'[d] = turn[d]
  <1> SUFFICES ASSUME NEW d \in Cores, pc'[d] = "in_critical"
               PROVE  pc[d] = "in_critical" /\ fn'[d] = fn[d] /\ turn'[d] = turn[d]
    OBVIOUS
  <1>1. /\ fn' = fn /\ turn' = turn /\ (d = c => pc'[d] = to)
        /\ d # c => pc'[d] = IF Sleeps(d) THEN Resumed(d) ELSE pc[d]
    BY Pulse
  <1>2. Resumed(d) # "in_critical"
    BY DEF Resumed, StateInv, Returns
  <1> QED
    BY <1>1, <1>2

(* The functions under works.lock leave the other locks alone.             *)
LEMMA ShareKeepsLocks ==
  ASSUME OneTeam, StateInv, TeamInv, LockInv, NEW c \in Cores,
         \/ LockShare(c) \/ Share(c) \/ Unlock(c) \/ GOMP_sections_next(c) \/ Loop(c) \/ Work(c) \/ Copied(c)
  PROVE  /\ Locks \subseteq DOMAIN works' /\ (\A l \in Locks : works'[l] = works[l])
         /\ program' = program
         /\ \A d \in Cores : pc'[d] = "in_critical" =>
              pc[d] = "in_critical" /\ fn'[d] = fn[d] /\ turn'[d] = turn[d]
  <1>1. pc[c] \in Places /\ pc[c] \in {"lock", "share", "unlock", "sections_next", "loop_start", "loop_next", "work", "copied"}
    BY DEF LockShare, Share, Unlock, GOMP_sections_next, Loop, Work, Copied, Step, Places, Sharing, Returns
  <1>2. c \in Team
    BY <1>1 DEF TeamInv, Outsider
  <1>3. PICK i \in {0, 1} : Working(i)
    BY <1>1, <1>2 DEF TeamInv, Serial, Asleep
  <1>4. fn[c] = serial /\ Fits(pc[c], turn[c]) /\ At(c).op = Op(turn[c])
    BY <1>1, <1>2, <1>3, PlacesRun
  <1>5. pc[c] \in {"share", "unlock", "work"} => At(c).op \in {"loop", "sections", "single", "copyprivate"}
    BY <1>4 DEF Fits, Sharing
  <1>6. Locks \subseteq DOMAIN works /\ "lock" \notin Locks
    BY DEF LockInv, Locks
  <1>7. ASSUME NEW from, NEW to, Step(c, from, to), to # "in_critical"
        PROVE  \A d \in Cores : pc'[d] = "in_critical" =>
                 pc[d] = "in_critical" /\ fn'[d] = fn[d] /\ turn'[d] = turn[d]
    BY <1>7 DEF Step, StateInv
  <1>8. ASSUME Advance(c)
        PROVE  \A d \in Cores : pc'[d] = "in_critical" =>
                 pc[d] = "in_critical" /\ fn'[d] = fn[d] /\ turn'[d] = turn[d]
    BY <1>4, <1>8, AdvanceOutside DEF Advance
  <1>9. program' = program
    BY DEF LockShare, Share, Unlock, GOMP_sections_next, Loop, NextChunk, LoopEnd, Work, Copied
  <1>10. CASE LockShare(c) \/ GOMP_sections_next(c)
    <2>1. works' = [works EXCEPT !["lock"] = 1]
      BY <1>10 DEF LockShare, GOMP_sections_next, gomp_hal_lock
    <2>2. Step(c, "lock", "check") \/ Step(c, "sections_next", "share")
      BY <1>10 DEF LockShare, GOMP_sections_next
    <2> QED
      BY <1>6, <1>7, <1>9, <2>1, <2>2 DEF Locks
  <1>11. CASE Share(c)
    <2>1. Step(c, "share", "unlock") /\ pc[c] = "share"
      BY <1>11 DEF Share, Step
    <2> DEFINE w == IF first[c] THEN Marked(works) ELSE works
               s == IF first[c] /\ At(c).op = "sections" THEN gomp_sections_init(w, At(c)) ELSE w
    <2>2. Locks \subseteq DOMAIN w /\ \A l \in Locks : w[l] = works[l]
      BY <1>6 DEF Marked, Locks
    <2>3. Locks \subseteq DOMAIN s /\ \A l \in Locks : s[l] = works[l]
      BY <2>2 DEF gomp_sections_init, Locks
    <2>4. \/ works' = gomp_loop_init(w, At(c)) \/ works' = w
          \/ \E n : works' = [s EXCEPT !.next = n]
          \/ works' = Counted(w)
          \/ \E n : works' = [w EXCEPT !.completed = n]
      <3>1. CASE At(c).op = "loop"
        BY <1>11, <3>1 DEF Share
      <3>2. CASE At(c).op = "sections"
        BY <1>11, <3>2 DEF Share
      <3>3. CASE At(c).op = "single"
        BY <1>11, <3>3 DEF Share
      <3>4. CASE At(c).op = "copyprivate"
        BY <1>11, <3>4 DEF Share
      <3> QED
        BY <1>5, <2>1, <3>1, <3>2, <3>3, <3>4
    <2> HIDE DEF w, s
    <2>5. Locks \subseteq DOMAIN works' /\ \A l \in Locks : works'[l] = works[l]
      BY <2>2, <2>3, <2>4 DEF gomp_loop_init, Counted, Locks
    <2> QED
      BY <1>7, <1>9, <2>1, <2>5
  <1>12. CASE Unlock(c)
    <2>1. works' = [works EXCEPT !["lock"] = 0] /\ pc[c] = "unlock"
      BY <1>12 DEF Unlock, gomp_hal_unlock
    <2>2. \/ \E to \in {"loop_start", "sync", "barrier", "work"} : Step(c, "unlock", to)
          \/ Advance(c)
      BY <1>12 DEF Unlock, CallBarrier
    <2> QED
      BY <1>6, <1>7, <1>8, <1>9, <2>1, <2>2 DEF Locks
  <1>13. CASE Loop(c)
    <2>1. \E n : works' = [works EXCEPT !.next = n]
      BY <1>13 DEF Loop, NextChunk, LoopEnd
    <2>2. \/ \E from : \E to \in {"work", "barrier"} : Step(c, from, to)
          \/ Advance(c)
      BY <1>13 DEF Loop, NextChunk, LoopEnd, CallBarrier
    <2> QED
      BY <1>6, <1>7, <1>8, <1>9, <2>1, <2>2 DEF Locks
  <1>14. CASE Work(c)
    <2>1. pc[c] = "work" /\ At(c).op \in {"loop", "sections", "single", "copyprivate"}
      BY <1>5, <1>14 DEF Work
    <2>2. works' = works \/ \E n : works' = [works EXCEPT !.copyprivate = n]
      BY <1>14, <2>1 DEF Work
    <2>3. \E to \in {"loop_next", "sections_next", "sync", "barrier"} : Step(c, "work", to)
      BY <1>14, <2>1 DEF Work, CallBarrier
    <2> QED
      BY <1>6, <1>7, <1>9, <2>2, <2>3 DEF Locks
  <1>15. CASE Copied(c)
    <2>1. \E n : works' = [works EXCEPT !.checkfirst = n]
      BY <1>15 DEF Copied
    <2>2. Step(c, "copied", "sync")
      BY <1>15 DEF Copied
    <2> QED
      BY <1>6, <1>7, <1>9, <2>1, <2>2 DEF Locks
  <1> QED
    BY <1>10, <1>11, <1>12, <1>13, <1>14, <1>15

(* GOMP_critical_start takes a lock that is free, so that nobody is in a   *)
(* section of it.                                                          *)
LEMMA EnterStep ==
  ASSUME OneTeam, StateInv, TeamInv, LockInv, NEW c \in Cores, EnterCritical(c)
  PROVE  LockInv'
  <1>1. pc[c] = "critical" /\ pc[c] \in Places
    BY DEF EnterCritical, Step, Places
  <1>2. c \in Team
    BY <1>1 DEF TeamInv, Outsider
  <1>3. PICK i \in {0, 1} : Working(i)
    BY <1>1, <1>2 DEF TeamInv, Serial, Asleep
  <1>4. At(c).lock \in Locks
    <2>1. Op(turn[c]) = "critical" /\ turn[c] \in 1 .. Length /\ At(c) = program[serial].body[turn[c]]
      BY <1>1, <1>2, <1>3, PlacesRun DEF Fits
    <2> QED
      BY <2>1, TheRegion
  <1>5. works[At(c).lock] = 0 /\ works' = [works EXCEPT ![At(c).lock] = 1]
    BY DEF EnterCritical, gomp_hal_lock
  <1>6. \A d \in Cores : At(d)' = At(d)
    BY DEF At, EnterCritical, Step
  <1>7. pc'[c] = "in_critical" /\ \A d \in Cores \ {c} : pc'[d] = pc[d]
    BY DEF EnterCritical, Step, StateInv
  <1>8. \A d \in Cores \ {c} : pc[d] = "in_critical" => At(d).lock \in Locks /\ works[At(d).lock] = 1 /\ At(d).lock # At(c).lock
    BY <1>5 DEF LockInv
  <1>9. Locks \subseteq DOMAIN works' /\ works'[At(c).lock] = 1 /\ \A l \in Locks : l # At(c).lock => works'[l] = works[l]
    BY <1>4, <1>5 DEF LockInv
  <1>10. \A d \in Cores : pc'[d] = "in_critical" => At(d).lock \in Locks /\ works'[At(d).lock] = 1
    BY <1>4, <1>7, <1>8, <1>9
  <1>11. \A d, e \in Cores :
           d # e /\ pc'[d] = "in_critical" /\ pc'[e] = "in_critical" => At(d).lock # At(e).lock
    BY <1>7, <1>8 DEF LockInv, CriticalExclusive
  <1> QED
    BY <1>6, <1>9, <1>10, <1>11 DEF LockInv, CriticalExclusive

(* GOMP_critical_end releases the lock of the one thread that holds it.    *)
LEMMA LeaveStep ==
  ASSUME OneTeam, StateInv, TeamInv, LockInv, NEW c \in Cores, LeaveCritical(c)
  PROVE  LockInv'
  <1>1. pc[c] = "in_critical" /\ pc[c] \in Places
    BY DEF LeaveCritical, Places
  <1>2. c \in Team
    BY <1>1 DEF TeamInv, Outsider
  <1>3. PICK i \in {0, 1} : Working(i)
    BY <1>1, <1>2 DEF TeamInv, Serial, Asleep
  <1>4. fn[c] = serial
    BY <1>1, <1>2, <1>3, PlacesRun
  <1>5. pc'[c] # "in_critical" /\ \A d \in Cores \ {c} : pc'[d] = pc[d] /\ fn'[d] = fn[d] /\ turn'[d] = turn[d]
    BY <1>4, AdvanceOutside DEF LeaveCritical, Advance
  <1>6. works' = [works EXCEPT ![At(c).lock] = 0] /\ program' = program
    BY DEF LeaveCritical, gomp_hal_unlock
  <1>7. Locks \subseteq DOMAIN works' /\ \A l \in Locks : l # At(c).lock => works'[l] = works[l]
    BY <1>6 DEF LockInv
  <1>8. \A d \in Cores \ {c} : At(d)' = At(d)
    BY <1>5, <1>6 DEF At
  <1>9. \A d \in Cores \ {c} : pc[d] = "in_critical" =>
          At(d).lock \in Locks /\ works[At(d).lock] = 1 /\ At(d).lock # At(c).lock
    BY <1>1 DEF LockInv, CriticalExclusive
  <1> QED
    BY <1>5, <1>7, <1>8, <1>9 DEF LockInv, CriticalExclusive

(* Every step keeps the locks with their holders.                           *)
LEMMA LockStep ==
  ASSUME OneTeam, StateInv, TeamInv, LockInv, Next
  PROVE  LockInv'
  <1>1. 0 \in Cores /\ Locks \subseteq DOMAIN works
    BY TheTeam DEF LockInv
  <1>2. CASE Fork
    <2>1. pc[0] = "serial" /\ program' = program
      BY <1>2 DEF Fork, Step
    <2>2. Serial
      BY <2>1 DEF TeamInv, Working
    <2>3. \A d \in Cores : pc[d] # "in_critical"
      BY <2>2 DEF TeamInv, Serial, Asleep, Outsider
    <2>4. \A d \in Cores : pc'[d] # "in_critical"
      BY <1>2, <2>3 DEF Fork, Step, StateInv
    <2>5. Locks \subseteq DOMAIN works'
      <3>1. program[serial].fn \in Calls
        BY TheRegion
      <3> DEFINE w == gomp_new_work_share(works)
      <3>2. Locks \subseteq DOMAIN w
        BY <1>1 DEF gomp_new_work_share
      <3>3. \/ works' = w \/ works' = gomp_loop_init(w, program[serial].body[1])
            \/ works' = gomp_sections_init(w, program[serial].body[1])
        BY <1>2, <3>1 DEF Fork, Calls
      <3> HIDE DEF w
      <3> QED
        BY <3>2, <3>3 DEF gomp_loop_init, gomp_sections_init
    <2> QED
      BY <2>4, <2>5 DEF LockInv, CriticalExclusive
  <1>3. CASE GOMP_parallel_start
    <2>1. WakeUpAll(0, "fork", "wfi") /\ works' = works /\ program' = program
      BY <1>3 DEF GOMP_parallel_start
    <2> QED
      BY <1>1, <2>1, WokenOutside, LocksKept
  <1>4. CASE GOMP_parallel_end
    <2>1. Step(0, "join", "serial") /\ works' = works /\ program' = program
      BY <1>4 DEF GOMP_parallel_end
    <2>2. \A d \in Cores : pc'[d] = "in_critical" => pc[d] = "in_critical" /\ fn'[d] = fn[d] /\ turn'[d] = turn[d]
      BY <2>1 DEF Step, StateInv
    <2> QED
      BY <1>1, <2>1, <2>2, LocksKept
  <1>5. ASSUME NEW c \in Cores, CoreStep(c)
        PROVE  LockInv'
    <2>1. CASE EnterCritical(c)
      BY <1>5, <2>1, EnterStep
    <2>2. CASE LeaveCritical(c)
      BY <1>5, <2>2, LeaveStep
    <2>3. CASE \/ LockShare(c) \/ Share(c) \/ Unlock(c) \/ GOMP_sections_next(c) \/ Loop(c) \/ Work(c)
               \/ Copied(c)
      BY <1>5, <2>3, ShareKeepsLocks, LocksKept
    <2>4. CASE BarrierInitWake(c) \/ Release(c)
      <3>1. /\ works' = works /\ program' = program
            /\ WakeUpAll(c, "barrier_wake", "wfi_init") \/ WakeUpAll(c, "barrier_release", "wfi")
        BY <2>4 DEF BarrierInitWake, Release
      <3>2. \A d \in Cores : pc'[d] = "in_critical" => pc[d] = "in_critical" /\ fn'[d] = fn[d] /\ turn'[d] = turn[d]
        BY <1>5, <3>1, WokenOutside
      <3> QED
        BY <1>1, <3>1, <3>2, LocksKept
    <2>5. CASE Past(c) \/ Task(c) \/ run_task(c)
      <3>1. works' = works /\ program' = program
        BY <2>5 DEF Past, Task, run_task
      <3>2. \E k : Goto(c, serial, k)
        <4>1. pc[c] \in {"past", "task", "run_task"}
          BY <2>5 DEF Past, Task, run_task
        <4>2. CASE Past(c) \/ Task(c)
          <5>1. pc[c] \in {"past", "task"} /\ pc[c] \in Places /\ Advance(c)
            BY <4>2 DEF Past, Task, Places, Returns
          <5>2. c \in Team /\ \E i \in {0, 1} : Working(i)
            BY <1>5, <5>1 DEF TeamInv, Outsider, Serial, Asleep
          <5> QED
            BY <5>1, <5>2, PlacesRun DEF Advance
        <4>3. CASE run_task(c)
          <5>1. pc[c] = "run_task" /\ c \in event.thread_pool /\ Goto(c, event.fn, 1)
            BY <4>3 DEF run_task
          <5>2. c \in Team
            BY <5>1 DEF TeamInv
          <5>3. \E i \in {0, 1} : Working(i)
            BY <5>1, <5>2 DEF TeamInv, Serial, Asleep
          <5>4. event.fn = serial
            BY <5>3, TheTeam DEF Working
          <5> QED
            BY <5>1, <5>4
        <4> QED
          BY <2>5, <4>2, <4>3
      <3>3. \A d \in Cores : pc'[d] = "in_critical" => pc[d] = "in_critical" /\ fn'[d] = fn[d] /\ turn'[d] = turn[d]
        BY <1>5, <3>2, AdvanceOutside
      <3> QED
        BY <1>1, <3>1, <3>3, LocksKept
    <2>6. CASE \/ Wfi(c) \/ NotInTeam(c) \/ TaskEnd(c) \/ BarrierInit(c) \/ FetchAdd(c) \/ Clear(c)
               \/ gomp_work_share_start(c) \/ GOMP_barrier(c)
      <3>1. works' = works /\ program' = program
        BY <2>6 DEF Wfi, NotInTeam, TaskEnd, BarrierInit, FetchAdd, Clear, gomp_work_share_start, GOMP_barrier
      <3>2. Resumed(c) # "in_critical"
        BY <1>5 DEF Resumed, StateInv, Returns
      <3>3. pc'[c] # "in_critical" /\ \A d \in Cores \ {c} : pc'[d] = pc[d] /\ fn'[d] = fn[d] /\ turn'[d] = turn[d]
        BY <1>5, <2>6, <3>2 DEF Wfi, NotInTeam, TaskEnd, BarrierInit, FetchAdd, Clear, gomp_work_share_start,
                                GOMP_barrier, CallBarrier, Step, StateInv
      <3> QED
        BY <1>1, <3>1, <3>3, LocksKept
    <2> QED
      BY <1>5, <2>1, <2>2, <2>3, <2>4, <2>5, <2>6 DEF CoreStep
  <1> QED
    BY <1>2, <1>3, <1>4, <1>5 DEF Next, MasterStep

-------------------------------------------------------------------------------
(* The invariant is inductive.                                              *)
LEMMA OmpStep ==
  ASSUME OneTeam, OmpInv, [Next]_vars
  PROVE  OmpInv'
  <1>1. CASE Next
    <2>1. StateInv'
      BY <1>1, StateStep DEF OmpInv
    <2> QED
      BY <1>1, <2>1, TeamStep, LockStep DEF OmpInv
  <1>2. CASE UNCHANGED vars
    <2>1. /\ program' = program /\ serial' = serial /\ event' = event /\ barrier' = barrier /\ works' = works
          /\ pc' = pc /\ after' = after /\ fn' = fn /\ turn' = turn /\ wake_up_q' = wake_up_q
      BY <1>2 DEF vars, coreVars
    <2>2. Team' = Team /\ set_event(serial)' = set_event(serial)
      BY <2>1, Frozen
    <2>3. StateInv'
      BY <2>1 DEF OmpInv, StateInv
    <2>4. \A i \in {0, 1} : Working(i) => Working(i)'
      BY <2>1, Untouched DEF OmpInv
    <2>5. TeamInv'
      BY <2>1, <2>2, <2>4 DEF OmpInv, TeamInv, Outsider, Serial, Asleep
    <2>6. LockInv'
      BY <2>1, LocksKept DEF OmpInv, LockInv
    <2> QED
      BY <2>3, <2>5, <2>6 DEF OmpInv
  <1> QED
    BY <1>1, <1>2

(* A thread is at most two wake-ups behind: one it has not consumed yet    *)
(* and the one that starts the next barrier.                               *)
LEMMA WakeUpsBound ==
  ASSUME OneTeam, OmpInv
  PROVE  WakeUpsMatched
  <1>1. 0 \in Team /\ event.thread_pool \in {{}, Team}
    BY TheTeam DEF OmpInv, TeamInv
  <1>2. \A c \in Team : wake_up_q[c] <= 2
    <2>1. CASE Serial
      BY <2>1 DEF Serial, Asleep
    <2>2. ASSUME NEW i \in {0, 1}, Working(i), NEW c \in Team
          PROVE  wake_up_q[c] <= 2
      BY <2>2 DEF Working, Thread, Runs, Enters, Starts, Adds, Waits, Closes, Released, Begins, Ended
    <2> QED
      BY <2>1, <2>2 DEF OmpInv, TeamInv
  <1>3. pc[0] = "serial" => wake_up_q[0] = 0
    BY DEF OmpInv, TeamInv, Serial, Working
  <1> QED
    BY <1>1, <1>2, <1>3 DEF WakeUpsMatched

(* One thread at a time is in the critical or atomic constructs of a       *)
(* program, for every number of cores and every program whose regions have *)
(* one team size: gomp_new_work_share frees the locks only when no thread  *)
(* is in a region, which the barriers, the wake-ups and event.barrier see  *)
(* to.                                                                     *)
THEOREM CriticalSectionsExclusive ==
  ASSUME OneTeam
  PROVE  Spec => []CriticalExclusive
  <1>1. Init => OmpInv
    BY InitState
  <1>2. OmpInv /\ [Next]_vars => OmpInv'
    BY OmpStep
  <1>3. OmpInv => CriticalExclusive
    BY DEF OmpInv, LockInv
  <1> QED
    BY <1>1, <1>2, <1>3, PTL DEF Spec

(* No wake-up of a fork or of a barrier is lost or left over: a thread of  *)
(* the team stores at most two, and the master none when it is alone.      *)
THEOREM WakeUpsAreMatched ==
  ASSUME OneTeam
  PROVE  Spec => []WakeUpsMatched
  <1>1. Init => OmpInv
    BY InitState
  <1>2. OmpInv /\ [Next]_vars => OmpInv'
    BY OmpStep
  <1>3. OmpInv => WakeUpsMatched
    BY WakeUpsBound
  <1> QED
    BY <1>1, <1>2, <1>3, PTL DEF Spec
-------------------------------------------------------------------------------
(* Programs that find a free work share where they need one.  A single     *)
(* gives the share back when the last thread has counted, a loop or        *)
(* sections keep it until the next fork: in a region they come after every *)
(* single.  A combined construct is alone in its region, and the last      *)
(* thread at a copyprivate, who gives the share back, is not the first:    *)
(* the team has two threads.                                               *)
SharesReturned ==
  \A p \in Programs : \A r \in DOMAIN p :
    /\ p[r].fn = "GOMP_parallel_loop_dynamic" => Len(p[r].body) = 1 /\ p[r].body[1].op = "loop"
    /\ p[r].fn = "GOMP_parallel_sections" => Len(p[r].body) = 1 /\ p[r].body[1].op = "sections"
    /\ \A j, k \in DOMAIN p[r].body :
         p[r].body[j].op \in {"loop", "sections"} /\ p[r].body[k].op \in {"single", "copyprivate"} => k < j
    /\ \A k \in DOMAIN p[r].body :
         p[r].body[k].op = "copyprivate" => p[r].num_threads # 1 /\ NumCores >= 2

ShareOp(k) == Op(k) \in {"single", "copyprivate"}
SplitOp(k) == Op(k) \in {"loop", "sections"}

(* Where a thread is, or goes on after the barrier it is in.  *)
Going(c) == IF pc[c] \in BarrierCode \cup {"wfi"} THEN after[c] ELSE pc[c]
Held(c) == pc[c] \in BarrierCode \/ (pc[c] = "wfi" /\ wake_up_q[c] = 0)

Progress(c) ==
  IF Ended(c) THEN Length + 1 ELSE IF Going(c) = "run_task" THEN 0 ELSE turn[c]

Depth(c) == IF Going(c) = "past" THEN IF Held(c) THEN 1 ELSE 2
            ELSE IF Going(c) \in {"sync", "copied"} /\ ~ Held(c) THEN 1 ELSE 0

Counts(c) ==
  /\ Progress(c) \in 1 .. Length /\ ShareOp(Progress(c))
  /\ Going(c) \in {"unlock", "work", "sync", "copied"} \/ (Going(c) = "past" /\ Held(c))

Shared == {c \in Team : Counts(c)}

First(f) ==
  \/ Going(f) \in {"unlock", "work"} /\ got[f] = {0}
  \/ /\ Going(f) \in {"sync", "past"}
     /\ Op(turn[f]) = "copyprivate" => works.copyprivate = <<f, serial, turn[f]>>
Other(c) == (Going(c) = "unlock" /\ got[c] = {}) \/ Going(c) \in {"copied", "sync", "past"}

Taken(f) ==
  /\ works.completed = Cardinality(Shared)
  /\ First(f) /\ \A c \in Shared \ {f} : Other(c)
  /\ Shared # Team => works.checkfirst = TRUE
  /\ Op(turn[f]) = "single" /\ Shared = Team => works.checkfirst = FALSE
  /\ Op(turn[f]) = "copyprivate" =>
       /\ completed[f] = 1
       /\ Shared = Team =>
            \E l \in Team : completed[l] = Size /\ (works.checkfirst = TRUE => Going(l) \in {"unlock", "copied"})

Loose(c) == \E j \in 1 .. Length : SplitOp(j) /\ j <= Progress(c)

ShareState ==
  \/ Shared = {} /\ ((\A c \in Team : ~ Loose(c)) => works.checkfirst = FALSE)
  \/ \E f \in Shared : Taken(f)

Holds(c) == pc[c] \in {"check", "share", "unlock"}
HolderInv ==
  /\ \A c \in Cores : Holds(c) => works.lock = 1
  /\ \A c, d \in Cores : Holds(c) /\ Holds(d) => c = d

CheckInv ==
  \A c \in Cores : pc[c] = "share" /\ At(c).op \in {"single", "copyprivate"} => first[c] = ~ works.checkfirst

Fields == {"end", "next", "chunk_size", "incr", "lock", "checkfirst", "completed", "copyprivate"}
WorksInv ==
  /\ Fields \subseteq DOMAIN works
  /\ works.checkfirst \in BOOLEAN /\ works.completed \in 0 .. NumCores
  /\ DOMAIN first = Cores /\ DOMAIN got = Cores /\ DOMAIN completed = Cores

ShareInv ==
  /\ WorksInv /\ HolderInv /\ CheckInv
  /\ pc[0] = "fork" => works.checkfirst = FALSE
  /\ pc[0] \notin {"serial", "fork"} => ShareState


-------------------------------------------------------------------------------
ThreadFacts(c) ==
  /\ Progress(c) \in 0 .. Length + 1 /\ Progress(c) \in Nat /\ Depth(c) \in 0 .. 2
  /\ Pos(c) = 3 * Progress(c) + Depth(c)
  /\ Progress(c) = 0 => Going(c) = "run_task" /\ pc[c] \in {"wfi", "run_task"} /\ ~ Ended(c) /\ Depth(c) = 0
  /\ Progress(c) = Length + 1 => (pc[c] = "task_end" \/ Ended(c)) /\ Depth(c) = 0
  /\ Progress(c) \in 1 .. Length =>
       /\ turn[c] = Progress(c) /\ fn[c] = serial /\ Going(c) \in Places /\ Fits(Going(c), Progress(c))
       /\ ~ Ended(c) /\ Op(turn[c]) \in Constructs
       /\ \/ pc[c] \in Places /\ Going(c) = pc[c] /\ ~ Held(c)
          \/ InBarrier(c) /\ Going(c) = after[c] /\ pc[c] \in BarrierCode \cup {"wfi"}

(* How far a thread is.                                                     *)
LEMMA ThreadAt ==
  ASSUME OneTeam, StateInv, NEW i \in {0, 1}, Working(i), NEW c \in Team
  PROVE  ThreadFacts(c)
  <1>1. Length \in Nat /\ Thread(c, i) /\ c \in Cores
    BY TheTeam DEF Working
  <1>2. after[c] \in Returns \cup {"run_task"} /\ wake_up_q[c] \in Nat
    BY <1>1 DEF StateInv
  <1>3. CASE Runs(c, i) /\ pc[c] = "task_end"
    <2>1. turn[c] = Length + 1 /\ Pos(c) = 3 * (Length + 1) /\ ~ Ended(c)
      BY <1>3, RunsAt DEF RunsFacts
    <2>2. Going(c) = "task_end" /\ ~ Held(c)
      BY <1>3 DEF Going, Held, BarrierCode
    <2>3. Progress(c) = Length + 1 /\ Depth(c) = 0
      BY <2>1, <2>2 DEF Progress, Depth
    <2> QED
      BY <1>1, <1>3, <2>1, <2>2, <2>3 DEF ThreadFacts
  <1>4. CASE Runs(c, i) /\ pc[c] # "task_end"
    <2>1. /\ turn[c] \in 1 .. Length /\ turn[c] \in Nat /\ Fits(pc[c], turn[c]) /\ ~ Ended(c)
          /\ Pos(c) = 3 * turn[c] + PlaceOf(c)
      BY <1>4, RunsAt DEF RunsFacts
    <2>2. pc[c] \in Places /\ fn[c] = serial /\ Op(turn[c]) \in Constructs
      BY <1>4, <2>1, TheRegion DEF Runs, InRegion
    <2>3. Going(c) = pc[c] /\ ~ Held(c) /\ pc[c] # "run_task"
      BY <2>2 DEF Going, Held, BarrierCode, Places, Sharing, Returns
    <2>4. Progress(c) = turn[c] /\ Depth(c) = PlaceOf(c) /\ PlaceOf(c) \in 0 .. 2
      BY <2>1, <2>3 DEF Progress, Depth, PlaceOf
    <2> QED
      BY <1>1, <2>1, <2>2, <2>3, <2>4 DEF ThreadFacts
  <1>5. CASE HeldUp(c)
    <2>1. /\ turn[c] \in 1 .. Length /\ turn[c] \in Nat /\ after[c] \in Returns /\ ~ Ended(c)
          /\ Pos(c) = 3 * turn[c] + (IF after[c] = "past" THEN 1 ELSE 0)
      BY <1>5, HeldUpAt DEF HeldFacts
    <2>2. InBarrier(c) /\ fn[c] = serial /\ Going(c) = after[c] /\ Held(c) /\ pc[c] \in BarrierCode \cup {"wfi"}
      BY <1>5 DEF HeldUp, InBarrier, InRegion, Going, Held
    <2>3. Progress(c) = turn[c] /\ Depth(c) = IF after[c] = "past" THEN 1 ELSE 0
      BY <2>1, <2>2 DEF Progress, Depth, Returns
    <2>4. Fits(after[c], turn[c]) /\ after[c] \in Places /\ Op(turn[c]) \in Constructs
      BY <2>1, <2>2, TheRegion DEF InBarrier, Returns, Fits, Sharing, InMiddle, AtEnd, Places
    <2> QED
      BY <1>1, <2>1, <2>2, <2>3, <2>4 DEF ThreadFacts
  <1>6. CASE Released(c, i)
    <2>1. InBarrier(c) /\ pc[c] = "wfi" /\ wake_up_q[c] > 0 /\ fn[c] = serial
      BY <1>6 DEF Released, InBarrier, InRegion
    <2>2. turn[c] \in 1 .. Length /\ turn[c] \in Nat /\ after[c] \in Returns
      BY <1>1, <2>1 DEF InBarrier, InRegion, Returns
    <2>3. Going(c) = after[c] /\ ~ Held(c) /\ ~ Ended(c)
      BY <2>1, <2>2 DEF Going, Held, BarrierCode, Ended, Returns
    <2>4. Half(c) = IF after[c] = "past" THEN 2 ELSE 1
      BY <2>1, <2>2 DEF Half, Returns
    <2>5. Pos(c) = 3 * turn[c] + (IF after[c] = "past" THEN 2 ELSE 1)
      BY <2>1, <2>2, <2>3, <2>4 DEF Pos, Returns
    <2>6. Progress(c) = turn[c] /\ Depth(c) = IF after[c] = "past" THEN 2 ELSE 1
      BY <2>2, <2>3 DEF Progress, Depth, Returns
    <2>7. Fits(after[c], turn[c]) /\ after[c] \in Places /\ Op(turn[c]) \in Constructs
      BY <2>1, <2>2, TheRegion DEF InBarrier, Returns, Fits, Sharing, InMiddle, AtEnd, Places
    <2> QED
      BY <1>1, <2>1, <2>2, <2>3, <2>5, <2>6, <2>7 DEF ThreadFacts
  <1>7. CASE Begins(c, i)
    <2>1. pc[c] \in {"wfi", "run_task"} /\ after[c] = "run_task" /\ ~ Ended(c)
      BY <1>7 DEF Begins, Ended
    <2>2. Going(c) = "run_task"
      BY <2>1 DEF Going, BarrierCode
    <2>3. Pos(c) = 0 /\ Progress(c) = 0 /\ Depth(c) = 0
      BY <2>1, <2>2 DEF Pos, Progress, Depth
    <2> QED
      BY <1>1, <2>1, <2>2, <2>3 DEF ThreadFacts
  <1>8. CASE Ended(c)
    <2>1. after[c] = "run_task" /\ pc[c] \in {"join", "wfi"}
      BY <1>8 DEF Ended
    <2>2. Going(c) \in {"run_task", "join"}
      BY <2>1 DEF Going, BarrierCode
    <2>3. Pos(c) = 3 * (Length + 1) /\ Progress(c) = Length + 1 /\ Depth(c) = 0
      BY <1>8, <2>2 DEF Pos, Progress, Depth
    <2> QED
      BY <1>1, <1>8, <2>3 DEF ThreadFacts
  <1>9. Enters(c, i) \/ Starts(c, i) \/ Adds(c, i) \/ Waits(c, i) \/ Closes(c, i) => HeldUp(c)
    BY DEF Enters, Starts, Adds, Waits, Closes, HeldUp, BarrierCode
  <1> QED
    BY <1>1, <1>3, <1>4, <1>5, <1>6, <1>7, <1>8, <1>9 DEF Thread

(* Nobody is past the end of a construct with a barrier while a thread is  *)
(* not, nor before the middle of one while a thread is past it.            *)
LEMMA Order ==
  ASSUME OneTeam, StateInv, NEW i \in {0, 1}, Working(i), NEW c \in Team, NEW d \in Team,
         Progress(c) \in 1 .. Length
  PROVE  /\ AtEnd(Progress(c)) /\ Depth(c) < 2 =>
              Progress(d) <= Progress(c) /\ (Progress(d) = Progress(c) => Depth(d) < 2)
         /\ InMiddle(Progress(c)) /\ Depth(c) >= 1 =>
              Progress(d) >= Progress(c) /\ (Progress(d) = Progress(c) => Depth(d) >= 1)
  <1> DEFINE k == Progress(c)
             m == Progress(d)
  <1>1. Length \in Nat /\ ThreadFacts(c) /\ ThreadFacts(d) /\ Passed(c) = Passed(d)
    BY TheTeam, ThreadAt DEF Working
  <1>2. /\ k \in Nat /\ m \in Nat /\ Depth(c) \in 0 .. 2 /\ Depth(d) \in 0 .. 2
        /\ Pos(c) = 3 * k + Depth(c) /\ Pos(d) = 3 * m + Depth(d)
    BY <1>1 DEF ThreadFacts
  <1> HIDE DEF k, m
  <1>3. k \in 1 .. Length
    BY DEF k
  <1>4. ASSUME AtEnd(k), Depth(c) < 2
        PROVE  m <= k /\ (m = k => Depth(d) < 2)
    <2>1. 3 * k + 2 \in Points
      BY <1>1, <1>3, <1>4 DEF Points
    <2>2. 3 * k + 2 \notin Passed(d)
      BY <1>1, <1>2, <1>4 DEF Passed
    <2>3. ~ (3 * k + 2 <= Pos(d))
      BY <2>1, <2>2 DEF Passed
    <2> QED
      BY <1>2, <2>3
  <1>5. ASSUME InMiddle(k), Depth(c) >= 1
        PROVE  m >= k /\ (m = k => Depth(d) >= 1)
    <2>1. 3 * k + 1 \in Points
      BY <1>1, <1>3, <1>5 DEF Points
    <2>2. 3 * k + 1 \in Passed(d)
      BY <1>1, <1>2, <1>5, <2>1 DEF Passed
    <2>3. 3 * k + 1 <= Pos(d)
      BY <2>2 DEF Passed
    <2> QED
      BY <1>2, <2>3
  <1> QED
    BY <1>4, <1>5 DEF k, m

-------------------------------------------------------------------------------
(* What the steps do to the threads.                                       *)
Same(d) ==
  /\ Progress(d)' = Progress(d)
  /\ Progress(d) \in 1 .. Length => Going(d)' = Going(d) /\ (Held(d)' <=> Held(d))
Begun == pc[0] \notin {"serial", "fork"}

(* The facts about a step of the team that do not depend on what it is.    *)
LEMMA OthersSame ==
  ASSUME program' = program, serial' = serial, NEW c, Alone(c), NEW d \in Cores \ {c}
  PROVE  Same(d)
  <1>1. pc'[d] = pc[d] /\ after'[d] = after[d] /\ turn'[d] = turn[d] /\ wake_up_q'[d] = wake_up_q[d]
    BY DEF Alone
  <1>2. Length' = Length
    BY Frozen
  <1>3. Going(d)' = Going(d) /\ Held(d)' = Held(d) /\ Ended(d)' = Ended(d)
    BY <1>1 DEF Going, Held, Ended
  <1> QED
    BY <1>1, <1>2, <1>3 DEF Same, Progress

(* A thread steps to another place of its construct.                       *)
LEMMA StepTo ==
  ASSUME OneTeam, StateInv, NEW i \in {0, 1}, Working(i), NEW c \in Team, pc[c] \in Places,
         NEW to \in Places, Step(c, pc[c], to), program' = program, serial' = serial,
         after' = after, wake_up_q' = wake_up_q
  PROVE  Alone(c) /\ Progress(c)' = Progress(c) /\ Going(c)' = to /\ Held(c)' = FALSE /\ turn' = turn
  <1>1. c \in Cores /\ Length' = Length
    BY TheTeam, Frozen
  <1>2. Alone(c) /\ pc'[c] = to /\ turn' = turn
    BY <1>1 DEF Alone, Step, StateInv
  <1>3. Going(c)' = to /\ Held(c)' = FALSE
    BY <1>2 DEF Going, Held, BarrierCode, Places, Sharing, Returns
  <1>4. Going(c) = pc[c] /\ ~ Ended(c) /\ ~ Ended(c)' /\ pc[c] # "run_task" /\ to # "run_task"
    BY <1>2 DEF Going, Ended, BarrierCode, Places, Sharing, Returns
  <1> QED
    BY <1>1, <1>2, <1>3, <1>4 DEF Progress

(* A thread calls mempool_barrier_gomp.                                    *)
LEMMA CallTo ==
  ASSUME OneTeam, StateInv, NEW i \in {0, 1}, Working(i), NEW c \in Team, pc[c] \in Places,
         NEW ret \in Returns, CallBarrier(c, pc[c], ret), program' = program, serial' = serial,
         wake_up_q' = wake_up_q
  PROVE  Alone(c) /\ Progress(c)' = Progress(c) /\ Going(c)' = ret /\ Held(c)' = TRUE /\ turn' = turn
  <1>1. c \in Cores /\ Length' = Length
    BY TheTeam, Frozen
  <1>2. Alone(c) /\ pc'[c] = "barrier" /\ turn' = turn /\ after'[c] = ret
    BY <1>1 DEF Alone, CallBarrier, Step, StateInv
  <1>3. Going(c)' = ret /\ Held(c)' = TRUE
    BY <1>2 DEF Going, Held, BarrierCode
  <1>4. Going(c) = pc[c] /\ ~ Ended(c) /\ ~ Ended(c)' /\ pc[c] # "run_task" /\ ret # "run_task"
    BY <1>2 DEF Going, Ended, BarrierCode, Places, Sharing, Returns
  <1> QED
    BY <1>1, <1>2, <1>3, <1>4 DEF Progress

(* A thread comes to construct k, or to the end.                           *)
Comes(c, k) ==
  /\ Progress(c)' = k /\ Held(c)' = FALSE /\ turn'[c] = k
  /\ k = Length + 1 => Going(c)' = "task_end"
  /\ k <= Length =>
       /\ Going(c)' = Entry(program[serial].fn, program[serial].body[k])
       /\ \/ Going(c)' = "loop_next" /\ Op(k) = "loop" /\ program[serial].fn = "GOMP_parallel_loop_dynamic"
          \/ Going(c)' = "sections_next" /\ Op(k) = "sections" /\ program[serial].fn = "GOMP_parallel_sections"
          \/ Going(c)' = Op(k) /\ Op(k) \in {"critical", "task"}
          \/ Going(c)' = "sync" /\ Op(k) = "barrier"
          \/ Going(c)' = "lock" /\ Op(k) \in {"loop", "sections", "single", "copyprivate"}
       /\ pc'[c] = Going(c)'

(* A thread comes to construct k.                                          *)
LEMMA GotoTo ==
  ASSUME OneTeam, StateInv, NEW c \in Team, NEW k \in 1 .. Length + 1, Goto(c, serial, k),
         program' = program, serial' = serial, after' = after, wake_up_q' = wake_up_q
  PROVE  Alone(c) /\ Comes(c, k)
  <1>1. c \in Cores /\ Length' = Length /\ Length \in Nat
    BY TheTeam, Frozen
  <1>2. Alone(c) /\ turn'[c] = k
    BY <1>1 DEF Alone, Goto, StateInv
  <1>3. /\ k = Length + 1 => pc'[c] = "task_end"
        /\ k \in 1 .. Length => pc'[c] = Entry(program[serial].fn, program[serial].body[k])
    BY <1>1, TheRegion DEF Goto, StateInv
  <1>4. CASE k = Length + 1
    <2>1. pc'[c] = "task_end"
      BY <1>3, <1>4
    <2>2. Going(c)' = "task_end" /\ Held(c)' = FALSE /\ ~ Ended(c)'
      BY <2>1 DEF Going, Held, Ended, BarrierCode
    <2>3. Progress(c)' = k
      BY <1>2, <2>2 DEF Progress
    <2> QED
      BY <1>1, <1>2, <1>4, <2>2, <2>3 DEF Comes
  <1>5. CASE k \in 1 .. Length
    <2>1. Op(k) \in Constructs /\ program[serial].fn \in Calls
      BY <1>5, TheRegion
    <2>2. pc'[c] = Entry(program[serial].fn, program[serial].body[k])
      BY <1>3, <1>5
    <2>3. Op(k) = program[serial].body[k].op
      BY DEF Op
    <2>4. \/ pc'[c] = "loop_next" /\ Op(k) = "loop" /\ program[serial].fn = "GOMP_parallel_loop_dynamic"
          \/ pc'[c] = "sections_next" /\ Op(k) = "sections" /\ program[serial].fn = "GOMP_parallel_sections"
          \/ pc'[c] = Op(k) /\ Op(k) \in {"critical", "task"}
          \/ pc'[c] = "sync" /\ Op(k) = "barrier"
          \/ pc'[c] = "lock" /\ Op(k) \in {"loop", "sections", "single", "copyprivate"}
      BY <2>1, <2>2, <2>3 DEF Entry, Constructs
    <2>5. Going(c)' = pc'[c] /\ Held(c)' = FALSE /\ ~ Ended(c)' /\ pc'[c] # "run_task"
      BY <2>4 DEF Going, Held, Ended, BarrierCode
    <2>6. Progress(c)' = k
      BY <1>2, <2>5 DEF Progress
    <2> QED
      BY <1>1, <1>2, <1>5, <2>2, <2>4, <2>5, <2>6 DEF Comes
  <1> QED
    BY <1>1, <1>4, <1>5

(* Steps inside of a barrier, and those before and after the region.       *)
Resting(c) == Wfi(c) \/ BarrierInit(c) \/ BarrierInitWake(c) \/ FetchAdd(c) \/ Clear(c) \/ TaskEnd(c)

(* Steps in and around WFI and the barrier leave every thread where it is. *)
LEMMA RestingSame ==
  ASSUME OneTeam, StateInv, NEW i \in {0, 1}, Working(i), NEW c \in Team, Resting(c)
  PROVE  \A d \in Team : Same(d)
  <1>1. /\ program' = program /\ serial' = serial /\ Length' = Length /\ Length \in Nat
        /\ c \in Cores /\ Team \subseteq Cores /\ 0 \in Team
    BY TheTeam, Frozen DEF Resting, Wfi, BarrierInit, BarrierInitWake, FetchAdd, Clear, TaskEnd
  <1>2. ASSUME Alone(c), Same(c)
        PROVE  \A d \in Team : Same(d)
    BY <1>1, <1>2, OthersSame
  <1>3. Thread(c, i) /\ wake_up_q[c] \in Nat
    BY <1>1 DEF Working, StateInv
  <1>4. CASE Wfi(c)
    <2>1. /\ pc[c] \in {"wfi", "wfi_init"} /\ wake_up_q[c] > 0
          /\ pc'[c] = Resumed(c) /\ wake_up_q'[c] = wake_up_q[c] - 1
          /\ after'[c] = after[c] /\ turn'[c] = turn[c]
      BY <1>1, <1>4 DEF Wfi, StateInv
    <2>2. Alone(c)
      BY <1>4 DEF Alone, Wfi, StateInv
    <2>3. \/ Begins(c, i) /\ pc[c] = "wfi"
          \/ Enters(c, i) /\ pc[c] = "wfi_init"
          \/ Released(c, i)
      BY <1>3, <2>1
      DEF Thread, Runs, Enters, Starts, Adds, Waits, Closes, Ended, Begins, Places, Sharing, Returns
    <2>4. CASE Begins(c, i) /\ pc[c] = "wfi"
      <3>1. pc'[c] = "run_task" /\ after[c] = "run_task"
        BY <2>1, <2>4 DEF Begins, Resumed
      <3>2. Going(c) = "run_task" /\ Going(c)' = "run_task" /\ ~ Held(c) /\ ~ Held(c)' /\ ~ Ended(c) /\ ~ Ended(c)'
        BY <2>1, <2>4, <3>1 DEF Going, Held, Ended, BarrierCode
      <3> QED
        BY <1>2, <2>2, <3>2 DEF Same, Progress
    <2>5. CASE Enters(c, i) /\ pc[c] = "wfi_init"
      <3>1. pc'[c] = "barrier_add" /\ after[c] \in Returns
        BY <2>1, <2>5 DEF Enters, InBarrier, Resumed, Returns
      <3>2. Going(c) = after[c] /\ Going(c)' = after[c] /\ Held(c) /\ Held(c)' /\ ~ Ended(c) /\ ~ Ended(c)'
        BY <2>1, <2>5, <3>1 DEF Going, Held, Ended, BarrierCode
      <3> QED
        BY <1>2, <2>1, <2>2, <3>2 DEF Same, Progress
    <2>6. CASE Released(c, i)
      <3>1. pc[c] = "wfi" /\ pc'[c] = after[c] /\ after[c] \in Returns
        BY <2>1, <2>6 DEF Released, InBarrier, Resumed, Returns
      <3>2. Going(c) = after[c] /\ Going(c)' = after[c] /\ ~ Held(c) /\ ~ Held(c)' /\ ~ Ended(c) /\ ~ Ended(c)'
        BY <2>1, <3>1 DEF Going, Held, Ended, BarrierCode, Returns
      <3> QED
        BY <1>2, <2>1, <2>2, <3>2 DEF Same, Progress
    <2> QED
      BY <2>3, <2>4, <2>5, <2>6
  <1>5. CASE BarrierInit(c) \/ FetchAdd(c) \/ Clear(c)
    <2>1. /\ pc[c] \in {"barrier", "barrier_add", "barrier_clear"} /\ after' = after /\ wake_up_q' = wake_up_q
          /\ turn' = turn /\ Alone(c)
          /\ pc'[c] \in {"barrier_wake", "wfi_init", "barrier_clear", "barrier_release"} \/
               (pc[c] = "barrier_add" /\ pc'[c] = "wfi")
      BY <1>1, <1>5 DEF BarrierInit, FetchAdd, Clear, Step, Alone, StateInv
    <2>2. InBarrier(c) /\ (pc[c] = "barrier_add" => wake_up_q[c] = 0)
      BY <1>3, <2>1
      DEF Thread, Runs, Enters, Starts, Adds, Waits, Closes, Released, Ended, Begins, Places, Sharing, Returns
    <2>3. after[c] \in Returns
      BY <2>2 DEF InBarrier, Returns
    <2>4. Going(c) = after[c] /\ Going(c)' = after[c] /\ Held(c) /\ Held(c)' /\ ~ Ended(c) /\ ~ Ended(c)'
      BY <2>1, <2>2, <2>3 DEF Going, Held, Ended, BarrierCode, Returns
    <2> QED
      BY <1>2, <2>1, <2>3, <2>4 DEF Same, Progress
  <1>6. CASE TaskEnd(c)
    <2>1. /\ pc[c] = "task_end" /\ pc'[c] = (IF c = 0 THEN "join" ELSE "wfi") /\ after'[c] = "run_task"
          /\ Alone(c) /\ wake_up_q'[c] = wake_up_q[c]
      BY <1>1, <1>6 DEF TaskEnd, Alone, StateInv
    <2>2. Runs(c, i)
      BY <1>3, <2>1 DEF Thread, Enters, Starts, Adds, Waits, Closes, Released, Ended, Begins
    <2>3. i = 0
      BY <1>1, <2>1, <2>2, CoreZeroHeld, NobodyPast
    <2>4. wake_up_q[c] = 0 /\ turn[c] = Length + 1
      BY <2>1, <2>2, <2>3, RunsAt DEF Runs, RunsFacts
    <2>5. Ended(c)' /\ ~ Ended(c)
      BY <2>1, <2>4 DEF Ended
    <2>6. Progress(c)' = Length + 1 /\ Progress(c) = Length + 1
      BY <1>1, <2>1, <2>4, <2>5 DEF Progress, Going, BarrierCode
    <2> QED
      BY <1>1, <1>2, <2>1, <2>6 DEF Same
  <1>7. CASE BarrierInitWake(c)
    <2>1. WakeUpAll(c, "barrier_wake", "wfi_init") /\ pc[c] = "barrier_wake" /\ after' = after
      BY <1>7 DEF BarrierInitWake, WakeUpAll
    <2>2. c = 0 /\ i = 0 /\ HeldUp(c)
      BY <1>3, <2>1
      DEF Thread, Runs, Enters, Starts, Adds, Waits, Closes, Released, Ended, Begins, Places, Sharing, Returns,
          HeldUp, BarrierCode
    <2>3. ASSUME NEW d \in Team
          PROVE  Same(d)
      <3>1. /\ turn' = turn
            /\ d = c => pc'[d] = "wfi_init"
            /\ d # c => pc'[d] = IF Sleeps(d) THEN Resumed(d) ELSE pc[d]
            /\ Sleeps(d) => wake_up_q'[d] = 0
            /\ ~ Sleeps(d) /\ wake_up_q[d] \in {0, 1} => wake_up_q'[d] = wake_up_q[d] + 1
        BY <1>1, <2>1, Pulse
      <3>2. Thread(d, 0) /\ ~ Ended(d)
        BY <2>2, <2>3, NobodyPast DEF Working
      <3>3. wake_up_q[d] \in {0, 1} /\ (pc[d] = "wfi" => wake_up_q[d] = 1)
        BY <3>2
        DEF Thread, Runs, Enters, Starts, Adds, Waits, Closes, Released, Begins, Places, Sharing, Returns
      <3>4. Going(d)' = Going(d) /\ Held(d)' = Held(d)
        <4>1. CASE d = c
          BY <2>1, <3>1, <4>1 DEF Going, Held, BarrierCode
        <4>2. CASE d # c /\ Sleeps(d)
          <5>1. pc[d] = "wfi_init" /\ pc'[d] = "barrier_add"
            BY <3>1, <3>3, <4>2 DEF Sleeps, Resumed
          <5> QED
            BY <2>1, <5>1 DEF Going, Held, BarrierCode
        <4>3. CASE d # c /\ ~ Sleeps(d)
          BY <2>1, <3>1, <3>3, <4>3 DEF Going, Held
        <4> QED
          BY <4>1, <4>2, <4>3
      <3>5. ~ Ended(d)'
        <4>1. CASE d = c
          BY <3>1, <4>1 DEF Ended
        <4>2. CASE d # c /\ Sleeps(d)
          <5>1. pc'[d] = "barrier_add"
            BY <3>1, <3>3, <4>2 DEF Sleeps, Resumed
          <5> QED
            BY <5>1 DEF Ended
        <4>3. CASE d # c /\ ~ Sleeps(d)
          BY <3>1, <3>3, <4>3 DEF Ended
        <4> QED
          BY <4>1, <4>2, <4>3
      <3> QED
        BY <1>1, <3>1, <3>2, <3>4, <3>5 DEF Same, Progress
    <2> QED
      BY <2>3
  <1> QED
    BY <1>4, <1>5, <1>6, <1>7 DEF Resting

(* The barrier opens: everybody was in it and nobody is any more.          *)
LEMMA ReleaseOpens ==
  ASSUME OneTeam, StateInv, NEW i \in {0, 1}, Working(i), NEW c \in Team, Release(c)
  PROVE  \A d \in Team : /\ Progress(d)' = Progress(d) /\ Progress(d) = Progress(c) /\ Progress(d) \in 1 .. Length
                         /\ Going(d)' = Going(d) /\ (Going(d) = "past" <=> Going(c) = "past")
                         /\ Held(d) /\ ~ Held(d)'
  <1>1. Length \in Nat /\ c \in Cores /\ Team \subseteq Cores
    BY TheTeam
  <1>2. /\ program' = program /\ serial' = serial /\ after' = after
        /\ WakeUpAll(c, "barrier_release", "wfi") /\ pc[c] = "barrier_release"
    BY DEF Release, WakeUpAll
  <1>3. Length' = Length
    BY <1>2, Frozen
  <1>4. /\ Closes(c, 1) /\ HeldUp(c) /\ \A d \in Team \ {c} : Waits(d, 1) /\ HeldUp(d)
        /\ \A d \in Team : Pos(d) = Pos(c) /\ ~ Ended(d)
    BY <1>2, LastThread
  <1>5. HeldFacts(c) /\ Going(c) = after[c]
    BY <1>2, <1>4, HeldUpAt DEF Going, BarrierCode
  <1> SUFFICES ASSUME NEW d \in Team
               PROVE  /\ Progress(d)' = Progress(d) /\ Progress(d) = Progress(c) /\ Progress(d) \in 1 .. Length
                      /\ Going(d)' = Going(d) /\ (Going(d) = "past" <=> Going(c) = "past")
                      /\ Held(d) /\ ~ Held(d)'
    OBVIOUS
  <1>6. /\ turn' = turn
        /\ d = c => pc'[d] = "wfi"
        /\ d # c => pc'[d] = IF Sleeps(d) THEN Resumed(d) ELSE pc[d]
        /\ Sleeps(d) => wake_up_q'[d] = 0
        /\ ~ Sleeps(d) /\ wake_up_q[d] \in {0, 1} => wake_up_q'[d] = wake_up_q[d] + 1
    BY <1>1, <1>2, Pulse
  <1>7. HeldFacts(d) /\ after[d] \in Returns /\ after[c] \in Returns
    BY <1>4, <1>5, HeldUpAt DEF HeldFacts
  <1>8. Going(d) = after[d] /\ Held(d) /\ ~ Ended(d) /\ Progress(d) = turn[d] /\ turn[d] \in 1 .. Length
    BY <1>4, <1>7 DEF Going, Held, HeldUp, BarrierCode, HeldFacts, Progress, Returns
  <1>9. turn[d] = turn[c] /\ (after[d] = "past" <=> after[c] = "past")
    BY <1>4, <1>5, <1>7 DEF HeldFacts
  <1>10. Going(d)' = after[d] /\ ~ Held(d)' /\ ~ Ended(d)'
    <2>1. CASE d = c
      <3>1. pc'[d] = "wfi" /\ wake_up_q'[d] = 1
        BY <1>2, <1>4, <1>6, <2>1 DEF Sleeps, Closes
      <3> QED
        BY <1>2, <3>1 DEF Going, Held, Ended, BarrierCode
    <2>2. CASE d # c
      <3>1. pc'[d] = after[d]
        BY <1>4, <1>6, <2>2 DEF Sleeps, Waits, Resumed
      <3> QED
        BY <1>2, <1>7, <3>1 DEF Going, Held, Ended, BarrierCode, Returns
    <2> QED
      BY <2>1, <2>2
  <1>11. Progress(d)' = turn[d]
    BY <1>6, <1>7, <1>10 DEF Progress, Returns
  <1>12. Progress(c) = turn[c]
    BY <1>4, <1>5, <1>7 DEF Progress, Returns
  <1> QED
    BY <1>5, <1>8, <1>9, <1>10, <1>11, <1>12

-------------------------------------------------------------------------------
(* The work share of a single.                                             *)

(* Those who have counted are in the same construct, and no one is past it.*)
LEMMA SharedTogether ==
  ASSUME OneTeam, StateInv, NEW i \in {0, 1}, Working(i), NEW c \in Team,
         Progress(c) \in 1 .. Length, ShareOp(Progress(c)), Depth(c) < 2, NEW d \in Team
  PROVE  Progress(d) <= Progress(c) /\ (Counts(d) => Progress(d) = Progress(c))
  <1>1. Progress(c) \in Nat /\ Progress(d) \in Nat
    BY ThreadAt DEF ThreadFacts
  <1>2. AtEnd(Progress(c))
    BY DEF ShareOp, AtEnd
  <1>3. Progress(d) <= Progress(c)
    BY <1>2, Order
  <1>4. ASSUME Counts(d)
        PROVE  Progress(c) <= Progress(d)
    <2>1. AtEnd(Progress(d)) /\ Depth(d) < 2 /\ Progress(d) \in 1 .. Length
      BY <1>4 DEF Counts, ShareOp, AtEnd, Depth
    <2> QED
      BY <2>1, Order
  <1> QED
    BY <1>1, <1>3, <1>4

(* Behind a dynamic loop or sections no share is in use.                   *)
LEMMA LooseNone ==
  ASSUME OneTeam, SharesReturned, StateInv, NEW i \in {0, 1}, Working(i), NEW c \in Team, Loose(c), NEW d \in Team
  PROVE  ~ (Progress(d) \in 1 .. Length /\ ShareOp(Progress(d)) /\ Depth(d) < 2) /\ ~ Counts(d)
  <1>1. PICK j \in 1 .. Length : SplitOp(j) /\ j <= Progress(c)
    BY DEF Loose
  <1>2. /\ Length \in Nat /\ DOMAIN program[serial].body = 1 .. Length
        /\ Progress(c) \in Nat /\ Progress(d) \in Nat
    BY TheTeam, TheRegion, ThreadAt DEF ThreadFacts
  <1>3. \A k \in 1 .. Length : ShareOp(k) => k < j
    BY <1>1, <1>2 DEF SharesReturned, StateInv, ShareOp, SplitOp, Op
  <1>4. ASSUME Progress(d) \in 1 .. Length, ShareOp(Progress(d)), Depth(d) < 2
        PROVE  FALSE
    <2>1. Progress(c) <= Progress(d)
      BY <1>4, SharedTogether
    <2> QED
      BY <1>1, <1>2, <1>3, <1>4, <2>1
  <1> QED
    BY <1>4 DEF Counts, Depth

(* A step that leaves the share and those who have counted alone.          *)
QuietFor(d) ==
  /\ Counts(d)' <=> Counts(d)
  /\ Counts(d) => /\ Going(d)' = Going(d) /\ turn'[d] = turn[d]
                  /\ got'[d] = got[d] /\ completed'[d] = completed[d]
  /\ Loose(d) => Loose(d)'

SameShare ==
  /\ works'.checkfirst = works.checkfirst /\ works'.completed = works.completed
  /\ works'.copyprivate = works.copyprivate

(* A step that no thread notices keeps the share.                          *)
LEMMA QuietStep ==
  ASSUME program' = program, serial' = serial, ShareState, SameShare, \A d \in Team : QuietFor(d)
  PROVE  ShareState'
  <1>1. Team' = Team /\ Size' = Size /\ \A k : Op(k)' = Op(k)
    BY Frozen DEF Op
  <1>2. Shared' = Shared
    BY <1>1 DEF Shared, QuietFor
  <1>3. CASE Shared = {} /\ ((\A c \in Team : ~ Loose(c)) => works.checkfirst = FALSE)
    BY <1>1, <1>2, <1>3 DEF ShareState, QuietFor, SameShare
  <1>4. ASSUME NEW f \in Shared, Taken(f)
        PROVE  ShareState'
    <2>1. \A d \in Shared : /\ Going(d)' = Going(d) /\ turn'[d] = turn[d]
                            /\ got'[d] = got[d] /\ completed'[d] = completed[d]
      BY DEF QuietFor, Shared
    <2>2. First(f)' /\ \A d \in Shared \ {f} : Other(d)'
      BY <1>1, <1>4, <2>1 DEF Taken, First, Other, SameShare
    <2>3. ASSUME Shared = Team, Op(turn[f]) = "copyprivate"
          PROVE  \E l \in Team : completed'[l] = Size /\ (works'.checkfirst = TRUE => Going(l)' \in {"unlock", "copied"})
      BY <1>4, <2>1, <2>3 DEF Taken, SameShare
    <2>4. Taken(f)'
      BY <1>1, <1>2, <1>4, <2>1, <2>2, <2>3 DEF Taken, SameShare
    <2> QED
      BY <1>2, <2>4 DEF ShareState
  <1> QED
    BY <1>3, <1>4 DEF ShareState

(* Threads that do not move, and those that come to a construct.           *)
LEMMA SameQuiet ==
  ASSUME OneTeam, StateInv, NEW i \in {0, 1}, Working(i), NEW d \in Team, Same(d), program' = program, serial' = serial,
         Counts(d) => turn'[d] = turn[d] /\ got'[d] = got[d] /\ completed'[d] = completed[d]
  PROVE  QuietFor(d)
  <1>1. Length' = Length /\ \A k : Op(k)' = Op(k)
    BY Frozen DEF Op
  <1>2. Counts(d)' <=> Counts(d)
    BY <1>1 DEF Counts, Same, ShareOp
  <1>3. Loose(d) => Loose(d)'
    BY <1>1 DEF Loose, SplitOp, Same
  <1> QED
    BY <1>2, <1>3 DEF QuietFor, Counts, Same

(* A thread that comes to a construct has not counted there.               *)
LEMMA ComesQuiet ==
  ASSUME OneTeam, StateInv, NEW i \in {0, 1}, Working(i), NEW c \in Team, NEW k \in 1 .. Length + 1, Comes(c, k),
         Progress(c) < k, ~ Counts(c), program' = program, serial' = serial
  PROVE  QuietFor(c)
  <1>1. Length' = Length /\ Length \in Nat /\ Progress(c) \in Nat /\ \A j : Op(j)' = Op(j)
    BY TheTeam, Frozen, ThreadAt DEF Op, ThreadFacts
  <1>2. ~ Counts(c)'
    <2>1. CASE k = Length + 1
      BY <1>1, <2>1 DEF Comes, Counts
    <2>2. CASE k <= Length
      BY <1>1, <2>2 DEF Comes, Counts, ShareOp
    <2> QED
      BY <1>1, <2>1, <2>2
  <1>3. Loose(c) => Loose(c)'
    BY <1>1 DEF Loose, SplitOp, Comes
  <1> QED
    BY <1>2, <1>3 DEF QuietFor

(* A thread that does not count before or after a step is quiet in it.     *)
LEMMA OutsideQuiet ==
  ASSUME OneTeam, NEW c \in Team, Progress(c)' = Progress(c), ~ Counts(c), ~ Counts(c)', program' = program, serial' = serial
  PROVE  QuietFor(c)
  <1>1. Length' = Length /\ \A j : Op(j)' = Op(j)
    BY Frozen DEF Op
  <1> QED
    BY <1>1 DEF QuietFor, Loose, SplitOp

(* A step of thread c alone that is quiet for it.                          *)
LEMMA AloneQuiet ==
  ASSUME OneTeam, StateInv, NEW i \in {0, 1}, Working(i), NEW c \in Team, Alone(c), QuietFor(c),
         program' = program, serial' = serial, ShareState, SameShare,
         \A d \in Team \ {c} : got'[d] = got[d] /\ completed'[d] = completed[d]
  PROVE  ShareState'
  <1>1. Team \subseteq Cores
    BY TheTeam
  <1>2. ASSUME NEW d \in Team \ {c}
        PROVE  QuietFor(d)
    <2>1. Same(d) /\ turn'[d] = turn[d]
      BY <1>1, OthersSame DEF Alone
    <2> QED
      BY <2>1, SameQuiet
  <1> QED
    BY <1>2, QuietStep

(* With a copyprivate in it a team has a second thread.                    *)
LEMMA CopyTeam ==
  ASSUME OneTeam, SharesReturned, StateInv, NEW k \in 1 .. Length, Op(k) = "copyprivate"
  PROVE  Size >= 2
  <1>1. DOMAIN program[serial].body = 1 .. Length /\ TeamSize(serial) = Size /\ Size \in 1 .. NumCores
    BY TheTeam, TheRegion DEF StateInv
  <1>2. program[serial].num_threads # 1 /\ NumCores >= 2
    BY <1>1 DEF SharesReturned, StateInv, Op
  <1> QED
    BY <1>1, <1>2, ConfigAssumption DEF TeamSize, num_cores

(* One thread goes on in the construct it has counted in.                  *)
StageMove(c) ==
  /\ Counts(c) /\ Counts(c)' /\ turn'[c] = turn[c]
  /\ \A d \in Team : completed'[d] = completed[d]
  /\ \A d \in Team \ {c} : got'[d] = got[d]
  /\ works'.completed = works.completed
  /\ Shared # Team \/ Op(turn[c]) = "single" => works'.checkfirst = works.checkfirst
  /\ works'.checkfirst = TRUE => works.checkfirst = TRUE
  /\ works'.checkfirst = TRUE /\ completed[c] = Size /\ Op(turn[c]) = "copyprivate" /\ Other(c) =>
       (Going(c) \in {"unlock", "copied"} => Going(c)' \in {"unlock", "copied"})
  /\ \A f \in Shared : Taken(f) =>
       (f = c => First(c)') /\ (f # c => Other(c)' /\ works'.copyprivate = works.copyprivate)

(* A thread that moves within the stages of a counted construct keeps the  *)
(* share.                                                                  *)
LEMMA StageStep ==
  ASSUME OneTeam, SharesReturned, StateInv, NEW i \in {0, 1}, Working(i), NEW c \in Team, ShareState,
         Alone(c), program' = program, serial' = serial, StageMove(c)
  PROVE  ShareState'
  <1> USE DEF StageMove
  <1>1. Team' = Team /\ Size' = Size /\ Length' = Length /\ (\A k : Op(k)' = Op(k)) /\ Team \subseteq Cores
    BY TheTeam, Frozen DEF Op
  <1>2. ASSUME NEW d \in Team \ {c}
        PROVE  /\ Counts(d)' <=> Counts(d)
               /\ Counts(d) => Going(d)' = Going(d) /\ turn'[d] = turn[d] /\ got'[d] = got[d]
    <2>1. Same(d) /\ turn'[d] = turn[d]
      BY <1>1, OthersSame DEF Alone
    <2> QED
      BY <2>1, SameQuiet DEF QuietFor
  <1>3. Shared' = Shared
    BY <1>1, <1>2 DEF Shared
  <1>4. PICK f \in Shared : Taken(f)
    BY DEF ShareState, Shared
  <1>5. f \in Team /\ Counts(f) /\ Op(turn[f]) = Op(turn[c]) /\ (Op(turn[f]) = "copyprivate" => Size >= 2)
    <2>1. f \in Team /\ Counts(f) /\ Progress(c) \in 1 .. Length /\ ShareOp(Progress(c)) /\ Depth(c) < 2
      BY DEF Shared, Counts, Depth
    <2>2. Progress(f) = Progress(c)
      BY <2>1, SharedTogether
    <2>3. turn[f] = Progress(f) /\ turn[c] = Progress(c)
      BY <2>1, <2>2, ThreadAt DEF ThreadFacts
    <2> QED
      BY <2>1, <2>2, <2>3, CopyTeam
  <1>6. turn'[f] = turn[f]
    BY <1>2, <1>5
  <1>7. First(f)'
    <2>1. CASE f = c
      BY <1>4, <2>1
    <2>2. CASE f # c
      BY <1>1, <1>2, <1>4, <1>5, <2>2 DEF Taken, First
    <2> QED
      BY <2>1, <2>2
  <1>8. ASSUME NEW d \in Shared \ {f}
        PROVE  Other(d)'
    <2>1. CASE d = c
      BY <1>4, <1>8, <2>1
    <2>2. CASE d # c
      BY <1>2, <1>4, <1>8, <2>2 DEF Taken, Other, Shared
    <2> QED
      BY <2>1, <2>2
  <1>9. ASSUME Shared = Team, Op(turn[f]) = "copyprivate"
        PROVE  \E l \in Team : completed'[l] = Size /\ (works'.checkfirst = TRUE => Going(l)' \in {"unlock", "copied"})
    <2>1. PICK l \in Team : completed[l] = Size /\ (works.checkfirst = TRUE => Going(l) \in {"unlock", "copied"})
      BY <1>4, <1>9 DEF Taken
    <2>2. l # f
      BY <1>4, <1>5, <1>9, <2>1 DEF Taken
    <2>3. works'.checkfirst = TRUE => Going(l)' \in {"unlock", "copied"}
      <3>1. CASE l = c
        BY <1>4, <1>5, <1>9, <2>1, <2>2, <3>1 DEF Taken
      <3>2. CASE l # c
        BY <1>2, <1>9, <2>1, <3>2 DEF Shared
      <3> QED
        BY <3>1, <3>2
    <2> QED
      BY <2>1, <2>3
  <1>10. Taken(f)'
    BY <1>1, <1>3, <1>4, <1>5, <1>6, <1>7, <1>8, <1>9 DEF Taken
  <1> QED
    BY <1>3, <1>10 DEF ShareState

(* A thread takes its part of a single or copyprivate, under the lock.     *)
LEMMA CountStep ==
  ASSUME OneTeam, SharesReturned, StateInv, NEW i \in {0, 1}, Working(i), WorksInv, CheckInv, ShareState,
         NEW c \in Team, Share(c), At(c).op \in {"single", "copyprivate"}
  PROVE  ShareState'
  <1>1. /\ program' = program /\ serial' = serial /\ after' = after /\ wake_up_q' = wake_up_q
        /\ Step(c, "share", "unlock") /\ pc[c] = "share"
    BY DEF Share, Step
  <1>2. pc[c] \in Places /\ "unlock" \in Places
    BY <1>1 DEF Places, Sharing
  <1>3. /\ Progress(c) \in 1 .. Length /\ Op(turn[c]) = At(c).op /\ turn[c] = Progress(c) /\ fn[c] = serial
        /\ Going(c) = "share"
    <2>1. turn[c] \in 1 .. Length /\ At(c).op = Op(turn[c]) /\ fn[c] = serial
      BY <1>2, PlacesRun
    <2>2. Going(c) = "share" /\ ~ Ended(c)
      BY <1>1 DEF Going, BarrierCode, Ended
    <2> QED
      BY <2>1, <2>2 DEF Progress
  <1>4. Alone(c) /\ Progress(c)' = Progress(c) /\ Going(c)' = "unlock" /\ Held(c)' = FALSE /\ turn' = turn
    BY <1>1, <1>2, StepTo
  <1>5. /\ Team' = Team /\ Size' = Size /\ Length' = Length /\ (\A k : Op(k)' = Op(k)) /\ Team \subseteq Cores
        /\ IsFiniteSet(Team) /\ Cardinality(Team) = Size /\ Size \in Nat /\ Size \in 1 .. NumCores
    BY <1>1, TheTeam, Frozen DEF Op
  <1>6. ShareOp(Progress(c)) /\ Depth(c) < 2 /\ ~ Counts(c) /\ Counts(c)'
    BY <1>3, <1>4, <1>5 DEF ShareOp, Depth, Counts
  <1>7. event.nthreads = Size
    BY TheTeam DEF Working
  <1>8. first[c] = ~ works.checkfirst /\ works.checkfirst \in BOOLEAN /\ first'= first
    BY <1>1, <1>5 DEF CheckInv, WorksInv, Share
  <1>9. ASSUME NEW d \in Team \ {c}
        PROVE  /\ Counts(d)' <=> Counts(d)
               /\ Going(d)' = Going(d) /\ turn'[d] = turn[d] /\ got'[d] = got[d] /\ completed'[d] = completed[d]
    <2>1. Same(d) /\ turn'[d] = turn[d] /\ pc'[d] = pc[d] /\ after'[d] = after[d]
      BY <1>1, <1>4, <1>5, OthersSame DEF Alone
    <2>2. got'[d] = got[d] /\ completed'[d] = completed[d]
      BY <1>5 DEF Share, WorksInv
    <2> QED
      BY <1>1, <2>1, <2>2, SameQuiet DEF QuietFor, Going
  <1>10. Shared' = Shared \cup {c} /\ c \notin Shared
    BY <1>5, <1>6, <1>9 DEF Shared
  <1>11. IsFiniteSet(Shared) /\ Cardinality(Shared) \in Nat /\ Cardinality(Shared') = Cardinality(Shared) + 1
    <2>1. Shared \subseteq Team
      BY DEF Shared
    <2>2. IsFiniteSet(Shared)
      BY <1>5, <2>1, FS_Subset
    <2> QED
      BY <1>10, <2>2, FS_AddElement, FS_CardinalityType
  <1>12. Cardinality(Shared') <= Size /\ (Shared' = Team <=> Cardinality(Shared') = Size)
    <2>1. Shared' \subseteq Team
      BY <1>10 DEF Shared
    <2> QED
      BY <1>5, <2>1, FS_Subset
  <1>13. /\ Op(turn[c]) = "copyprivate" => Size >= 2
         /\ \A f \in Shared : Op(turn[f]) = Op(turn[c])
    <2>1. ASSUME NEW f \in Shared
          PROVE  Op(turn[f]) = Op(turn[c])
      <3>1. f \in Team /\ Counts(f)
        BY DEF Shared
      <3>2. Progress(f) = Progress(c) /\ Progress(f) \in 1 .. Length
        BY <1>3, <1>6, <3>1, SharedTogether
      <3> QED
        BY <1>3, <3>1, <3>2, ThreadAt DEF ThreadFacts
    <2> QED
      BY <1>3, <2>1, CopyTeam
  <1>14. CASE first[c] = TRUE
    <2>1. works.checkfirst = FALSE
      BY <1>8, <1>14
    <2>2. Shared = {}
      <3>1. ASSUME NEW f \in Shared, Taken(f)
            PROVE  FALSE
        BY <1>10, <2>1, <3>1 DEF Taken
      <3> QED
        BY <3>1 DEF ShareState
    <2>3. Shared' = {c} /\ Cardinality(Shared') = 1 /\ c \in Cores
      BY <1>5, <1>10, <1>11, <2>2, FS_EmptySet
    <2>4. /\ Marked(works).completed = 0 /\ Marked(works).checkfirst = TRUE
          /\ Fields \subseteq DOMAIN Marked(works)
      BY DEF Marked, WorksInv, Fields
    <2>5. CASE At(c).op = "single"
      <3>1. works' = Counted(Marked(works)) /\ got' = [got EXCEPT ![c] = {0}]
        BY <1>14, <2>5 DEF Share
      <3>2. works'.completed = 1 /\ works'.checkfirst = (1 # Size)
        BY <1>7, <2>4, <3>1 DEF Counted, Fields
      <3>3. First(c)'
        BY <1>3, <1>4, <1>5, <2>3, <2>5, <3>1 DEF First, WorksInv
      <3>4. Taken(c)'
        BY <1>3, <1>4, <1>5, <1>12, <2>3, <2>5, <3>2, <3>3 DEF Taken
      <3> QED
        BY <2>3, <3>4 DEF ShareState
    <2>6. CASE At(c).op = "copyprivate"
      <3>1. /\ works' = [Marked(works) EXCEPT !.completed = @ + 1] /\ got' = [got EXCEPT ![c] = {0}]
            /\ completed' = [completed EXCEPT ![c] = works'.completed]
        BY <1>14, <2>6 DEF Share
      <3>2. works'.completed = 1 /\ works'.checkfirst = TRUE /\ completed'[c] = 1
        BY <2>3, <2>4, <3>1 DEF Fields, WorksInv
      <3>3. First(c)'
        BY <1>4, <2>3, <3>1 DEF First, WorksInv
      <3>4. Shared' # Team
        BY <1>3, <1>12, <1>13, <2>3, <2>6
      <3>5. Taken(c)'
        BY <1>3, <1>4, <1>5, <2>3, <2>6, <3>2, <3>3, <3>4 DEF Taken
      <3> QED
        BY <2>3, <3>5 DEF ShareState
    <2> QED
      BY <2>5, <2>6
  <1>15. CASE first[c] = FALSE
    <2>1. works.checkfirst = TRUE
      BY <1>8, <1>15
    <2>2. \A d \in Team : ~ Loose(d)
      BY <1>3, <1>6, LooseNone
    <2>3. PICK f \in Shared : Taken(f)
      BY <2>1, <2>2 DEF ShareState
    <2>4. f # c /\ f \in Team /\ Op(turn[f]) = At(c).op /\ works.completed = Cardinality(Shared)
      BY <1>3, <1>10, <1>13, <2>3 DEF Shared, Taken
    <2>5. Op(turn[f])' = Op(turn[f]) /\ f \in Shared'
      BY <1>4, <1>5, <1>10
    <2>6. ASSUME got' = [got EXCEPT ![c] = {}], works'.copyprivate = works.copyprivate
          PROVE  First(f)' /\ \A d \in Shared' \ {f} : Other(d)'
      <3>1. First(f)'
        BY <1>5, <1>9, <2>3, <2>4, <2>6, <1>1 DEF Taken, First
      <3>2. ASSUME NEW d \in Shared' \ {f}
            PROVE  Other(d)'
        <4>1. CASE d = c
          BY <1>4, <1>5, <2>6, <4>1 DEF Other, WorksInv
        <4>2. CASE d # c
          BY <1>9, <1>10, <2>3, <3>2, <4>2 DEF Taken, Other, Shared
        <4> QED
          BY <4>1, <4>2
      <3> QED
        BY <3>1, <3>2
    <2>7. CASE At(c).op = "single"
      <3>1. works' = Counted(works) /\ got' = [got EXCEPT ![c] = {}]
        BY <1>15, <2>7 DEF Share
      <3>2. /\ works'.completed = works.completed + 1 /\ works'.checkfirst = (works.completed + 1 # Size)
            /\ works'.copyprivate = works.copyprivate
        BY <1>7, <2>1, <3>1 DEF Counted, Fields, WorksInv
      <3>3. works'.completed = Cardinality(Shared')
        BY <1>11, <2>4, <3>2
      <3>4. Taken(f)'
        BY <1>5, <1>12, <2>4, <2>5, <2>6, <2>7, <3>1, <3>2, <3>3 DEF Taken
      <3> QED
        BY <2>5, <3>4 DEF ShareState
    <2>8. CASE At(c).op = "copyprivate"
      <3>1. /\ works' = [works EXCEPT !.completed = @ + 1] /\ got' = [got EXCEPT ![c] = {}]
            /\ completed' = [completed EXCEPT ![c] = works'.completed]
        BY <1>15, <2>8 DEF Share
      <3>2. /\ works'.completed = works.completed + 1 /\ works'.checkfirst = TRUE
            /\ works'.copyprivate = works.copyprivate
        BY <2>1, <3>1 DEF Fields, WorksInv
      <3>3. works'.completed = Cardinality(Shared')
        BY <1>11, <2>4, <3>2
      <3>4. completed'[c] = works'.completed /\ completed'[f] = 1
        BY <1>5, <1>9, <2>3, <2>4, <2>8, <3>1 DEF WorksInv, Taken
      <3>5. Shared' = Team => completed'[c] = Size
        BY <1>12, <3>3, <3>4
      <3>6. Taken(f)'
        BY <1>4, <1>5, <2>4, <2>5, <2>6, <2>8, <3>1, <3>2, <3>3, <3>4, <3>5 DEF Taken
      <3> QED
        BY <2>5, <3>6 DEF ShareState
    <2> QED
      BY <2>7, <2>8
  <1> QED
    BY <1>8, <1>14, <1>15

(* A thread at a place of a construct.                                     *)
LEMMA PlaceFacts ==
  ASSUME OneTeam, StateInv, NEW i \in {0, 1}, Working(i), NEW c \in Team, pc[c] \in Places
  PROVE  /\ Progress(c) = turn[c] /\ turn[c] \in 1 .. Length /\ turn[c] \in Nat /\ Going(c) = pc[c] /\ ~ Held(c)
         /\ Fits(pc[c], turn[c]) /\ At(c) = program[serial].body[turn[c]] /\ At(c).op = Op(turn[c])
         /\ fn[c] = serial /\ Op(turn[c]) \in Constructs
  <1>1. /\ turn[c] \in 1 .. Length /\ Fits(pc[c], turn[c]) /\ fn[c] = serial /\ Length \in Nat
        /\ At(c) = program[serial].body[turn[c]] /\ At(c).op = Op(turn[c]) /\ Op(turn[c]) \in Constructs
    BY PlacesRun, TheTeam
  <1>2. Going(c) = pc[c] /\ ~ Held(c) /\ ~ Ended(c) /\ pc[c] # "run_task"
    BY DEF Going, Held, Ended, BarrierCode, Places, Sharing, Returns
  <1> QED
    BY <1>1, <1>2 DEF Progress

(* After the barrier of a copyprivate the whole team has counted.          *)
LEMMA CopiedTogether ==
  ASSUME OneTeam, StateInv, NEW i \in {0, 1}, Working(i), NEW c \in Team, pc[c] = "copied"
  PROVE  \A d \in Team : Counts(d) /\ Depth(d) = 1 /\ Progress(d) = turn[c] /\ Op(turn[c]) = "copyprivate"
  <1>1. /\ Progress(c) = turn[c] /\ turn[c] \in 1 .. Length /\ Going(c) = "copied" /\ ~ Held(c)
        /\ Op(turn[c]) = "copyprivate"
    BY PlaceFacts DEF Places, Returns, Fits
  <1>2. Depth(c) = 1 /\ AtEnd(Progress(c)) /\ InMiddle(Progress(c)) /\ ShareOp(Progress(c))
    BY <1>1 DEF Depth, AtEnd, InMiddle, ShareOp
  <1> SUFFICES ASSUME NEW d \in Team
               PROVE  Counts(d) /\ Depth(d) = 1 /\ Progress(d) = turn[c]
    BY <1>1
  <1>3. Progress(d) \in Nat /\ Progress(c) \in Nat /\ Depth(d) \in 0 .. 2
    BY ThreadAt DEF ThreadFacts
  <1>4. /\ Progress(d) <= Progress(c) /\ Progress(d) >= Progress(c)
        /\ Progress(d) = Progress(c) => Depth(d) < 2 /\ Depth(d) >= 1
    BY <1>1, <1>2, Order
  <1>5. Progress(d) = Progress(c) /\ Depth(d) = 1
    BY <1>3, <1>4
  <1>6. Going(d) \in {"sync", "copied"} \/ (Going(d) = "past" /\ Held(d))
    BY <1>5 DEF Depth
  <1> QED
    BY <1>1, <1>2, <1>5, <1>6 DEF Counts

(* What the steps within the constructs leave alone.                       *)
LEMMA ConstructUnchanged ==
  ASSUME NEW c, ConstructStep(c)
  PROVE  /\ program' = program /\ serial' = serial /\ event' = event /\ barrier' = barrier
         /\ wake_up_q' = wake_up_q /\ pc[c] \in Places
  <1>1. /\ program' = program /\ serial' = serial /\ event' = event /\ barrier' = barrier
        /\ wake_up_q' = wake_up_q
    BY DEF ConstructStep, Past, LockShare, gomp_work_share_start, Share, Unlock, GOMP_sections_next,
           Loop, NextChunk, LoopEnd, Work, Copied, GOMP_barrier, Task, EnterCritical, LeaveCritical
  <1>2. pc[c] \in Places
    BY DEF ConstructStep, Past, LockShare, gomp_work_share_start, Share, Unlock, GOMP_sections_next,
           Loop, Work, Copied, GOMP_barrier, CallBarrier, Step, Task, EnterCritical, LeaveCritical,
           Places, Sharing, Returns
  <1> QED
    BY <1>1, <1>2

(* The ways a thread goes on from a place of a construct.                  *)
LEMMA ConstructMoves ==
  ASSUME OneTeam, StateInv, NEW i \in {0, 1}, Working(i), NEW c \in Team, ConstructStep(c)
  PROVE  \/ \E to \in Places : Step(c, pc[c], to) /\ after' = after
         \/ \E ret \in Returns : CallBarrier(c, pc[c], ret)
         \/ Advance(c) /\ after' = after
  <1>1. pc[c] \in Places
    BY ConstructUnchanged
  <1>2. /\ At(c).op = Op(turn[c]) /\ Fits(pc[c], turn[c])
    BY <1>1, PlaceFacts
  <1>3. /\ {"check", "share", "unlock", "loop_start", "sync", "work", "loop_next", "sections_next", "in_critical"} \subseteq Places
        /\ {"past", "copied", "sync"} \subseteq Returns
    BY DEF Places, Sharing, Returns
  <1>4. CASE Past(c) \/ Task(c) \/ LeaveCritical(c)
    BY <1>4 DEF Past, Task, LeaveCritical
  <1>5. CASE LockShare(c)
    BY <1>3, <1>5 DEF LockShare, Step
  <1>6. CASE gomp_work_share_start(c)
    BY <1>3, <1>6 DEF gomp_work_share_start, Step
  <1>7. CASE Share(c)
    BY <1>3, <1>7 DEF Share, Step
  <1>8. CASE Unlock(c)
    <2>1. pc[c] = "unlock"
      BY <1>8 DEF Unlock
    <2>2. \/ Step(c, "unlock", "loop_start") /\ UNCHANGED after
          \/ Advance(c) /\ UNCHANGED after
          \/ Step(c, "unlock", "sync") /\ UNCHANGED after
          \/ CallBarrier(c, "unlock", "copied")
          \/ Step(c, "unlock", "work") /\ UNCHANGED after
      BY <1>8 DEF Unlock
    <2> QED
      BY <1>3, <2>1, <2>2
  <1>9. CASE GOMP_sections_next(c)
    BY <1>3, <1>9 DEF GOMP_sections_next, Step
  <1>10. CASE Loop(c)
    <2>1. \E from : pc[c] = from /\ \/ Step(c, from, "work") /\ UNCHANGED after
                                    \/ CallBarrier(c, from, "past")
                                    \/ Advance(c) /\ UNCHANGED after
      BY <1>10 DEF Loop, NextChunk, LoopEnd
    <2> QED
      BY <1>3, <2>1
  <1>11. CASE Work(c)
    <2>1. pc[c] = "work" /\ Op(turn[c]) \in {"loop", "sections", "single", "copyprivate"}
      BY <1>2, <1>11 DEF Work, Fits
    <2>2. \/ Step(c, "work", "loop_next") /\ UNCHANGED after
          \/ Step(c, "work", "sections_next") /\ UNCHANGED after
          \/ Step(c, "work", "sync") /\ UNCHANGED after
          \/ CallBarrier(c, "work", "sync")
      BY <1>2, <1>11, <2>1 DEF Work
    <2> QED
      BY <1>3, <2>1, <2>2
  <1>12. CASE Copied(c)
    BY <1>3, <1>12 DEF Copied, Step
  <1>13. CASE GOMP_barrier(c)
    BY <1>3, <1>13 DEF GOMP_barrier, CallBarrier, Step
  <1>14. CASE EnterCritical(c)
    BY <1>3, <1>14 DEF EnterCritical, Step
  <1> QED
    BY <1>4, <1>5, <1>6, <1>7, <1>8, <1>9, <1>10, <1>11, <1>12, <1>13, <1>14 DEF ConstructStep

(* In a construct that is no single a thread does not count.               *)
LEMMA ElsewhereStep ==
  ASSUME OneTeam, SharesReturned, StateInv, NEW i \in {0, 1}, Working(i), NEW c \in Team, ConstructStep(c),
         ~ ShareOp(turn[c]) \/ pc[c] = "past"
  PROVE  Alone(c) /\ QuietFor(c) /\ (Loose(c) => Loose(c)')
  <1>1. /\ program' = program /\ serial' = serial /\ wake_up_q' = wake_up_q /\ pc[c] \in Places
        /\ Length' = Length /\ Length \in Nat /\ \A k : Op(k)' = Op(k)
    BY ConstructUnchanged, Frozen, TheTeam DEF Op
  <1>2. /\ Progress(c) = turn[c] /\ turn[c] \in 1 .. Length /\ turn[c] \in Nat /\ Going(c) = pc[c] /\ ~ Held(c)
        /\ fn[c] = serial /\ Fits(pc[c], turn[c])
    BY <1>1, PlaceFacts
  <1>3. ~ Counts(c)
    BY <1>2 DEF Counts
  <1>4. CASE Advance(c) /\ after' = after
    <2>1. Goto(c, serial, turn[c] + 1) /\ turn[c] + 1 \in 1 .. Length + 1
      BY <1>1, <1>2, <1>4 DEF Advance
    <2>2. Alone(c) /\ Comes(c, turn[c] + 1)
      BY <1>1, <1>4, <2>1, GotoTo
    <2>3. QuietFor(c)
      BY <1>1, <1>2, <1>3, <2>1, <2>2, ComesQuiet
    <2> QED
      BY <2>2, <2>3 DEF QuietFor
  <1>5. ASSUME pc[c] # "past", Alone(c), Progress(c)' = Progress(c)
        PROVE  Alone(c) /\ QuietFor(c) /\ (Loose(c) => Loose(c)')
    <2>1. ~ Counts(c)'
      BY <1>1, <1>2, <1>5 DEF Counts, ShareOp
    <2>2. QuietFor(c)
      BY <1>1, <1>3, <1>5, <2>1, OutsideQuiet
    <2> QED
      BY <1>5, <2>2 DEF QuietFor
  <1>6. pc[c] = "past" => Advance(c) /\ after' = after
    BY DEF ConstructStep, Past, LockShare, gomp_work_share_start, Share, Unlock, GOMP_sections_next,
           Loop, Work, Copied, GOMP_barrier, CallBarrier, Step, Task, EnterCritical, LeaveCritical
  <1>7. ASSUME NEW to \in Places, Step(c, pc[c], to), after' = after
        PROVE  Alone(c) /\ Progress(c)' = Progress(c)
    BY <1>1, <1>7, StepTo
  <1>8. ASSUME NEW ret \in Returns, CallBarrier(c, pc[c], ret)
        PROVE  Alone(c) /\ Progress(c)' = Progress(c)
    BY <1>1, <1>8, CallTo
  <1> QED
    BY <1>4, <1>5, <1>6, <1>7, <1>8, ConstructMoves

(* Only single.c and those who mark a share write what ShareState is about.*)
LEMMA ConstructLocals ==
  ASSUME OneTeam, StateInv, WorksInv, NEW i \in {0, 1}, Working(i), NEW c \in Team, ConstructStep(c)
  PROVE  \A d \in Team \ {c} : got'[d] = got[d] /\ completed'[d] = completed[d] /\ first'[d] = first[d]
  <1>1. Team \subseteq Cores
    BY TheTeam
  <1>2. pc[c] \in Places
    BY ConstructUnchanged
  <1>3. pc[c] \in Sharing => At(c).op \in {"loop", "sections", "single", "copyprivate"}
    BY <1>2, PlaceFacts DEF Fits
  <1>4. CASE Share(c)
    <2>1. pc[c] \in Sharing
      BY <1>4 DEF Share, Step, Sharing
    <2> QED
      BY <1>1, <1>3, <1>4, <2>1 DEF Share, WorksInv
  <1>5. CASE Loop(c)
    <2>1. first' = first /\ completed' = completed /\ (got' = got \/ \E s : got' = [got EXCEPT ![c] = s])
      BY <1>5 DEF Loop, NextChunk, LoopEnd, localVars
    <2> QED
      BY <1>1, <2>1 DEF WorksInv
  <1>6. CASE gomp_work_share_start(c) \/ GOMP_sections_next(c)
    BY <1>1, <1>6 DEF gomp_work_share_start, GOMP_sections_next, WorksInv
  <1> QED
    BY <1>4, <1>5, <1>6
    DEF ConstructStep, Past, LockShare, Unlock, Work, Copied, GOMP_barrier, Task, EnterCritical, LeaveCritical, localVars

(* Outside of a single the counter and the mark of the share are left      *)
(* alone.                                                                  *)
LEMMA ElsewhereShare ==
  ASSUME OneTeam, SharesReturned, StateInv, LockInv, WorksInv, NEW i \in {0, 1}, Working(i), NEW c \in Team,
         ConstructStep(c), ~ ShareOp(turn[c]) \/ pc[c] = "past", ~ Share(c)
  PROVE  SameShare
  <1>1. pc[c] \in Places
    BY ConstructUnchanged
  <1>2. Fits(pc[c], turn[c]) /\ At(c).op = Op(turn[c]) /\ turn[c] \in 1 .. Length /\ At(c) = program[serial].body[turn[c]]
    BY <1>1, PlaceFacts
  <1>3. CASE Past(c) \/ gomp_work_share_start(c) \/ GOMP_barrier(c) \/ Task(c)
    BY <1>3 DEF SameShare, Past, gomp_work_share_start, GOMP_barrier, Task
  <1>4. CASE LockShare(c) \/ GOMP_sections_next(c) \/ Unlock(c)
    <2>1. \E v : works' = [works EXCEPT !["lock"] = v]
      BY <1>4 DEF LockShare, GOMP_sections_next, Unlock, gomp_hal_lock, gomp_hal_unlock
    <2> QED
      BY <2>1 DEF SameShare
  <1>5. CASE Loop(c)
    <2>1. \E v : works' = [works EXCEPT !.next = v]
      BY <1>5 DEF Loop, NextChunk, LoopEnd
    <2> QED
      BY <2>1 DEF SameShare
  <1>6. CASE Work(c)
    <2>1. pc[c] = "work" /\ Op(turn[c]) \in {"loop", "sections"}
      BY <1>2, <1>6 DEF Work, Fits, ShareOp
    <2>2. works' = works
      BY <1>2, <1>6, <2>1 DEF Work
    <2> QED
      BY <2>2 DEF SameShare
  <1>7. ~ Copied(c)
    BY <1>2 DEF Copied, Step, Fits, ShareOp
  <1>8. CASE EnterCritical(c) \/ LeaveCritical(c)
    <2>1. pc[c] \in {"critical", "in_critical"}
      BY <1>8 DEF EnterCritical, LeaveCritical, Step
    <2>2. At(c).lock \in Locks
      BY <1>2, <2>1, TheRegion DEF Fits
    <2>3. \E v : works' = [works EXCEPT ![At(c).lock] = v]
      BY <1>8 DEF EnterCritical, LeaveCritical, gomp_hal_lock, gomp_hal_unlock
    <2> QED
      BY <2>2, <2>3 DEF SameShare, Locks
  <1> QED
    BY <1>3, <1>4, <1>5, <1>6, <1>7, <1>8 DEF ConstructStep

(* Every step of a construct keeps the share.                              *)
LEMMA ConstructShare ==
  ASSUME OneTeam, SharesReturned, StateInv, LockInv, NEW i \in {0, 1}, Working(i), WorksInv, CheckInv, ShareState,
         NEW c \in Team, ConstructStep(c)
  PROVE  ShareState'
  <1>1. /\ program' = program /\ serial' = serial /\ wake_up_q' = wake_up_q /\ pc[c] \in Places
        /\ Length' = Length /\ Length \in Nat /\ (\A k : Op(k)' = Op(k)) /\ Team' = Team /\ c \in Cores
    BY ConstructUnchanged, Frozen, TheTeam DEF Op
  <1>2. /\ Progress(c) = turn[c] /\ turn[c] \in 1 .. Length /\ turn[c] \in Nat /\ Going(c) = pc[c] /\ ~ Held(c)
        /\ fn[c] = serial /\ Fits(pc[c], turn[c]) /\ At(c).op = Op(turn[c])
    BY <1>1, PlaceFacts
  <1>3. \A d \in Team \ {c} : got'[d] = got[d] /\ completed'[d] = completed[d] /\ first'[d] = first[d]
    BY ConstructLocals
  <1>4. CASE ~ ShareOp(turn[c]) \/ pc[c] = "past"
    <2>1. Alone(c) /\ QuietFor(c) /\ (Loose(c) => Loose(c)')
      BY <1>4, ElsewhereStep
    <2>2. CASE ~ Share(c)
      BY <1>1, <1>3, <1>4, <2>1, <2>2, ElsewhereShare, AloneQuiet
    <2>3. CASE Share(c)
      <3>1. SplitOp(turn[c])
        BY <1>2, <1>4, <2>3 DEF Share, Step, Fits, Sharing, ShareOp, SplitOp
      <3>2. Loose(c)
        BY <1>2, <3>1 DEF Loose
      <3>3. \A d \in Team : ~ Counts(d)
        BY <3>2, LooseNone
      <3>4. \A d \in Team : ~ Counts(d)'
        <4>1. ASSUME NEW d \in Team \ {c}
              PROVE  ~ Counts(d)'
          <5>1. Same(d) /\ turn'[d] = turn[d]
            BY <1>1, <2>1, TheTeam, OthersSame DEF Alone
          <5> QED
            BY <1>1, <1>3, <3>3, <5>1, SameQuiet DEF QuietFor
        <4> QED
          BY <2>1, <3>3, <4>1 DEF QuietFor
      <3>5. Shared' = {}
        BY <1>1, <3>4 DEF Shared
      <3> QED
        BY <1>1, <2>1, <3>2, <3>5 DEF ShareState
    <2> QED
      BY <2>2, <2>3
  <1>5. CASE ShareOp(turn[c]) /\ pc[c] # "past"
    <2>1. pc[c] \in Sharing \cup {"work", "sync", "copied"}
      BY <1>1, <1>2, <1>5 DEF Fits, ShareOp, Places, Returns
    <2>2. CASE LockShare(c) \/ gomp_work_share_start(c)
      <3>1. \E to \in {"check", "share"} : Step(c, pc[c], to) /\ after' = after
        BY <2>2 DEF LockShare, gomp_work_share_start, Step
      <3>2. {"check", "share"} \subseteq Places
        BY DEF Places, Sharing
      <3>3. Alone(c) /\ Progress(c)' = Progress(c) /\ Going(c)' \in {"check", "share"}
        BY <1>1, <3>1, <3>2, StepTo
      <3>4. Going(c) \in {"lock", "check"}
        BY <1>2, <2>2 DEF LockShare, gomp_work_share_start, Step
      <3>5. ~ Counts(c) /\ ~ Counts(c)'
        BY <3>3, <3>4 DEF Counts
      <3>6. QuietFor(c)
        BY <1>1, <3>3, <3>5, OutsideQuiet
      <3>7. SameShare
        <4>1. CASE works' = works
          BY <4>1 DEF SameShare
        <4>2. CASE works' = [works EXCEPT !["lock"] = 1]
          BY <4>2 DEF SameShare
        <4> QED
          BY <2>2, <4>1, <4>2 DEF LockShare, gomp_work_share_start, gomp_hal_lock
      <3> QED
        BY <1>1, <1>3, <3>3, <3>6, <3>7, AloneQuiet
    <2>3. CASE Share(c)
      BY <1>2, <1>5, <2>3, CountStep DEF ShareOp
    <2>4. CASE Unlock(c)
      <3>1. pc[c] = "unlock" /\ works' = [works EXCEPT !["lock"] = 0] /\ got' = got /\ completed' = completed
        BY <2>4 DEF Unlock, gomp_hal_unlock, localVars
      <3>2. /\ works'.completed = works.completed /\ works'.checkfirst = works.checkfirst
            /\ works'.copyprivate = works.copyprivate
        BY <3>1
      <3>3. Counts(c) /\ c \in Shared
        BY <1>2, <1>5, <3>1 DEF Counts, Shared
      <3>4. \/ got[c] = {} /\ Op(turn[c]) = "single" /\ Step(c, pc[c], "sync") /\ after' = after
            \/ got[c] = {} /\ Op(turn[c]) = "copyprivate" /\ CallBarrier(c, pc[c], "copied")
            \/ got[c] # {} /\ Step(c, pc[c], "work") /\ after' = after
        BY <1>2, <1>5, <2>4, <3>1 DEF Unlock, ShareOp
      <3>5. {"sync", "work"} \subseteq Places /\ "copied" \in Returns
        BY DEF Places, Returns
      <3>6. /\ Alone(c) /\ Progress(c)' = Progress(c) /\ turn' = turn
            /\ \/ got[c] = {} /\ Op(turn[c]) = "single" /\ Going(c)' = "sync"
               \/ got[c] = {} /\ Op(turn[c]) = "copyprivate" /\ Going(c)' = "copied"
               \/ got[c] # {} /\ Going(c)' = "work"
        BY <1>1, <3>4, <3>5, StepTo, CallTo
      <3>7. Counts(c)'
        BY <1>1, <1>2, <1>5, <3>6 DEF Counts, ShareOp
      <3>8. Other(c) => got[c] = {}
        BY <1>2, <3>1 DEF Other
      <3>9. ASSUME NEW f \in Shared, Taken(f)
            PROVE  (f = c => First(c)') /\ (f # c => Other(c)')
        <4>1. First(f) /\ (f # c => Other(c))
          BY <3>3, <3>9 DEF Taken
        <4>2. f = c => got[c] = {0}
          BY <1>2, <3>1, <4>1 DEF First
        <4> QED
          BY <3>1, <3>6, <3>8, <4>1, <4>2 DEF First, Other
      <3>10. Going(c)' \in {"unlock", "copied"} \/ Op(turn[c]) # "copyprivate" \/ ~ Other(c)
        BY <3>6, <3>8
      <3>11. StageMove(c)
        <4>1. turn'[c] = turn[c] /\ (\A d \in Team : completed'[d] = completed[d]) /\ \A d \in Team \ {c} : got'[d] = got[d]
          BY <3>1, <3>6
        <4>2. \A f \in Shared : Taken(f) =>
                (f = c => First(c)') /\ (f # c => Other(c)' /\ works'.copyprivate = works.copyprivate)
          BY <3>2, <3>9
        <4> QED
          BY <3>2, <3>3, <3>7, <3>10, <4>1, <4>2 DEF StageMove
      <3> QED
        BY <1>1, <3>6, <3>11, StageStep
    <2>5. CASE Work(c)
      <3>1. pc[c] = "work" /\ got' = got /\ completed' = completed
        BY <2>5 DEF Work, localVars
      <3>2. \/ Op(turn[c]) = "single" /\ Step(c, pc[c], "sync") /\ after' = after /\ works' = works
            \/ /\ Op(turn[c]) = "copyprivate" /\ CallBarrier(c, pc[c], "sync")
               /\ works' = [works EXCEPT !.copyprivate = <<c, fn[c], turn[c]>>]
        BY <1>2, <1>5, <2>5, <3>1 DEF Work, ShareOp
      <3>3. "sync" \in Places /\ "sync" \in Returns
        BY DEF Places, Returns
      <3>4. Alone(c) /\ Progress(c)' = Progress(c) /\ turn' = turn /\ Going(c)' = "sync"
        BY <1>1, <3>2, <3>3, StepTo, CallTo
      <3>5. works'.completed = works.completed /\ works'.checkfirst = works.checkfirst
        <4>1. CASE works' = works
          BY <4>1
        <4>2. CASE works' = [works EXCEPT !.copyprivate = <<c, fn[c], turn[c]>>]
          BY <4>2
        <4> QED
          BY <3>2, <4>1, <4>2
      <3>6. Op(turn[c]) = "copyprivate" => works'.copyprivate = <<c, serial, turn[c]>>
        BY <1>2, <3>2 DEF WorksInv, Fields
      <3>7. Counts(c) /\ c \in Shared /\ Counts(c)' /\ ~ Other(c)
        BY <1>1, <1>2, <1>5, <3>1, <3>4 DEF Counts, Shared, ShareOp, Other
      <3>8. \A f \in Shared : Taken(f) => f = c
        BY <3>7 DEF Taken
      <3>9. First(c)'
        BY <1>1, <3>4, <3>6 DEF First
      <3>10. StageMove(c)
        <4>1. turn'[c] = turn[c] /\ (\A d \in Team : completed'[d] = completed[d]) /\ \A d \in Team \ {c} : got'[d] = got[d]
          BY <3>1, <3>4
        <4>2. \A f \in Shared : Taken(f) =>
                (f = c => First(c)') /\ (f # c => Other(c)' /\ works'.copyprivate = works.copyprivate)
          BY <3>8, <3>9
        <4> QED
          BY <3>5, <3>7, <4>1, <4>2 DEF StageMove
      <3> QED
        BY <1>1, <3>4, <3>10, StageStep
    <2>6. CASE Copied(c)
      <3>1. /\ pc[c] = "copied" /\ got' = got /\ completed' = completed /\ after' = after /\ Step(c, pc[c], "sync")
            /\ works' = [works EXCEPT !.checkfirst = @ /\ completed[c] # event.nthreads]
        BY <2>6 DEF Copied, localVars, Step
      <3>2. event.nthreads = Size /\ "sync" \in Places
        BY TheTeam DEF Working, Places, Returns
      <3>3. Alone(c) /\ Progress(c)' = Progress(c) /\ turn' = turn /\ Going(c)' = "sync"
        BY <1>1, <3>1, <3>2, StepTo
      <3>4. /\ works'.completed = works.completed /\ works'.checkfirst = (works.checkfirst /\ completed[c] # Size)
            /\ works'.copyprivate = works.copyprivate /\ works.checkfirst \in BOOLEAN
        BY <3>1, <3>2 DEF WorksInv, Fields
      <3>5. Counts(c) /\ c \in Shared /\ Counts(c)' /\ Op(turn[c]) = "copyprivate"
        BY <1>1, <1>2, <1>5, <3>1, <3>3 DEF Counts, Shared, ShareOp, Fits
      <3>6. Shared = Team
        BY <3>1, CopiedTogether DEF Shared
      <3>7. Op(turn[c]) # "single" /\ (works'.checkfirst = TRUE => works.checkfirst = TRUE /\ completed[c] # Size)
        BY <3>4, <3>5
      <3>8. ASSUME NEW f \in Shared, Taken(f)
            PROVE  f # c /\ Other(c)'
        <4>1. f # c
          BY <1>2, <3>1, <3>8 DEF Taken, First
        <4> QED
          BY <3>3, <4>1 DEF Other
      <3>9. StageMove(c)
        <4>1. turn'[c] = turn[c] /\ (\A d \in Team : completed'[d] = completed[d]) /\ \A d \in Team \ {c} : got'[d] = got[d]
          BY <3>1, <3>3
        <4>2. \A f \in Shared : Taken(f) =>
                (f = c => First(c)') /\ (f # c => Other(c)' /\ works'.copyprivate = works.copyprivate)
          BY <3>4, <3>8
        <4> QED
          BY <3>4, <3>5, <3>6, <3>7, <4>1, <4>2 DEF StageMove
      <3> QED
        BY <1>1, <3>3, <3>9, StageStep
    <2>7. CASE GOMP_barrier(c)
      <3>1. /\ pc[c] = "sync" /\ got' = got /\ completed' = completed /\ works' = works /\ CallBarrier(c, pc[c], "past")
        BY <2>7 DEF GOMP_barrier, CallBarrier, Step, localVars
      <3>2. Alone(c) /\ Progress(c)' = Progress(c) /\ turn' = turn /\ Going(c)' = "past" /\ Held(c)' = TRUE
        BY <1>1, <3>1, CallTo DEF Returns
      <3>3. Counts(c) /\ c \in Shared /\ Counts(c)'
        BY <1>1, <1>2, <1>5, <3>1, <3>2 DEF Counts, Shared, ShareOp
      <3>4. ASSUME NEW f \in Shared, Taken(f)
            PROVE  (f = c => First(c)') /\ (f # c => Other(c)')
        <4>1. First(f)
          BY <3>4 DEF Taken
        <4> QED
          BY <1>1, <1>2, <3>1, <3>2, <4>1 DEF First, Other
      <3>5. Going(c) \notin {"unlock", "copied"}
        BY <1>2, <3>1
      <3>6. StageMove(c)
        <4>1. turn'[c] = turn[c] /\ (\A d \in Team : completed'[d] = completed[d]) /\ \A d \in Team \ {c} : got'[d] = got[d]
          BY <3>1, <3>2
        <4>2. \A f \in Shared : Taken(f) =>
                (f = c => First(c)') /\ (f # c => Other(c)' /\ works'.copyprivate = works.copyprivate)
          BY <3>1, <3>4
        <4> QED
          BY <3>1, <3>3, <3>5, <4>1, <4>2 DEF StageMove
      <3> QED
        BY <1>1, <3>2, <3>6, StageStep
    <2>8. LockShare(c) \/ gomp_work_share_start(c) \/ Share(c) \/ Unlock(c) \/ Work(c) \/ Copied(c) \/ GOMP_barrier(c)
      BY <2>1
      DEF ConstructStep, Past, GOMP_sections_next, Loop, Task, EnterCritical, LeaveCritical, Step, Sharing
    <2> QED
      BY <2>2, <2>3, <2>4, <2>5, <2>6, <2>7, <2>8
  <1> QED
    BY <1>4, <1>5

(* Within a barrier, and at the end of the region, the share is left alone. *)
LEMMA RestShare ==
  ASSUME OneTeam, StateInv, NEW i \in {0, 1}, Working(i), ShareState, NEW c \in Team, Resting(c)
  PROVE  ShareState'
  <1>1. /\ program' = program /\ serial' = serial /\ works' = works /\ got' = got /\ completed' = completed
        /\ Team \subseteq Cores
    BY TheTeam DEF Resting, Wfi, BarrierInit, BarrierInitWake, FetchAdd, Clear, TaskEnd, localVars
  <1>2. ASSUME NEW d \in Team, Counts(d)
        PROVE  turn'[d] = turn[d]
    <2>1. CASE TaskEnd(c)
      <3>1. Going(c) = "task_end"
        BY <2>1 DEF TaskEnd, Going, BarrierCode
      <3>2. d # c
        BY <1>2, <3>1 DEF Counts
      <3> QED
        BY <1>1, <2>1, <3>2 DEF TaskEnd, StateInv
    <2>2. CASE ~ TaskEnd(c)
      <3>1. turn' = turn
        BY <2>2 DEF Resting, Wfi, BarrierInit, BarrierInitWake, WakeUpAll, FetchAdd, Clear, Step
      <3> QED
        BY <3>1
    <2> QED
      BY <2>1, <2>2
  <1>3. \A d \in Team : QuietFor(d)
    BY <1>1, <1>2, RestingSame, SameQuiet
  <1> QED
    BY <1>1, <1>3, QuietStep DEF SameShare

(* A thread begins the region.                                             *)
LEMMA BeginShare ==
  ASSUME OneTeam, StateInv, NEW i \in {0, 1}, Working(i), ShareState, NEW c \in Team, run_task(c)
  PROVE  ShareState'
  <1>1. /\ program' = program /\ serial' = serial /\ works' = works /\ got' = got /\ completed' = completed
        /\ after' = after /\ wake_up_q' = wake_up_q /\ pc[c] = "run_task" /\ Goto(c, event.fn, 1)
    BY DEF run_task, localVars
  <1>2. event.fn = serial /\ Length \in Nat
    BY TheTeam DEF Working
  <1>3. Alone(c) /\ Comes(c, 1)
    BY <1>1, <1>2, GotoTo
  <1>4. Going(c) = "run_task" /\ ~ Ended(c)
    BY <1>1 DEF Going, Ended, BarrierCode
  <1>5. Progress(c) = 0 /\ ~ Counts(c)
    BY <1>4 DEF Progress, Counts
  <1>6. QuietFor(c)
    BY <1>1, <1>2, <1>3, <1>5, ComesQuiet
  <1> QED
    BY <1>1, <1>3, <1>6, AloneQuiet DEF SameShare

(* The barrier that ends a single opens: the share has been given back.    *)
LEMMA ReleaseShare ==
  ASSUME OneTeam, StateInv, WorksInv, NEW i \in {0, 1}, Working(i), ShareState, NEW c \in Team, Release(c)
  PROVE  ShareState'
  <1>1. /\ program' = program /\ serial' = serial /\ works' = works /\ got' = got /\ completed' = completed
        /\ turn' = turn
    BY DEF Release, WakeUpAll, localVars
  <1>2. Length' = Length /\ Team' = Team /\ \A k : Op(k)' = Op(k)
    BY <1>1, Frozen DEF Op
  <1>3. \A d \in Team : /\ Progress(d)' = Progress(d) /\ Progress(d) = Progress(c) /\ Progress(d) \in 1 .. Length
                        /\ Going(d)' = Going(d) /\ (Going(d) = "past" <=> Going(c) = "past")
                        /\ Held(d) /\ ~ Held(d)'
    BY ReleaseOpens
  <1>4. \A d \in Team : Loose(d)' <=> Loose(d)
    BY <1>2, <1>3 DEF Loose, SplitOp
  <1>5. CASE Going(c) # "past"
    <2>1. \A d \in Team : Counts(d)' <=> Counts(d)
      BY <1>2, <1>3, <1>5 DEF Counts, ShareOp
    <2>2. \A d \in Team : QuietFor(d)
      BY <1>1, <1>3, <1>4, <2>1 DEF QuietFor
    <2> QED
      BY <1>1, <2>2, QuietStep DEF SameShare
  <1>6. CASE Going(c) = "past"
    <2>1. \A d \in Team : ~ Counts(d)'
      BY <1>3, <1>6 DEF Counts
    <2>2. Shared' = {}
      BY <1>2, <2>1 DEF Shared
    <2>3. (\A d \in Team : ~ Loose(d)) => works.checkfirst = FALSE
      <3>1. ASSUME NEW f \in Shared, Taken(f)
            PROVE  works.checkfirst = FALSE
        <4>1. f \in Team /\ Counts(f)
          BY DEF Shared
        <4>2. Shared = Team
          BY <1>3, <1>6, <4>1 DEF Shared, Counts
        <4>3. Op(turn[f]) \in {"single", "copyprivate"}
          BY <4>1, ThreadAt DEF Counts, ShareOp, ThreadFacts
        <4>4. CASE Op(turn[f]) = "single"
          BY <3>1, <4>2, <4>4 DEF Taken
        <4>5. CASE Op(turn[f]) = "copyprivate"
          <5>1. \E l \in Team : works.checkfirst = TRUE => Going(l) \in {"unlock", "copied"}
            BY <3>1, <4>2, <4>5 DEF Taken
          <5> QED
            BY <1>3, <1>6, <5>1 DEF WorksInv
        <4> QED
          BY <4>3, <4>4, <4>5
      <3> QED
        BY <3>1 DEF ShareState
    <2> QED
      BY <1>1, <1>2, <1>4, <2>2, <2>3 DEF ShareState
  <1> QED
    BY <1>5, <1>6

(* The steps of a thread, and of a core outside of the team.               *)
LEMMA TeamShare ==
  ASSUME OneTeam, SharesReturned, StateInv, LockInv, NEW i \in {0, 1}, Working(i), WorksInv, CheckInv, ShareState,
         NEW c \in Team, CoreStep(c)
  PROVE  ShareState'
  <1>1. ~ NotInTeam(c)
    BY TeamEvent DEF NotInTeam
  <1>2. CASE Resting(c)
    BY <1>2, RestShare
  <1>3. CASE run_task(c)
    BY <1>3, BeginShare
  <1>4. CASE Release(c)
    BY <1>4, ReleaseShare
  <1>5. CASE ConstructStep(c)
    BY <1>5, ConstructShare
  <1> QED
    BY <1>1, <1>2, <1>3, <1>4, <1>5 DEF CoreStep, Resting, ConstructStep

(* A step elsewhere keeps the share.                                       *)
LEMMA ShareUntouched ==
  ASSUME OneTeam, StateInv, NEW i \in {0, 1}, Working(i), ShareState,
         program' = program, serial' = serial, works' = works, got' = got, completed' = completed,
         \A d \in Team : /\ pc'[d] = pc[d] /\ after'[d] = after[d] /\ turn'[d] = turn[d]
                         /\ wake_up_q'[d] = wake_up_q[d]
  PROVE  ShareState'
  <1>1. Length' = Length
    BY Frozen
  <1>2. ASSUME NEW d \in Team
        PROVE  QuietFor(d)
    <2>1. pc'[d] = pc[d] /\ after'[d] = after[d] /\ turn'[d] = turn[d] /\ wake_up_q'[d] = wake_up_q[d]
      OBVIOUS
    <2>2. Going(d)' = Going(d) /\ Held(d)' = Held(d) /\ Ended(d)' = Ended(d)
      BY <2>1 DEF Going, Held, Ended
    <2>3. Same(d)
      BY <1>1, <2>1, <2>2 DEF Same, Progress
    <2> QED
      BY <2>1, <2>3, SameQuiet
  <1> QED
    BY <1>2, QuietStep DEF SameShare

(* The wake-up of the team: nobody has begun.                              *)
LEMMA StartShare ==
  ASSUME OneTeam, StateInv, TeamInv, works.checkfirst = FALSE, GOMP_parallel_start
  PROVE  ShareState'
  <1>1. Team \subseteq Cores /\ 0 \in Team /\ 0 \in Cores
    BY TheTeam
  <1>2. /\ program' = program /\ serial' = serial /\ works' = works
        /\ WakeUpAll(0, "fork", "wfi") /\ pc[0] = "fork"
        /\ after'[0] = "run_task" /\ \A d \in Cores \ {0} : after'[d] = after[d]
    BY <1>1 DEF GOMP_parallel_start, WakeUpAll, StateInv
  <1>3. Team' = Team /\ Serial
    BY <1>2, Frozen DEF TeamInv, Working
  <1>4. ASSUME NEW d \in Team
        PROVE  ~ Counts(d)'
    <2>1. /\ d = 0 => pc'[d] = "wfi"
          /\ d # 0 => pc'[d] = IF Sleeps(d) THEN Resumed(d) ELSE pc[d]
          /\ ~ Sleeps(d) /\ wake_up_q[d] \in {0, 1} => wake_up_q'[d] = wake_up_q[d] + 1
      BY <1>1, <1>2, Pulse
    <2>2. after'[d] = "run_task"
      BY <1>1, <1>2, <1>3 DEF Serial, Asleep
    <2>3. d = 0 => pc'[d] = "wfi" /\ wake_up_q'[d] = 1
      BY <1>2, <1>3, <2>1 DEF Serial, Sleeps
    <2>4. d # 0 => pc'[d] = "run_task"
      BY <1>3, <2>1 DEF Serial, Asleep, Sleeps, Resumed
    <2>5. Going(d)' = "run_task"
      BY <2>2, <2>3, <2>4 DEF Going, BarrierCode
    <2> QED
      BY <2>5 DEF Counts
  <1> QED
    BY <1>2, <1>3, <1>4 DEF ShareState, Shared

-------------------------------------------------------------------------------
(* The lock of the share and what its holder has read.                     *)

(* Where threads come from who hold the lock.                              *)
LEMMA HoldersMove ==
  ASSUME OneTeam, StateInv, TeamInv, NEW c \in Cores, CoreStep(c)
  PROVE  /\ \A d \in Cores \ {c} :
              /\ Holds(d)' => Holds(d)
              /\ pc'[d] = "share" => pc[d] = "share" /\ fn'[d] = fn[d] /\ turn'[d] = turn[d]
         /\ Holds(c)' => LockShare(c) \/ GOMP_sections_next(c) \/ gomp_work_share_start(c) \/ Share(c)
         /\ pc'[c] = "share" => gomp_work_share_start(c) \/ GOMP_sections_next(c)
  <1>1. CASE BarrierInitWake(c) \/ Release(c)
    <2>1. /\ fn' = fn /\ turn' = turn /\ pc'[c] \in {"wfi_init", "wfi"}
          /\ WakeUpAll(c, "barrier_wake", "wfi_init") \/ WakeUpAll(c, "barrier_release", "wfi")
      BY <1>1 DEF BarrierInitWake, Release, WakeUpAll
    <2>2. ASSUME NEW d \in Cores \ {c}
          PROVE  pc'[d] = IF Sleeps(d) THEN Resumed(d) ELSE pc[d]
      BY <2>1, Pulse
    <2>3. \A d \in Cores : Resumed(d) \notin {"check", "share", "unlock"}
      BY DEF Resumed, StateInv, Returns
    <2> QED
      BY <2>1, <2>2, <2>3 DEF Holds
  <1>2. ASSUME NEW from, NEW to, Step(c, from, to)
        PROVE  /\ \A d \in Cores \ {c} : pc'[d] = pc[d] /\ fn'[d] = fn[d] /\ turn'[d] = turn[d]
               /\ pc'[c] = to
    BY <1>2 DEF Step, StateInv
  <1>3. ASSUME NEW r, NEW k, Goto(c, r, k), r = serial
        PROVE  /\ \A d \in Cores \ {c} : pc'[d] = pc[d] /\ fn'[d] = fn[d] /\ turn'[d] = turn[d]
               /\ ~ Holds(c)'
    <2>1. \A d \in Cores \ {c} : pc'[d] = pc[d] /\ fn'[d] = fn[d] /\ turn'[d] = turn[d]
      BY <1>3 DEF Goto, StateInv
    <2>2. pc'[c] = IF k \in DOMAIN program[serial].body
                     THEN Entry(program[serial].fn, program[serial].body[k]) ELSE "task_end"
      BY <1>3 DEF Goto, StateInv
    <2>3. pc'[c] \notin {"check", "share", "unlock"}
      BY <2>2 DEF Entry
    <2> QED
      BY <2>1, <2>3 DEF Holds
  <1>4. CASE \/ NotInTeam(c) \/ BarrierInit(c) \/ FetchAdd(c) \/ Clear(c) \/ Copied(c) \/ GOMP_barrier(c)
             \/ EnterCritical(c)
    <2>1. \E from : \E to \in {"wfi", "barrier_wake", "wfi_init", "barrier_clear", "barrier_release", "sync",
                               "barrier", "in_critical"} : Step(c, from, to)
      BY <1>4 DEF NotInTeam, BarrierInit, FetchAdd, Clear, Copied, GOMP_barrier, CallBarrier, EnterCritical
    <2> QED
      BY <1>2, <2>1 DEF Holds
  <1>5. CASE Wfi(c) \/ TaskEnd(c)
    <2>1. Resumed(c) \notin {"check", "share", "unlock"}
      BY DEF Resumed, StateInv, Returns
    <2> QED
      BY <1>5, <2>1 DEF Wfi, TaskEnd, StateInv, Holds
  <1>6. CASE LockShare(c) \/ GOMP_sections_next(c) \/ gomp_work_share_start(c) \/ Share(c)
    <2>1. /\ LockShare(c) => Step(c, "lock", "check")
          /\ GOMP_sections_next(c) => Step(c, "sections_next", "share")
          /\ gomp_work_share_start(c) => Step(c, "check", "share")
          /\ Share(c) => Step(c, "share", "unlock")
      BY DEF LockShare, GOMP_sections_next, gomp_work_share_start, Share
    <2>2. /\ \A d \in Cores \ {c} : pc'[d] = pc[d] /\ fn'[d] = fn[d] /\ turn'[d] = turn[d]
          /\ LockShare(c) => pc'[c] = "check"
          /\ Share(c) => pc'[c] = "unlock"
      BY <1>2, <1>6, <2>1
    <2>3. \A d \in Cores \ {c} : Holds(d)' => Holds(d)
      BY <2>2 DEF Holds
    <2> QED
      BY <1>6, <2>2, <2>3
  <1>7. ASSUME pc[c] \in Places
        PROVE  /\ fn[c] = serial
               /\ pc[c] = "work" => At(c).op \in {"loop", "sections", "single", "copyprivate"}
    <2>1. c \in Team
      BY <1>7 DEF TeamInv, Outsider, Places, Sharing, Returns
    <2>2. PICK i \in {0, 1} : Working(i)
      BY <1>7, <2>1 DEF TeamInv, Serial, Asleep, Places, Sharing, Returns
    <2> QED
      BY <1>7, <2>1, <2>2, PlacesRun DEF Fits
  <1>8. CASE run_task(c)
    <2>1. pc[c] = "run_task" /\ c \in event.thread_pool /\ Goto(c, event.fn, 1)
      BY <1>8 DEF run_task
    <2>2. c \in Team
      BY <2>1 DEF TeamInv
    <2>3. \E i \in {0, 1} : Working(i)
      BY <2>1, <2>2 DEF TeamInv, Serial, Asleep
    <2>4. event.fn = serial
      BY <2>3, TheTeam DEF Working
    <2> QED
      BY <1>3, <2>1, <2>4 DEF Holds
  <1>9. CASE Past(c) \/ Task(c) \/ LeaveCritical(c)
    <2>1. pc[c] \in Places /\ Advance(c)
      BY <1>9 DEF Past, Task, LeaveCritical, Places, Returns
    <2> QED
      BY <1>3, <1>7, <2>1 DEF Advance, Holds
  <1>10. CASE Unlock(c) \/ Loop(c) \/ Work(c)
    <2>1. pc[c] \in Places
      BY <1>10 DEF Unlock, Loop, Work, Places, Sharing
    <2>2. \/ \E from : \E to \in {"loop_start", "sync", "barrier", "work", "loop_next", "sections_next"} : Step(c, from, to)
          \/ Advance(c)
      <3>1. CASE Unlock(c)
        BY <3>1 DEF Unlock, CallBarrier
      <3>2. CASE Loop(c)
        BY <3>2 DEF Loop, NextChunk, LoopEnd, CallBarrier
      <3>3. CASE Work(c)
        <4>1. pc[c] = "work"
          BY <3>3 DEF Work
        <4> QED
          BY <1>7, <2>1, <3>3, <4>1 DEF Work, CallBarrier
      <3> QED
        BY <1>10, <3>1, <3>2, <3>3
    <2> QED
      BY <1>2, <1>3, <1>7, <2>1, <2>2 DEF Advance, Holds
  <1> QED
    BY <1>1, <1>4, <1>5, <1>6, <1>8, <1>9, <1>10 DEF CoreStep

(* What a step leaves of the fields of works.                              *)
LEMMA FieldsKept ==
  ASSUME OneTeam, StateInv, TeamInv, WorksInv, NEW c \in Cores, CoreStep(c)
  PROVE  /\ Fields \subseteq DOMAIN works'
         /\ ~ LockShare(c) /\ ~ GOMP_sections_next(c) /\ ~ Unlock(c) => works'.lock = works.lock
         /\ LockShare(c) \/ GOMP_sections_next(c) => works.lock = 0 /\ works'.lock = 1
         /\ ~ Share(c) => works'.completed = works.completed
         /\ ~ Share(c) /\ ~ Copied(c) => works'.checkfirst = works.checkfirst
  <1>1. Fields \subseteq DOMAIN works
    BY DEF WorksInv
  <1>2. ASSUME pc[c] \in Places
        PROVE  /\ c \in Team /\ fn[c] = serial
               /\ pc[c] \in {"work", "share"} => At(c).op \in {"loop", "sections", "single", "copyprivate"}
               /\ pc[c] \in {"critical", "in_critical"} => At(c).lock \in Locks
    <2>1. c \in Team
      BY <1>2 DEF TeamInv, Outsider, Places, Sharing, Returns
    <2>2. PICK i \in {0, 1} : Working(i)
      BY <1>2, <2>1 DEF TeamInv, Serial, Asleep, Places, Sharing, Returns
    <2>3. /\ turn[c] \in 1 .. Length /\ Fits(pc[c], turn[c]) /\ fn[c] = serial
          /\ At(c) = program[serial].body[turn[c]] /\ At(c).op = Op(turn[c])
      BY <1>2, <2>1, <2>2, PlacesRun
    <2> QED
      BY <2>1, <2>3, TheRegion DEF Fits, Sharing
  <1>3. CASE LockShare(c) \/ GOMP_sections_next(c)
    <2>1. works.lock = 0 /\ works' = [works EXCEPT !["lock"] = 1]
      BY <1>3 DEF LockShare, GOMP_sections_next, gomp_hal_lock
    <2>2. ~ Share(c)
      BY <1>3 DEF LockShare, GOMP_sections_next, Share, Step
    <2> QED
      BY <1>1, <1>3, <2>1, <2>2 DEF Fields
  <1>4. CASE Unlock(c)
    <2>1. works' = [works EXCEPT !["lock"] = 0] /\ pc[c] = "unlock"
      BY <1>4 DEF Unlock, gomp_hal_unlock
    <2> QED
      BY <1>1, <1>4, <2>1 DEF Fields, LockShare, GOMP_sections_next, Step
  <1>5. ASSUME ~ LockShare(c), ~ GOMP_sections_next(c), Fields \subseteq DOMAIN works', works'.lock = works.lock,
               works'.completed = works.completed, works'.checkfirst = works.checkfirst
        PROVE  /\ Fields \subseteq DOMAIN works'
               /\ ~ LockShare(c) /\ ~ GOMP_sections_next(c) /\ ~ Unlock(c) => works'.lock = works.lock
               /\ LockShare(c) \/ GOMP_sections_next(c) => works.lock = 0 /\ works'.lock = 1
               /\ ~ Share(c) => works'.completed = works.completed
               /\ ~ Share(c) /\ ~ Copied(c) => works'.checkfirst = works.checkfirst
    BY <1>5
  <1>6. CASE Loop(c)
    <2>1. \E n : works' = [works EXCEPT !.next = n]
      BY <1>6 DEF Loop, NextChunk, LoopEnd
    <2>2. ~ LockShare(c) /\ ~ GOMP_sections_next(c)
      BY <1>6 DEF Loop, LockShare, GOMP_sections_next, Step
    <2>3. /\ Fields \subseteq DOMAIN works' /\ works'.lock = works.lock
          /\ works'.completed = works.completed /\ works'.checkfirst = works.checkfirst
      BY <1>1, <2>1 DEF Fields
    <2> QED
      BY <1>5, <2>2, <2>3
  <1>7. CASE Work(c)
    <2>1. pc[c] = "work" /\ pc[c] \in Places
      BY <1>7 DEF Work, Places
    <2>2. works' = works \/ \E n : works' = [works EXCEPT !.copyprivate = n]
      BY <1>2, <1>7, <2>1 DEF Work
    <2>3. /\ Fields \subseteq DOMAIN works' /\ works'.lock = works.lock
          /\ works'.completed = works.completed /\ works'.checkfirst = works.checkfirst
      <3>1. CASE works' = works
        BY <1>1, <3>1
      <3>2. ASSUME NEW n, works' = [works EXCEPT !.copyprivate = n]
            PROVE  /\ Fields \subseteq DOMAIN works' /\ works'.lock = works.lock
                   /\ works'.completed = works.completed /\ works'.checkfirst = works.checkfirst
        BY <1>1, <3>2 DEF Fields
      <3> QED
        BY <2>2, <3>1, <3>2
    <2> QED
      BY <1>5, <2>1, <2>3 DEF LockShare, GOMP_sections_next, Step
  <1>8. CASE EnterCritical(c) \/ LeaveCritical(c)
    <2>1. pc[c] \in {"critical", "in_critical"} /\ pc[c] \in Places
      BY <1>8 DEF EnterCritical, LeaveCritical, Step, Places
    <2>2. At(c).lock \in Locks
      BY <1>2, <2>1
    <2>3. \E n : works' = [works EXCEPT ![At(c).lock] = n]
      BY <1>8 DEF EnterCritical, LeaveCritical, gomp_hal_lock, gomp_hal_unlock
    <2>4. /\ Fields \subseteq DOMAIN works' /\ works'.lock = works.lock
          /\ works'.completed = works.completed /\ works'.checkfirst = works.checkfirst
      BY <1>1, <2>2, <2>3 DEF Fields, Locks
    <2> QED
      BY <1>5, <2>1, <2>4 DEF LockShare, GOMP_sections_next, Step
  <1>9. CASE Copied(c)
    <2>1. pc[c] = "copied" /\ \E n : works' = [works EXCEPT !.checkfirst = n]
      BY <1>9 DEF Copied, Step
    <2> QED
      BY <1>1, <1>9, <2>1 DEF Fields, LockShare, GOMP_sections_next, Step
  <1>10. CASE Share(c)
    <2>1. pc[c] = "share" /\ pc[c] \in Places
      BY <1>10 DEF Share, Step, Places, Sharing
    <2> DEFINE w == IF first[c] THEN Marked(works) ELSE works
               s == IF first[c] /\ At(c).op = "sections" THEN gomp_sections_init(w, At(c)) ELSE w
    <2>2. Fields \subseteq DOMAIN w /\ w.lock = works.lock
      BY <1>1 DEF Marked, Fields
    <2>3. Fields \subseteq DOMAIN s /\ s.lock = works.lock
      BY <2>2 DEF gomp_sections_init, Fields
    <2>4. \/ works' = gomp_loop_init(w, At(c)) \/ works' = w
          \/ \E n : works' = [s EXCEPT !.next = n]
          \/ works' = Counted(w)
          \/ \E n : works' = [w EXCEPT !.completed = n]
      <3>1. CASE At(c).op = "loop"
        BY <1>10, <3>1 DEF Share
      <3>2. CASE At(c).op = "sections"
        BY <1>10, <3>2 DEF Share
      <3>3. CASE At(c).op = "single"
        BY <1>10, <3>3 DEF Share
      <3>4. CASE At(c).op = "copyprivate"
        BY <1>10, <3>4 DEF Share
      <3> QED
        BY <1>2, <2>1, <3>1, <3>2, <3>3, <3>4
    <2> HIDE DEF w, s
    <2>5. Fields \subseteq DOMAIN works' /\ works'.lock = works.lock
      BY <2>2, <2>3, <2>4 DEF gomp_loop_init, Counted, Fields
    <2> QED
      BY <1>10, <2>1, <2>5 DEF LockShare, GOMP_sections_next, Step
  <1>11. CASE \/ Wfi(c) \/ run_task(c) \/ NotInTeam(c) \/ TaskEnd(c) \/ BarrierInit(c) \/ BarrierInitWake(c)
              \/ FetchAdd(c) \/ Clear(c) \/ Release(c) \/ Past(c) \/ gomp_work_share_start(c)
              \/ GOMP_barrier(c) \/ Task(c)
    <2>1. works' = works
      BY <1>11 DEF Wfi, run_task, NotInTeam, TaskEnd, BarrierInit, BarrierInitWake, FetchAdd, Clear, Release,
                   Past, gomp_work_share_start, GOMP_barrier, Task
    <2>2. pc[c] \notin {"lock", "sections_next"}
      BY <1>11 DEF Wfi, run_task, NotInTeam, TaskEnd, BarrierInit, BarrierInitWake, FetchAdd, Clear, Release,
                   Past, gomp_work_share_start, GOMP_barrier, Task, WakeUpAll, CallBarrier, Step
    <2> QED
      BY <1>1, <1>5, <2>1, <2>2 DEF LockShare, GOMP_sections_next, Step
  <1> QED
    BY <1>3, <1>4, <1>6, <1>7, <1>8, <1>9, <1>10, <1>11 DEF CoreStep

(* One thread at a time holds the lock.                                    *)
LEMMA HolderStep ==
  ASSUME OneTeam, StateInv, TeamInv, WorksInv, HolderInv, NEW c \in Cores, CoreStep(c)
  PROVE  HolderInv'
  <1>1. /\ \A d \in Cores \ {c} : Holds(d)' => Holds(d)
        /\ Holds(c)' => LockShare(c) \/ GOMP_sections_next(c) \/ gomp_work_share_start(c) \/ Share(c)
    BY HoldersMove
  <1>2. /\ ~ LockShare(c) /\ ~ GOMP_sections_next(c) /\ ~ Unlock(c) => works'.lock = works.lock
        /\ LockShare(c) \/ GOMP_sections_next(c) => works.lock = 0 /\ works'.lock = 1
    BY FieldsKept
  <1>3. CASE LockShare(c) \/ GOMP_sections_next(c)
    <2>1. \A d \in Cores : ~ Holds(d)
      BY <1>2, <1>3 DEF HolderInv
    <2> QED
      BY <1>1, <1>2, <1>3, <2>1 DEF HolderInv
  <1>4. CASE Unlock(c)
    <2>1. pc[c] = "unlock" /\ Holds(c)
      BY <1>4 DEF Unlock, Holds
    <2>2. \A d \in Cores : ~ Holds(d)'
      <3>1. ~ Holds(c)'
        BY <1>1, <2>1 DEF LockShare, GOMP_sections_next, gomp_work_share_start, Share, Step
      <3> QED
        BY <1>1, <2>1, <3>1 DEF HolderInv
    <2> QED
      BY <2>2 DEF HolderInv
  <1>5. CASE ~ (LockShare(c) \/ GOMP_sections_next(c) \/ Unlock(c))
    <2>1. gomp_work_share_start(c) \/ Share(c) => Holds(c)
      BY DEF gomp_work_share_start, Share, Step, Holds
    <2>2. \A d \in Cores : Holds(d)' => Holds(d)
      BY <1>1, <1>5, <2>1
    <2> QED
      BY <1>2, <1>5, <2>2 DEF HolderInv
  <1> QED
    BY <1>3, <1>4, <1>5

(* checkfirst is written under the lock, or when nobody is at the share.   *)
LEMMA CheckStep ==
  ASSUME OneTeam, SharesReturned, StateInv, TeamInv, WorksInv, HolderInv, CheckInv, NEW c \in Cores, CoreStep(c)
  PROVE  CheckInv'
  <1>1. /\ \A d \in Cores \ {c} : pc'[d] = "share" => pc[d] = "share" /\ fn'[d] = fn[d] /\ turn'[d] = turn[d]
        /\ pc'[c] = "share" => gomp_work_share_start(c) \/ GOMP_sections_next(c)
    BY HoldersMove
  <1>2. ~ Share(c) /\ ~ Copied(c) => works'.checkfirst = works.checkfirst
    BY FieldsKept
  <1>3. program' = program
    BY DEF CoreStep, Wfi, run_task, NotInTeam, TaskEnd, BarrierInit, BarrierInitWake,
           FetchAdd, Clear, Release, Past, LockShare, gomp_work_share_start, Share, Unlock,
           GOMP_sections_next, Loop, NextChunk, LoopEnd, Work, Copied, GOMP_barrier, Task, EnterCritical,
           LeaveCritical
  <1>4. ASSUME NEW d \in Cores \ {c}
        PROVE  first'[d] = first[d]
    <2>1. first' = first \/ \E v : first' = [first EXCEPT ![c] = v]
      BY DEF CoreStep, Wfi, run_task, NotInTeam, TaskEnd, BarrierInit, BarrierInitWake,
           FetchAdd, Clear, Release, Past, LockShare, gomp_work_share_start, Share, Unlock,
           GOMP_sections_next, Loop, NextChunk, LoopEnd, Work, Copied, GOMP_barrier, Task, EnterCritical,
           LeaveCritical, localVars
    <2> QED
      BY <2>1 DEF WorksInv
  <1> SUFFICES ASSUME NEW d \in Cores, pc'[d] = "share", At(d)'.op \in {"single", "copyprivate"}
               PROVE  first'[d] = ~ works'.checkfirst
    BY DEF CheckInv
  <1>5. CASE d = c
    <2>1. ~ GOMP_sections_next(c)
      <3>1. SUFFICES ASSUME GOMP_sections_next(c)
                     PROVE  FALSE
        OBVIOUS
      <3>2. pc[c] = "sections_next" /\ pc[c] \in Places /\ At(c)' = At(c)
        BY <1>3, <3>1 DEF GOMP_sections_next, Step, Places, At
      <3>3. c \in Team
        BY <3>2 DEF TeamInv, Outsider
      <3>4. PICK i \in {0, 1} : Working(i)
        BY <3>2, <3>3 DEF TeamInv, Serial, Asleep
      <3>5. At(c).op = "sections"
        BY <3>2, <3>3, <3>4, PlacesRun DEF Fits
      <3> QED
        BY <1>5, <3>2, <3>5
    <2>2. first' = [first EXCEPT ![c] = ~ works.checkfirst] /\ works' = works
      BY <1>1, <1>5, <2>1 DEF gomp_work_share_start
    <2> QED
      BY <1>5, <2>2 DEF WorksInv
  <1>6. CASE d # c
    <2>1. pc[d] = "share" /\ At(d)' = At(d) /\ first'[d] = first[d]
      BY <1>1, <1>3, <1>4, <1>6 DEF At
    <2>2. first[d] = ~ works.checkfirst
      BY <2>1 DEF CheckInv
    <2>3. ~ Share(c)
      BY <1>6, <2>1 DEF HolderInv, Holds, Share, Step
    <2>4. ~ Copied(c)
      <3>1. SUFFICES ASSUME pc[c] = "copied"
                     PROVE  FALSE
        BY DEF Copied, Step
      <3>2. c \in Team /\ d \in Team
        BY <2>1, <3>1 DEF TeamInv, Outsider
      <3>3. PICK i \in {0, 1} : Working(i)
        BY <3>1, <3>2 DEF TeamInv, Serial, Asleep
      <3>4. Counts(d)
        BY <3>1, <3>2, <3>3, CopiedTogether
      <3>5. Going(d) = "share"
        BY <2>1 DEF Going, BarrierCode
      <3> QED
        BY <3>4, <3>5 DEF Counts
    <2> QED
      BY <1>2, <2>1, <2>2, <2>3, <2>4
  <1> QED
    BY <1>5, <1>6

(* Types of the share: works.completed counts no more than the team.       *)
LEMMA WorksStep ==
  ASSUME OneTeam, SharesReturned, StateInv, StateInv', TeamInv, TeamInv', WorksInv, CheckInv,
         NEW c \in Cores, CoreStep(c), pc[0] \notin {"serial", "fork"} => ShareState'
  PROVE  WorksInv'
  <1>1. /\ Fields \subseteq DOMAIN works' /\ (~ Share(c) => works'.completed = works.completed)
        /\ ~ Share(c) /\ ~ Copied(c) => works'.checkfirst = works.checkfirst
    BY FieldsKept
  <1>2. DOMAIN first' = Cores /\ DOMAIN got' = Cores /\ DOMAIN completed' = Cores
    <2>1. CASE Share(c)
      <3>1. pc[c] = "share" /\ pc[c] \in Places
        BY <2>1 DEF Share, Step, Places, Sharing
      <3>2. c \in Team
        BY <3>1 DEF TeamInv, Outsider
      <3>3. PICK i \in {0, 1} : Working(i)
        BY <3>1, <3>2 DEF TeamInv, Serial, Asleep
      <3>4. At(c).op \in {"loop", "sections", "single", "copyprivate"}
        BY <3>1, <3>2, <3>3, PlacesRun DEF Fits, Sharing
      <3> QED
        BY <2>1, <3>4 DEF Share, WorksInv
    <2>2. CASE ~ Share(c)
      <3>1. /\ first' = first \/ \E v : first' = [first EXCEPT ![c] = v]
            /\ got' = got \/ \E v : got' = [got EXCEPT ![c] = v]
            /\ completed' = completed
        BY <2>2 DEF CoreStep, Wfi, run_task, NotInTeam, TaskEnd, BarrierInit, BarrierInitWake,
             FetchAdd, Clear, Release, Past, LockShare, gomp_work_share_start, Unlock,
             GOMP_sections_next, Loop, NextChunk, LoopEnd, Work, Copied, GOMP_barrier, Task, EnterCritical,
             LeaveCritical, localVars
      <3> QED
        BY <3>1 DEF WorksInv
    <2> QED
      BY <2>1, <2>2
  <1>3. CASE ~ Share(c)
    <2>1. works'.checkfirst \in BOOLEAN
      <3>1. CASE Copied(c)
        BY <3>1 DEF Copied, WorksInv, Fields
      <3>2. CASE ~ Copied(c)
        BY <1>1, <1>3, <3>2 DEF WorksInv
      <3> QED
        BY <3>1, <3>2
    <2> QED
      BY <1>1, <1>2, <1>3, <2>1 DEF WorksInv
  <1>4. CASE Share(c)
    <2>1. pc[c] = "share" /\ pc[c] \in Places /\ Step(c, "share", "unlock")
      BY <1>4 DEF Share, Step, Places, Sharing
    <2>2. c \in Team
      BY <2>1 DEF TeamInv, Outsider
    <2>3. PICK i \in {0, 1} : Working(i)
      BY <2>1, <2>2 DEF TeamInv, Serial, Asleep
    <2>4. /\ At(c).op \in {"loop", "sections", "single", "copyprivate"} /\ At(c).op = Op(turn[c])
          /\ turn[c] \in 1 .. Length /\ Progress(c) = turn[c]
      BY <2>1, <2>2, <2>3, PlaceFacts DEF Fits, Sharing
    <2> DEFINE w == IF first[c] THEN Marked(works) ELSE works
    <2>5. /\ Fields \subseteq DOMAIN w /\ w.checkfirst \in BOOLEAN /\ w.completed \in 0 .. NumCores
          /\ w.completed \in Nat
      <3>1. CASE first[c]
        BY <3>1, ConfigAssumption DEF Marked, WorksInv, Fields
      <3>2. CASE ~ first[c]
        BY <3>2, ConfigAssumption DEF WorksInv
      <3> QED
        BY <3>1, <3>2
    <2>6. /\ At(c).op = "loop" => works' = gomp_loop_init(w, At(c)) \/ works' = w
          /\ At(c).op = "sections" => \/ \E n : works' = [w EXCEPT !.next = n]
                                      \/ \E n : works' = [gomp_sections_init(w, At(c)) EXCEPT !.next = n]
          /\ At(c).op = "single" => works' = Counted(w)
          /\ At(c).op = "copyprivate" => works' = [w EXCEPT !.completed = @ + 1]
      <3>1. CASE At(c).op = "loop"
        BY <1>4, <3>1 DEF Share
      <3>2. CASE At(c).op = "sections"
        BY <1>4, <3>2 DEF Share
      <3>3. CASE At(c).op = "single"
        BY <1>4, <3>3 DEF Share
      <3>4. CASE At(c).op = "copyprivate"
        BY <1>4, <3>4 DEF Share
      <3> QED
        BY <2>4, <3>1, <3>2, <3>3, <3>4
    <2> HIDE DEF w
    <2>7. works'.checkfirst \in BOOLEAN
      BY <2>4, <2>5, <2>6 DEF gomp_loop_init, gomp_sections_init, Counted, Fields
    <2>8. CASE At(c).op \in {"loop", "sections"}
      <3>1. works'.completed = w.completed
        BY <2>5, <2>6, <2>8 DEF gomp_loop_init, gomp_sections_init, Fields
      <3> QED
        BY <1>1, <1>2, <2>5, <2>7, <3>1 DEF WorksInv
    <2>9. CASE At(c).op \in {"single", "copyprivate"}
      <3>1. ShareState' /\ program' = program /\ serial' = serial /\ after' = after /\ wake_up_q' = wake_up_q
        BY <1>4, <2>3 DEF Share, Working
      <3>2. Progress(c)' = Progress(c) /\ Going(c)' = "unlock" /\ turn' = turn
        BY <2>1, <2>2, <2>3, <3>1, StepTo DEF Places, Sharing
      <3>3. /\ Team' = Team /\ Length' = Length /\ (\A k : Op(k)' = Op(k)) /\ IsFiniteSet(Team)
            /\ Cardinality(Team) = Size /\ Size \in 1 .. NumCores
        BY <3>1, TheTeam, Frozen DEF Op
      <3>4. Counts(c)'
        BY <2>4, <2>9, <3>2, <3>3 DEF Counts, ShareOp
      <3>5. c \in Shared' /\ Shared' \subseteq Team
        BY <2>2, <3>3, <3>4 DEF Shared
      <3>6. works'.completed = Cardinality(Shared')
        BY <3>1, <3>5 DEF ShareState, Taken
      <3>7. Cardinality(Shared') \in Nat /\ Cardinality(Shared') <= Size
        BY <3>3, <3>5, FS_Subset, FS_CardinalityType
      <3> QED
        BY <1>1, <1>2, <2>7, <3>3, <3>6, <3>7, ConfigAssumption DEF WorksInv
    <2> QED
      BY <2>4, <2>8, <2>9
  <1> QED
    BY <1>3, <1>4

(* The share is free when the program starts.                              *)
LEMMA ShareInit ==
  ASSUME OneTeam, Init
  PROVE  ShareInv
  <1>1. NumCores \in Nat \ {0} /\ 0 \in Cores
    BY ConfigAssumption DEF Cores
  <1>2. WorksInv
    BY <1>1 DEF Init, WorksInv, Fields
  <1>3. \A c \in Cores : pc[c] \in {"serial", "wfi"}
    BY DEF Init
  <1> QED
    BY <1>1, <1>2, <1>3 DEF Init, ShareInv, HolderInv, Holds, CheckInv

(* Every step keeps the share.                                             *)
LEMMA ShareStep ==
  ASSUME OneTeam, SharesReturned, OmpInv, OmpInv', ShareInv, [Next]_vars
  PROVE  ShareInv'
  <1>1. StateInv /\ StateInv' /\ TeamInv /\ TeamInv' /\ LockInv /\ WorksInv /\ HolderInv /\ CheckInv
    BY DEF OmpInv, ShareInv
  <1>2. 0 \in Team /\ Team \subseteq Cores /\ 0 \in Cores
    BY <1>1, TheTeam
  <1>3. ASSUME Serial
        PROVE  \A d \in Cores : ~ Holds(d)
    BY <1>1, <1>3 DEF TeamInv, Serial, Asleep, Outsider, Holds
  <1>4. CASE Fork
    <2>1. /\ pc[0] = "serial" /\ Step(0, "serial", "fork") /\ first' = first /\ got' = got /\ completed' = completed
      BY <1>4 DEF Fork, Step, localVars
    <2>2. Serial
      BY <1>1, <2>1 DEF TeamInv, Working
    <2>3. pc'[0] = "fork" /\ \A d \in Cores \ {0} : pc'[d] = pc[d]
      BY <1>1, <1>2, <2>1 DEF Step, StateInv
    <2>4. \A d \in Cores : ~ Holds(d)'
      BY <1>3, <2>2, <2>3 DEF Holds
    <2>5. Fields \subseteq DOMAIN works' /\ works'.checkfirst = FALSE /\ works'.completed = 0
      <3>1. program[serial].fn \in Calls
        BY <1>1, TheRegion
      <3> DEFINE w == gomp_new_work_share(works)
      <3>2. Fields \subseteq DOMAIN w /\ w.checkfirst = FALSE /\ w.completed = 0
        BY <1>1 DEF gomp_new_work_share, WorksInv, Fields
      <3>3. \/ works' = w \/ works' = gomp_loop_init(w, program[serial].body[1])
            \/ works' = gomp_sections_init(w, program[serial].body[1])
        BY <1>4, <3>1 DEF Fork, Calls
      <3> HIDE DEF w
      <3> QED
        BY <3>2, <3>3 DEF gomp_loop_init, gomp_sections_init, Fields
    <2>6. WorksInv'
      <3>1. 0 \in 0 .. NumCores
        BY ConfigAssumption
      <3> QED
        BY <1>1, <2>1, <2>5, <3>1 DEF WorksInv
    <2>7. HolderInv' /\ CheckInv'
      BY <2>4 DEF HolderInv, CheckInv, Holds
    <2> QED
      BY <2>3, <2>5, <2>6, <2>7 DEF ShareInv
  <1>5. CASE GOMP_parallel_start
    <2>1. /\ pc[0] = "fork" /\ WakeUpAll(0, "fork", "wfi") /\ works' = works
          /\ first' = first /\ got' = got /\ completed' = completed
      BY <1>5 DEF GOMP_parallel_start, WakeUpAll, localVars
    <2>2. Serial
      BY <1>1, <2>1 DEF TeamInv, Working
    <2>3. ASSUME NEW d \in Cores
          PROVE  ~ Holds(d)' /\ (d = 0 => pc'[d] = "wfi")
      <3>1. /\ d = 0 => pc'[d] = "wfi"
            /\ d # 0 => pc'[d] = IF Sleeps(d) THEN Resumed(d) ELSE pc[d]
        BY <1>1, <1>2, <2>1, Pulse
      <3>2. Resumed(d) \notin {"check", "share", "unlock"}
        BY <1>1 DEF Resumed, StateInv, Returns
      <3> QED
        BY <1>3, <2>2, <3>1, <3>2 DEF Holds
    <2>4. WorksInv' /\ HolderInv' /\ CheckInv'
      BY <1>1, <2>1, <2>3 DEF WorksInv, HolderInv, CheckInv, Holds
    <2>5. ShareState'
      BY <1>1, <1>5, <2>1, StartShare DEF ShareInv
    <2> QED
      BY <1>2, <2>3, <2>4, <2>5 DEF ShareInv
  <1>6. CASE GOMP_parallel_end
    <2>1. /\ Step(0, "join", "serial") /\ works' = works /\ program' = program
          /\ first' = first /\ got' = got /\ completed' = completed
      BY <1>6 DEF GOMP_parallel_end, localVars
    <2>2. /\ pc'[0] = "serial" /\ fn' = fn /\ turn' = turn
          /\ \A d \in Cores \ {0} : pc'[d] = pc[d]
      BY <1>1, <1>2, <2>1 DEF Step, StateInv
    <2>3. \A d \in Cores : (Holds(d)' => Holds(d)) /\ (pc'[d] = "share" => pc[d] = "share") /\ At(d)' = At(d)
      BY <2>1, <2>2 DEF Holds, At
    <2>4. WorksInv' /\ HolderInv' /\ CheckInv'
      BY <1>1, <2>1, <2>3 DEF WorksInv, HolderInv, CheckInv
    <2> QED
      BY <2>2, <2>4 DEF ShareInv
  <1>7. ASSUME NEW c \in Cores, CoreStep(c)
        PROVE  ShareInv'
    <2>1. CASE c \in Team
      <3>1. PICK i \in {0, 1} : Working(i)
        BY <1>1, <1>7, <2>1, NobodyElse DEF TeamInv
      <3>2. pc[0] \notin {"serial", "fork"} /\ ShareState
        BY <3>1 DEF Working, ShareInv
      <3>3. ShareState'
        BY <1>1, <1>7, <2>1, <3>1, <3>2, TeamShare
      <3>4. pc'[0] \notin {"serial", "fork"}
        BY <1>1, <1>7, <2>1, <3>1, ThreadSteps DEF Working
      <3>5. WorksInv' /\ HolderInv' /\ CheckInv'
        BY <1>1, <1>7, <3>3, WorksStep, HolderStep, CheckStep
      <3> QED
        BY <3>3, <3>4, <3>5 DEF ShareInv
    <2>2. CASE c \notin Team
      <3>1. /\ UNCHANGED <<program, serial, event, barrier, works, after, first, got, completed, fn, turn, ran>>
            /\ Alone(c) /\ pc'[c] \in {"wfi", "run_task"}
        BY <1>1, <1>7, <2>2, OutsiderMoves
      <3>2. \A d \in Cores : d # c => pc'[d] = pc[d] /\ wake_up_q'[d] = wake_up_q[d]
        BY <3>1 DEF Alone
      <3>3. WorksInv' /\ HolderInv' /\ CheckInv'
        <4>1. \A d \in Cores : (Holds(d)' => Holds(d)) /\ (pc'[d] = "share" => pc[d] = "share") /\ At(d)' = At(d)
          BY <3>1, <3>2 DEF Holds, At
        <4> QED
          BY <1>1, <3>1, <4>1 DEF WorksInv, HolderInv, CheckInv
      <3>4. pc'[0] = pc[0]
        BY <1>2, <2>2, <3>2
      <3>5. ASSUME NEW i \in {0, 1}, Working(i), ShareState
            PROVE  ShareState'
        BY <1>1, <1>2, <2>2, <3>1, <3>2, <3>5, ShareUntouched
      <3>6. pc[0] \notin {"serial", "fork"} => ShareState'
        BY <1>1, <3>5 DEF ShareInv, TeamInv, Serial
      <3> QED
        BY <3>1, <3>3, <3>4, <3>6 DEF ShareInv
    <2> QED
      BY <2>1, <2>2
  <1>8. CASE UNCHANGED vars
    <2>1. UNCHANGED <<program, serial, works, pc, after, fn, turn, first, got, completed, wake_up_q>>
      BY <1>8 DEF vars, coreVars, localVars
    <2>2. WorksInv' /\ HolderInv' /\ CheckInv'
      BY <1>1, <2>1 DEF WorksInv, HolderInv, CheckInv, Holds, At
    <2>3. ASSUME NEW i \in {0, 1}, Working(i), ShareState
          PROVE  ShareState'
      BY <1>1, <2>1, <2>3, ShareUntouched
    <2>4. pc[0] \notin {"serial", "fork"} => ShareState'
      BY <1>1, <2>3 DEF ShareInv, TeamInv, Serial
    <2> QED
      BY <2>1, <2>2, <2>4 DEF ShareInv
  <1> QED
    BY <1>4, <1>5, <1>6, <1>7, <1>8 DEF Next, MasterStep

-------------------------------------------------------------------------------
(* The event of a team that works.                                         *)
LEMMA EventTyped ==
  OneTeam /\ StateInv =>
    \A i \in {0, 1} : Working(i) => event.fn \in DOMAIN program /\ event.barrier \in 0 .. NumCores
  <1> SUFFICES ASSUME OneTeam, StateInv, NEW i \in {0, 1}, Working(i)
               PROVE  event.fn \in DOMAIN program /\ event.barrier \in 0 .. NumCores
    OBVIOUS
  <1> DEFINE U == {c \in Team : ~ Ended(c)}
  <1>1. event.fn = serial /\ event.barrier = Cardinality(U)
    BY TheTeam DEF Working
  <1>2. IsFiniteSet(Team) /\ Cardinality(Team) = Size /\ Size \in 1 .. NumCores
    BY TheTeam
  <1>3. Cardinality(U) <= Size /\ Cardinality(U) \in Nat
    BY <1>2, FS_Subset, FS_CardinalityType
  <1> QED
    BY <1>1, <1>2, <1>3, ConfigAssumption DEF StateInv

(* EventTyped, for the next state.                                         *)
LEMMA EventTypedNext ==
  OneTeam /\ StateInv' =>
    \A i \in {0, 1} : Working(i)' => event'.fn \in DOMAIN program' /\ event'.barrier \in 0 .. NumCores
  <1>1. (OneTeam /\ StateInv =>
           \A i \in {0, 1} : Working(i) => event.fn \in DOMAIN program /\ event.barrier \in 0 .. NumCores)'
    BY EventTyped, PTL
  <1> QED
    BY <1>1

(* Each thread adds once to the counter of a barrier.                      *)
LEMMA CounterBound ==
  ASSUME OneTeam, StateInv, NEW i \in {0, 1}, Working(i), NEW c \in Team, pc[c] = "barrier_add"
  PROVE  barrier + 1 \in 0 .. NumCores
  <1> DEFINE W == {d \in Team : Waits(d, i)}
  <1>1. IsFiniteSet(Team) /\ Cardinality(Team) = Size /\ Size \in 1 .. NumCores
    BY TheTeam
  <1>2. Adds(c, i)
    BY DEF Working, Thread, Runs, Enters, Starts, Waits, Closes, Released, Begins, Ended, Places, Sharing, Returns
  <1>3. i = 1 /\ ~ Waits(c, i) /\ ~ Closes(c, i)
    BY <1>2 DEF Adds, Waits, Closes
  <1>4. barrier = Cardinality(W)
    BY <1>3 DEF Working
  <1>5. W \subseteq Team /\ W # Team
    BY <1>3
  <1> HIDE DEF W
  <1>6. Cardinality(W) < Size /\ Cardinality(W) \in Nat
    BY <1>1, <1>5, FS_Subset, FS_CardinalityType
  <1> QED
    BY <1>1, <1>4, <1>6, ConfigAssumption

(* The types of the variables are kept.                                    *)
LEMMA TypeStep ==
  ASSUME OneTeam, OmpInv, OmpInv', WorksInv', TypeOK, [Next]_vars
  PROVE  TypeOK'
  <1>1. StateInv /\ StateInv' /\ TeamInv /\ TeamInv'
    BY DEF OmpInv
  <1>2. 0 \in Team /\ Team \subseteq Cores /\ Compiled(program)
    BY <1>1, TheTeam
  <1>3. program' \in Programs /\ wake_up_q' \in [Cores -> 0 .. OutstandingWfi - 1] /\ works'.completed \in 0 .. NumCores
    BY <1>1 DEF StateInv, WorksInv
  <1>4. program' = program
    BY DEF Next, MasterStep, Fork, GOMP_parallel_start, GOMP_parallel_end,
           CoreStep, Wfi, run_task, NotInTeam, TaskEnd, BarrierInit, BarrierInitWake,
           FetchAdd, Clear, Release, Past, LockShare, gomp_work_share_start, Share, Unlock,
           GOMP_sections_next, Loop, NextChunk, LoopEnd, Work, Copied, GOMP_barrier, Task, EnterCritical,
           LeaveCritical, vars
  <1>5. ASSUME event'.fn \in DOMAIN program, event'.barrier \in 0 .. NumCores,
               barrier' \in Garbage \cup 0 .. NumCores,
               \A c \in Cores : turn'[c] \in 0 .. 1 + Len(program[fn'[c]].body)
        PROVE  TypeOK'
    BY <1>3, <1>4, <1>5 DEF TypeOK
  <1>6. CASE Fork
    <2>1. event'.fn = serial /\ event'.barrier = Size /\ Size \in 1 .. NumCores
      BY <1>1, <1>6, TheTeam DEF Fork
    <2> QED
      <3>1. event'.fn \in DOMAIN program /\ event'.barrier \in 0 .. NumCores
        BY <1>1, <2>1, ConfigAssumption DEF StateInv
      <3>2. barrier' = barrier /\ turn' = turn /\ fn' = fn
        BY <1>6 DEF Fork, Step
      <3> QED
        BY <1>5, <3>1, <3>2 DEF TypeOK
  <1>7. CASE GOMP_parallel_start \/ GOMP_parallel_end \/ UNCHANGED vars
    <2>1. event' = event /\ barrier' = barrier /\ turn' = turn /\ fn' = fn
      BY <1>7 DEF GOMP_parallel_start, GOMP_parallel_end, WakeUpAll, Step, vars, coreVars
    <2> QED
      BY <1>5, <2>1 DEF TypeOK
  <1>8. ASSUME NEW c \in Cores \ Team, CoreStep(c)
        PROVE  TypeOK'
    <2>1. event' = event /\ barrier' = barrier /\ turn' = turn /\ fn' = fn
      BY <1>1, <1>8, OutsiderMoves
    <2> QED
      BY <1>5, <2>1 DEF TypeOK
  <1>9. ASSUME NEW c \in Team, CoreStep(c)
        PROVE  TypeOK'
    <2>1. PICK i \in {0, 1} : Working(i)
      BY <1>1, <1>9, NobodyElse DEF TeamInv
    <2>2. event'.fn \in DOMAIN program /\ event'.barrier \in 0 .. NumCores
      BY <1>1, <1>4, <1>9, <2>1, ThreadSteps, EventTypedNext
    <2>3. barrier' \in Garbage \cup 0 .. NumCores
      <3>1. CASE FetchAdd(c)
        <4>1. pc[c] = "barrier_add" /\ barrier' = barrier + 1
          BY <3>1 DEF FetchAdd, Step
        <4> QED
          BY <1>1, <1>9, <2>1, <4>1, CounterBound
      <3>2. CASE ~ FetchAdd(c)
        <4>1. barrier' = barrier \/ barrier' = 0
          BY <1>9, <3>2
          DEF CoreStep, Wfi, run_task, NotInTeam, TaskEnd, BarrierInit, BarrierInitWake, Clear, Release, Past,
              LockShare, gomp_work_share_start, Share, Unlock, GOMP_sections_next, Loop, NextChunk, LoopEnd, Work,
              Copied, GOMP_barrier, Task, EnterCritical, LeaveCritical
        <4> QED
          BY <4>1, ConfigAssumption DEF TypeOK
      <3> QED
        BY <3>1, <3>2
    <2>4. \A d \in Cores : turn'[d] \in 0 .. 1 + Len(program[fn'[d]].body)
      <3>1. ASSUME turn' = turn, fn' = fn
            PROVE  \A d \in Cores : turn'[d] \in 0 .. 1 + Len(program[fn'[d]].body)
        BY <3>1 DEF TypeOK
      <3>2. ASSUME NEW k \in 1 .. Length + 1, Goto(c, serial, k)
            PROVE  \A d \in Cores : turn'[d] \in 0 .. 1 + Len(program[fn'[d]].body)
        <4>1. Length \in Nat
          BY <1>1, TheTeam
        <4> QED
          BY <1>1, <3>2, <4>1 DEF Goto, StateInv, TypeOK, Length
      <3>3. CASE TaskEnd(c)
        <4>1. pc[c] = "task_end" /\ fn' = fn /\ turn' = [turn EXCEPT ![c] = 0]
          BY <3>3 DEF TaskEnd
        <4>2. Runs(c, i)
          BY <1>9, <2>1, <4>1
          DEF Working, Thread, Enters, Starts, Adds, Waits, Closes, Released, Ended, Begins
        <4>3. Len(program[fn[c]].body) \in Nat
          BY <1>1, <4>2, TheTeam DEF Runs, InRegion, Length
        <4> QED
          BY <1>1, <4>1, <4>3 DEF StateInv, TypeOK
      <3>4. CASE run_task(c)
        <4>1. event.fn = serial /\ Length \in Nat
          BY <1>1, <2>1, TheTeam DEF Working
        <4> QED
          BY <3>2, <3>4, <4>1 DEF run_task
      <3>5. CASE Release(c) \/ BarrierInitWake(c) \/ Wfi(c) \/ NotInTeam(c) \/ BarrierInit(c) \/ FetchAdd(c) \/ Clear(c)
        BY <3>1, <3>5 DEF Release, BarrierInitWake, WakeUpAll, Wfi, NotInTeam, BarrierInit, FetchAdd, Clear, Step
      <3>6. CASE ConstructStep(c)
        <4>1. pc[c] \in Places
          BY <3>6, ConstructUnchanged
        <4>2. fn[c] = serial /\ turn[c] \in 1 .. Length /\ Length \in Nat
          BY <1>1, <1>9, <2>1, <4>1, PlacesRun, TheTeam
        <4>3. (turn' = turn /\ fn' = fn) \/ Advance(c)
          BY <1>1, <1>9, <2>1, <3>6, ConstructMoves DEF CallBarrier, Step
        <4>4. ASSUME Advance(c)
              PROVE  turn[c] + 1 \in 1 .. Length + 1 /\ Goto(c, serial, turn[c] + 1)
          BY <4>2, <4>4 DEF Advance
        <4> QED
          BY <3>1, <3>2, <4>3, <4>4
      <3> QED
        BY <1>9, <3>3, <3>4, <3>5, <3>6 DEF CoreStep, ConstructStep
    <2> QED
      BY <1>5, <2>2, <2>3, <2>4
  <1> QED
    BY <1>6, <1>7, <1>8, <1>9 DEF Next, MasterStep

(* The types hold when the cores start.                                    *)
LEMMA TypeInit ==
  ASSUME OneTeam, Init
  PROVE  TypeOK
  <1>1. StateInv
    BY InitState DEF OmpInv
  <1>2. Compiled(program) /\ NumCores \in Nat \ {0} /\ 1 \in DOMAIN program
    BY <1>1, TheTeam, ConfigAssumption
  <1>3. Len(program[1].body) \in Nat
    BY <1>2 DEF Compiled
  <1> QED
    BY <1>1, <1>2, <1>3 DEF Init, TypeOK, StateInv

-------------------------------------------------------------------------------
(* What a thread copies is the result of the one that ran the block.       *)
LEMMA CopyFromFirst ==
  ASSUME OneTeam, OmpInv, ShareInv
  PROVE  CopyDelivered
  <1>1. StateInv /\ TeamInv
    BY DEF OmpInv
  <1> SUFFICES ASSUME NEW c \in Cores, pc[c] = "copied"
               PROVE  \E d \in Cores \ {c} :
                        works.copyprivate = <<d, fn[c], turn[c]>> /\ fn[d] = fn[c] /\ turn[d] = turn[c]
    BY DEF CopyDelivered
  <1>2. c \in Team
    BY <1>1 DEF TeamInv, Outsider
  <1>3. PICK i \in {0, 1} : Working(i)
    BY <1>1, <1>2 DEF TeamInv, Serial, Asleep
  <1>4. \A d \in Team : Counts(d) /\ Depth(d) = 1 /\ Progress(d) = turn[c] /\ Op(turn[c]) = "copyprivate"
    BY <1>1, <1>2, <1>3, CopiedTogether
  <1>5. \A d \in Team : fn[d] = serial /\ turn[d] = turn[c]
    <2>1. ASSUME NEW d \in Team
          PROVE  fn[d] = serial /\ turn[d] = turn[c]
      <3>1. Progress(d) \in 1 .. Length /\ Progress(d) = turn[c]
        BY <1>4 DEF Counts
      <3> QED
        BY <1>1, <1>3, <3>1, ThreadAt DEF ThreadFacts
    <2> QED
      BY <2>1
  <1>6. PICK f \in Shared : Taken(f)
    BY <1>2, <1>3, <1>4 DEF ShareInv, ShareState, Working, Shared
  <1>7. f \in Team /\ f \in Cores /\ First(f)
    BY <1>1, <1>6, TheTeam DEF Shared, Taken
  <1>8. Going(f) \in {"sync", "past"} /\ works.copyprivate = <<f, serial, turn[f]>>
    BY <1>4, <1>5, <1>7 DEF First, Depth
  <1>9. f # c
    BY <1>8 DEF Going, BarrierCode
  <1> QED
    BY <1>2, <1>5, <1>7, <1>8, <1>9

(* The types of the variables, for every number of cores and every program *)
(* of regions with one team size that gives its work shares back:          *)
(* event.barrier, the counter of the barrier and works.completed count no  *)
(* more threads than there are cores.                                      *)
THEOREM OmpTyped ==
  ASSUME OneTeam, SharesReturned
  PROVE  Spec => []TypeOK
  <1> DEFINE Inv == OmpInv /\ ShareInv /\ TypeOK
  <1>1. Init => Inv
    BY InitState, ShareInit, TypeInit
  <1>2. Inv /\ [Next]_vars => Inv'
    <2> SUFFICES ASSUME Inv, [Next]_vars
                 PROVE  Inv'
      OBVIOUS
    <2>1. OmpInv'
      BY OmpStep
    <2>2. ShareInv'
      BY <2>1, ShareStep
    <2>3. TypeOK'
      BY <2>1, <2>2, TypeStep DEF ShareInv
    <2> QED
      BY <2>1, <2>2, <2>3
  <1>3. Inv => TypeOK
    OBVIOUS
  <1> HIDE DEF Inv
  <1> QED
    BY <1>1, <1>2, <1>3, PTL DEF Spec

(* At the end of GOMP_single_copy_start every thread finds the result of   *)
(* the thread that ran the block, published for this construct and still   *)
(* on the stack of a thread that has not left it: the barrier in the       *)
(* middle orders the publication before the copies, the one after the      *)
(* construct the copies before the end of the stack frame, and the count   *)
(* of the work share lets one thread run the block, in every construct.    *)
THEOREM CopiesDelivered ==
  ASSUME OneTeam, SharesReturned
  PROVE  Spec => []CopyDelivered
  <1> DEFINE Inv == OmpInv /\ ShareInv
  <1>1. Init => Inv
    BY InitState, ShareInit
  <1>2. Inv /\ [Next]_vars => Inv'
    <2> SUFFICES ASSUME Inv, [Next]_vars
                 PROVE  Inv'
      OBVIOUS
    <2>1. OmpInv'
      BY OmpStep
    <2> QED
      BY <2>1, ShareStep
  <1>3. Inv => CopyDelivered
    BY CopyFromFirst
  <1> HIDE DEF Inv
  <1> QED
    BY <1>1, <1>2, <1>3, PTL DEF Spec

-------------------------------------------------------------------------------
(* Loops that count up, and one loop or sections in a region, with nothing  *)
(* after sections, which end without the barrier that OpenMP asks for.      *)
Regular ==
  \A p \in Programs : \A r \in DOMAIN p : \A k \in DOMAIN p[r].body :
    LET x == p[r].body[k] IN
    /\ x.op = "loop" => x.start \in Int /\ x.end \in Int /\ x.incr \in Nat \ {0} /\ x.chunk \in Nat \ {0}
    /\ x.op = "sections" => x.count \in Nat /\ k = Len(p[r].body)
    /\ \A j \in DOMAIN p[r].body : x.op \in {"loop", "sections"} /\ p[r].body[j].op \in {"loop", "sections"} => j = k

Con(k) == program[serial].body[k]
Ids(k) == IF Op(k) = "loop" THEN Iterations(Con(k).start, Con(k).end, Con(k).incr) ELSE 1 .. Con(k).count

(* A thread has run what it runs for itself when it has left the construct.*)
Own(k) == \A c \in Team : ran[<<k, c>>] = IF Progress(c) > k THEN 1 ELSE 0

(* The block of a single: nobody has counted yet, or the first thread has  *)
(* not run it yet.                                                         *)
Before(c, k) == Progress(c) < k \/ (Progress(c) = k /\ Going(c) \in {"lock", "check", "share"})
Doing(c, k) == Progress(c) = k /\ Going(c) \in {"unlock", "work"} /\ got[c] = {0}
Once(k) == ran[<<k, 0>>] = IF (\A c \in Team : Before(c, k)) \/ (\E c \in Team : Doing(c, k)) THEN 0 ELSE 1

(* A loop or sections: whether the share has been set up, what a thread    *)
(* has to run, and whether it has found nothing left.                      *)
Combined == program[serial].fn # "GOMP_parallel"
Fresh(c, k) ==
  \/ Progress(c) < k
  \/ Progress(c) = k /\ (Going(c) \in {"lock", "check"} \/ (Going(c) = "share" /\ first[c] = TRUE))
Open(k) == Combined \/ \E c \in Team : ~ Fresh(c, k)
Has(c, k) ==
  IF Progress(c) = k /\ (Going(c) = "work" \/ (Going(c) = "unlock" /\ Op(k) = "sections")) THEN got[c] ELSE {}
Over(c, k) ==
  \/ Progress(c) > k
  \/ Progress(c) = k /\ (Going(c) = "past" \/ (Op(k) = "sections" /\ Going(c) = "unlock" /\ got[c] = {}))

Dealt(k) ==
  /\ Op(k) = "loop" =>
       /\ works.end = Con(k).end /\ works.incr = Con(k).incr /\ works.chunk_size = Con(k).chunk
       /\ works.next \in Int /\ works.next >= Con(k).start /\ (works.next - Con(k).start) % Con(k).incr = 0
  /\ Op(k) = "sections" => works.end = Con(k).count + 1 /\ works.next \in 1 .. Con(k).count + 1

Given(n, k) == Open(k) /\ n < works.next
Split(k) ==
  /\ Open(k) => Dealt(k)
  /\ \A c \in Team : Has(c, k) \subseteq {n \in Ids(k) : Given(n, k)}
  /\ \A c, d \in Team : c # d => Has(c, k) \cap Has(d, k) = {}
  /\ \A n \in Ids(k) : ran[<<k, n>>] = IF Given(n, k) /\ (\A c \in Team : n \notin Has(c, k)) THEN 1 ELSE 0
  /\ (\E c \in Team : Over(c, k)) => works.next >= works.end

(* The first thread to come marks the share.                               *)
Marks(k) ==
  ~ Combined =>
    /\ (\E c \in Team : ~ Fresh(c, k)) => works.checkfirst = TRUE
    /\ (\E c \in Team : Progress(c) >= k) /\ (\A c \in Team : Fresh(c, k)) => works.checkfirst = FALSE

RanConstruct(k) ==
  /\ Op(k) \in {"task", "critical"} => Own(k)
  /\ ShareOp(k) => Once(k)
  /\ SplitOp(k) => Split(k) /\ Marks(k)

RanState == \A k \in 1 .. Length : RanConstruct(k)

(* gomp_work_share_start returns whether the share is new; a combined      *)
(* construct does not call it.                                             *)
FirstInv ==
  \A c \in Cores :
    /\ pc[c] = "share" => first[c] = IF Combined THEN FALSE ELSE ~ works.checkfirst
    /\ Combined => pc[c] \notin {"lock", "check"}

RanInv ==
  /\ ran \in [AllWork(serial) -> {0, 1}]
  /\ FirstInv
  /\ pc[0] \in {"serial", "fork"} => \A w \in DOMAIN ran : ran[w] = 0
  /\ pc[0] = "fork" /\ Combined => Dealt(1) /\ works.next = (IF Op(1) = "loop" THEN Con(1).start ELSE 1)
  /\ pc[0] \notin {"serial", "fork"} => RanState

-------------------------------------------------------------------------------
(* The loop or the sections of a region.                                   *)
LEMMA TheSplit ==
  ASSUME OneTeam, SharesReturned, Regular, StateInv, NEW k \in 1 .. Length, SplitOp(k)
  PROVE  /\ Op(k) = "loop" => /\ Con(k).start \in Int /\ Con(k).end \in Int
                              /\ Con(k).incr \in Nat \ {0} /\ Con(k).chunk \in Nat \ {0}
         /\ Op(k) = "sections" => Con(k).count \in Nat /\ k = Length
         /\ \A j \in 1 .. Length : (SplitOp(j) => j = k) /\ (ShareOp(j) => j < k)
  <1>1. DOMAIN program[serial].body = 1 .. Length /\ program \in Programs /\ serial \in DOMAIN program
    BY TheRegion DEF StateInv
  <1>2. /\ Op(k) = "loop" => /\ Con(k).start \in Int /\ Con(k).end \in Int
                             /\ Con(k).incr \in Nat \ {0} /\ Con(k).chunk \in Nat \ {0}
        /\ Op(k) = "sections" => Con(k).count \in Nat /\ k = Length
        /\ \A j \in 1 .. Length : SplitOp(j) => j = k
    BY <1>1 DEF Regular, Op, Con, SplitOp, Length
  <1>3. \A j \in 1 .. Length : ShareOp(j) => j < k
    BY <1>1 DEF SharesReturned, Op, SplitOp, ShareOp
  <1> QED
    BY <1>2, <1>3

(* A region of a combined construct has that construct alone.              *)
LEMMA TheCombined ==
  ASSUME OneTeam, SharesReturned, StateInv, Combined
  PROVE  /\ Length = 1 /\ SplitOp(1)
         /\ program[serial].fn \in {"GOMP_parallel_loop_dynamic", "GOMP_parallel_sections"}
         /\ program[serial].fn = "GOMP_parallel_loop_dynamic" <=> Op(1) = "loop"
         /\ Entry(program[serial].fn, program[serial].body[1]) = IF Op(1) = "loop" THEN "loop_next" ELSE "sections_next"
  <1>1. program[serial].fn \in {"GOMP_parallel_loop_dynamic", "GOMP_parallel_sections"}
    BY TheRegion DEF Combined, Calls
  <1>2. /\ program[serial].fn = "GOMP_parallel_loop_dynamic" => Length = 1 /\ Op(1) = "loop"
        /\ program[serial].fn = "GOMP_parallel_sections" => Length = 1 /\ Op(1) = "sections"
    BY DEF SharesReturned, StateInv, Length, Op
  <1>3. Entry(program[serial].fn, program[serial].body[1]) = IF Op(1) = "loop" THEN "loop_next" ELSE "sections_next"
    BY <1>1, <1>2 DEF Entry, Op
  <1> QED
    BY <1>1, <1>2, <1>3 DEF SplitOp

(* What the work of construct k depends on of thread d.                    *)
View(d, k) ==
  /\ ShareOp(k) => (Before(d, k)' <=> Before(d, k)) /\ (Doing(d, k)' <=> Doing(d, k))
  /\ SplitOp(k) => /\ Combined \/ (Fresh(d, k)' <=> Fresh(d, k))
                   /\ Has(d, k)' = Has(d, k) /\ (Over(d, k)' <=> Over(d, k))
  /\ Progress(d)' > k <=> Progress(d) > k

Placed(d) ==
  /\ Progress(d)' = Progress(d) /\ (Progress(d) \in 1 .. Length => Going(d)' = Going(d))
  /\ got'[d] = got[d] /\ first'[d] = first[d]

(* A thread that stays in place looks the same from construct k.           *)
LEMMA PlacedView ==
  ASSUME program' = program, serial' = serial, NEW k \in 1 .. Length, NEW d, Placed(d)
  PROVE  /\ View(d, k) /\ (Progress(d)' >= k <=> Progress(d) >= k) /\ (Fresh(d, k)' <=> Fresh(d, k))
         /\ Has(d, k)' = Has(d, k)
  <1>1. Op(k)' = Op(k)
    BY DEF Op
  <1>2. Progress(d)' = Progress(d) /\ got'[d] = got[d] /\ first'[d] = first[d]
    BY DEF Placed
  <1>3. Progress(d) = k => Going(d)' = Going(d)
    BY DEF Placed
  <1>4. (Before(d, k)' <=> Before(d, k)) /\ (Doing(d, k)' <=> Doing(d, k))
    BY <1>2, <1>3 DEF Before, Doing
  <1>5. (Fresh(d, k)' <=> Fresh(d, k)) /\ (Over(d, k)' <=> Over(d, k))
    BY <1>1, <1>2, <1>3 DEF Fresh, Over
  <1>6. Has(d, k)' = Has(d, k)
    BY <1>1, <1>2, <1>3 DEF Has
  <1> QED
    BY <1>2, <1>4, <1>5, <1>6 DEF View

(* Thread c is not in construct k, before and after a step.                *)
LEMMA AwayView ==
  ASSUME program' = program, serial' = serial, NEW k \in 1 .. Length, NEW c,
         Progress(c) \in Nat, Progress(c)' \in Nat, Progress(c) # k, Progress(c)' # k,
         Progress(c)' > k <=> Progress(c) > k
  PROVE  View(c, k)
  <1>1. (Before(c, k)' <=> Before(c, k)) /\ (Doing(c, k)' <=> Doing(c, k))
    BY DEF Before, Doing
  <1>2. (Fresh(c, k)' <=> Fresh(c, k)) /\ (Over(c, k)' <=> Over(c, k)) /\ Has(c, k)' = Has(c, k)
    BY DEF Fresh, Over, Has
  <1> QED
    BY <1>1, <1>2 DEF View

(* Thread c comes to construct k.                                          *)
LEMMA ComesView ==
  ASSUME OneTeam, SharesReturned, StateInv, program' = program, serial' = serial, NEW k \in 1 .. Length,
         NEW c, Progress(c) \in Nat, Progress(c) < k, Comes(c, k)
  PROVE  View(c, k)
  <1>1. /\ Progress(c)' = k /\ Op(k)' = Op(k) /\ Length \in Nat
        /\ \/ Going(c)' \in {"loop_next", "sections_next"} /\ Combined
           \/ Going(c)' \in {"critical", "task", "sync"} /\ ~ ShareOp(k) /\ ~ SplitOp(k)
           \/ Going(c)' = "lock"
        /\ Going(c)' \in {"loop_next", "sections_next", "critical", "task", "sync", "lock"}
    BY TheTeam DEF Comes, Op, Combined, ShareOp, SplitOp
  <1>2. ~ Doing(c, k) /\ ~ Doing(c, k)' /\ ~ Over(c, k) /\ ~ Over(c, k)' /\ Has(c, k) = {} /\ Has(c, k)' = {}
    BY <1>1 DEF Doing, Over, Has
  <1>3. Fresh(c, k) /\ Before(c, k) /\ (Going(c)' = "lock" => Fresh(c, k)' /\ Before(c, k)')
    BY <1>1 DEF Fresh, Before
  <1>4. ShareOp(k) => Going(c)' = "lock"
    BY <1>1, TheCombined DEF ShareOp, SplitOp
  <1>5. SplitOp(k) => Going(c)' = "lock" \/ Combined
    BY <1>1
  <1> QED
    BY <1>1, <1>2, <1>3, <1>4, <1>5 DEF View

(* A step that leaves the work of construct k alone.                       *)
SameDeal ==
  /\ works'.next = works.next /\ works'.end = works.end
  /\ works'.incr = works.incr /\ works'.chunk_size = works.chunk_size

(* A step that does not touch the share keeps the loop as it was set up.   *)
LEMMA DealtSame ==
  ASSUME program' = program, serial' = serial, NEW k \in 1 .. Length, SameDeal
  PROVE  Dealt(k)' <=> Dealt(k)
  BY DEF Dealt, Op, Con, SameDeal

(* The pieces of work of each construct of the region that runs.           *)
LEMMA TheWork ==
  ASSUME OneTeam, StateInv, NEW k \in 1 .. Length
  PROVE  /\ Op(k) \in {"task", "critical"} => WorkOf(serial, k) = {k} \X Team
         /\ ShareOp(k) => WorkOf(serial, k) = {k} \X {0}
         /\ SplitOp(k) => WorkOf(serial, k) = {k} \X Ids(k)
         /\ Op(k) = "barrier" => WorkOf(serial, k) = {k} \X {}
         /\ WorkOf(serial, k) \subseteq AllWork(serial)
  <1>1. TeamSize(serial) = Size /\ DOMAIN program[serial].body = 1 .. Length
    BY TheTeam, TheRegion DEF StateInv
  <1>2. WorkOf(serial, k) \subseteq AllWork(serial)
    BY <1>1 DEF AllWork
  <1>3. CASE Op(k) \in {"task", "critical"}
    BY <1>1, <1>2, <1>3 DEF WorkOf, Op, ShareOp, SplitOp, Team
  <1>4. CASE Op(k) \in {"single", "copyprivate"}
    BY <1>2, <1>4 DEF WorkOf, Op, ShareOp, SplitOp
  <1>5. CASE Op(k) = "loop"
    BY <1>2, <1>5 DEF WorkOf, Op, ShareOp, SplitOp, Ids, Con
  <1>6. CASE Op(k) = "sections"
    BY <1>2, <1>6 DEF WorkOf, Op, ShareOp, SplitOp, Ids, Con
  <1>7. CASE Op(k) = "barrier"
    BY <1>2, <1>7 DEF WorkOf, Op, ShareOp, SplitOp
  <1> QED
    BY <1>3, <1>4, <1>5, <1>6, <1>7, TheRegion DEF Constructs

(* A construct that the threads look the same from, and whose work is left *)
(* alone.                                                                  *)
LEMMA WorkKept ==
  ASSUME OneTeam, StateInv, program' = program, serial' = serial, NEW k \in 1 .. Length, RanConstruct(k),
         \A d \in Team : View(d, k), \A w \in WorkOf(serial, k) : ran'[w] = ran[w],
         SplitOp(k) => SameDeal /\ Marks(k)'
  PROVE  RanConstruct(k)'
  <1>1. Team' = Team /\ Op(k)' = Op(k) /\ Con(k)' = Con(k) /\ Combined' = Combined /\ Ids(k)' = Ids(k)
    BY Frozen DEF Op, Con, Combined, Ids
  <1>2. (ShareOp(k)' <=> ShareOp(k)) /\ (SplitOp(k)' <=> SplitOp(k))
    BY <1>1 DEF ShareOp, SplitOp
  <1>3. ASSUME Op(k) \in {"task", "critical"}, Own(k)
        PROVE  Own(k)'
    <2>1. \A c \in Team : ran'[<<k, c>>] = ran[<<k, c>>]
      BY <1>3, TheWork
    <2> QED
      BY <1>1, <1>3, <2>1 DEF Own, View
  <1>4. ASSUME ShareOp(k), Once(k)
        PROVE  Once(k)'
    <2>1. \A d \in Team : (Before(d, k)' <=> Before(d, k)) /\ (Doing(d, k)' <=> Doing(d, k))
      BY <1>4 DEF View
    <2>2. ((\A d \in Team : Before(d, k))' <=> (\A d \in Team : Before(d, k))) /\
          ((\E d \in Team : Doing(d, k))' <=> (\E d \in Team : Doing(d, k)))
      BY <1>1, <2>1
    <2>3. ran'[<<k, 0>>] = ran[<<k, 0>>]
      BY <1>4, TheWork
    <2> QED
      BY <1>1, <1>4, <2>2, <2>3 DEF Once
  <1>5. ASSUME SplitOp(k), Split(k)
        PROVE  Split(k)'
    <2>1. \A d \in Team : Has(d, k)' = Has(d, k) /\ (Over(d, k)' <=> Over(d, k))
      BY <1>5 DEF View
    <2>2. Open(k)' <=> Open(k)
      BY <1>1, <1>5 DEF View, Open
    <2>3. \A n : Given(n, k)' <=> Given(n, k)
      BY <1>5, <2>2 DEF Given, SameDeal
    <2>4. (Open(k) => Dealt(k))'
      BY <1>5, <2>2, DealtSame DEF Split
    <2>5. \A c \in Team : Has(c, k)' \subseteq {n \in Ids(k) : Given(n, k)'}
      BY <1>5, <2>1, <2>3 DEF Split
    <2>6. \A c, d \in Team : c # d => Has(c, k)' \cap Has(d, k)' = {}
      BY <1>5, <2>1 DEF Split
    <2>7. ASSUME NEW n \in Ids(k)
          PROVE  ran'[<<k, n>>] = IF Given(n, k)' /\ (\A c \in Team : n \notin Has(c, k)') THEN 1 ELSE 0
      <3>1. ran[<<k, n>>] = IF Given(n, k) /\ (\A c \in Team : n \notin Has(c, k)) THEN 1 ELSE 0
        BY <1>5 DEF Split
      <3>2. (\A c \in Team : n \notin Has(c, k)') <=> (\A c \in Team : n \notin Has(c, k))
        BY <2>1
      <3>3. ran'[<<k, n>>] = ran[<<k, n>>]
        BY <1>5, TheWork
      <3> QED
        BY <2>3, <3>1, <3>2, <3>3
    <2>8. (\E c \in Team : Over(c, k)') => works'.next >= works'.end
      BY <1>5, <2>1 DEF Split, SameDeal
    <2> QED
      BY <1>1, <2>4, <2>5, <2>6, <2>7, <2>8 DEF Split
  <1> QED
    BY <1>1, <1>2, <1>3, <1>4, <1>5 DEF RanConstruct

(* A thread that goes on in the constructs stays in its own or comes to    *)
(* the next, and the others do not move.                                   *)
LEMMA GoesOn ==
  ASSUME OneTeam, StateInv, WorksInv, NEW i \in {0, 1}, Working(i), NEW c \in Team, ConstructStep(c)
  PROVE  /\ program' = program /\ serial' = serial /\ \A d \in Team \ {c} : Placed(d)
         /\ pc[c] \in Places /\ Progress(c) = turn[c] /\ turn[c] \in 1 .. Length /\ turn[c] \in Nat /\ Length \in Nat
         /\ \/ Progress(c)' = turn[c] /\ turn' = turn
            \/ Comes(c, turn[c] + 1) /\ Advance(c)
         /\ Advance(c) => Comes(c, turn[c] + 1)
  <1>1. /\ program' = program /\ serial' = serial /\ wake_up_q' = wake_up_q /\ pc[c] \in Places
        /\ Length' = Length /\ Length \in Nat /\ Team \subseteq Cores
    BY ConstructUnchanged, Frozen, TheTeam
  <1>2. Progress(c) = turn[c] /\ turn[c] \in 1 .. Length /\ turn[c] \in Nat /\ fn[c] = serial
    BY <1>1, PlaceFacts
  <1>3. ASSUME Advance(c), after' = after
        PROVE  Alone(c) /\ Comes(c, turn[c] + 1)
    <2>1. Goto(c, serial, turn[c] + 1) /\ turn[c] + 1 \in 1 .. Length + 1
      BY <1>1, <1>2, <1>3 DEF Advance
    <2> QED
      BY <1>1, <1>3, <2>1, GotoTo
  <1>4. ASSUME NEW to \in Places, Step(c, pc[c], to), after' = after
        PROVE  Alone(c) /\ Progress(c)' = turn[c] /\ turn' = turn
    BY <1>1, <1>2, <1>4, StepTo
  <1>5. ASSUME NEW ret \in Returns, CallBarrier(c, pc[c], ret)
        PROVE  Alone(c) /\ Progress(c)' = turn[c] /\ turn' = turn
    BY <1>1, <1>2, <1>5, CallTo
  <1>6. /\ Alone(c)
        /\ \/ Progress(c)' = turn[c] /\ turn' = turn
           \/ Comes(c, turn[c] + 1) /\ Advance(c)
    BY <1>3, <1>4, <1>5, ConstructMoves
  <1>7. ASSUME NEW d \in Team \ {c}
        PROVE  Placed(d)
    <2>1. Same(d)
      BY <1>1, <1>6, OthersSame
    <2> QED
      BY <2>1, ConstructLocals DEF Same, Placed
  <1>8. Advance(c) => Comes(c, turn[c] + 1)
    <2>1. SUFFICES ASSUME Advance(c)
                   PROVE  Comes(c, turn[c] + 1)
      OBVIOUS
    <2>2. turn'[c] = turn[c] + 1
      BY <1>1, <2>1 DEF Advance, Goto, StateInv
    <2> QED
      BY <1>2, <1>6, <2>2
  <1> QED
    BY <1>1, <1>2, <1>6, <1>7, <1>8

(* Such a step seen from another construct.                                *)
LEMMA OtherView ==
  ASSUME OneTeam, SharesReturned, StateInv, WorksInv, NEW i \in {0, 1}, Working(i), NEW c \in Team, ConstructStep(c),
         NEW k \in 1 .. Length, k # turn[c]
  PROVE  \A d \in Team : View(d, k)
  <1>1. /\ program' = program /\ serial' = serial /\ (\A d \in Team \ {c} : Placed(d))
        /\ Progress(c) = turn[c] /\ turn[c] \in 1 .. Length /\ turn[c] \in Nat /\ Length \in Nat
        /\ \/ Progress(c)' = turn[c]
           \/ Comes(c, turn[c] + 1)
    BY GoesOn
  <1>2. \A d \in Team \ {c} : View(d, k)
    BY <1>1, PlacedView
  <1>3. CASE Progress(c)' = turn[c]
    BY <1>1, <1>2, <1>3, AwayView
  <1>4. CASE Comes(c, turn[c] + 1) /\ k = turn[c] + 1
    <2>1. Progress(c) < k /\ Comes(c, k) /\ Progress(c) \in Nat
      BY <1>1, <1>4
    <2>2. View(c, k)
      BY <1>1, <2>1, ComesView
    <2> QED
      BY <1>2, <2>2
  <1>5. CASE Comes(c, turn[c] + 1) /\ k # turn[c] + 1
    <2>1. Progress(c)' = turn[c] + 1
      BY <1>5 DEF Comes
    <2>2. View(c, k)
      BY <1>1, <1>5, <2>1, AwayView
    <2> QED
      BY <1>2, <2>2
  <1> QED
    BY <1>1, <1>3, <1>4, <1>5

(* Loops and sections set up and advance the share; nobody else does.      *)
LEMMA DealKept ==
  ASSUME OneTeam, StateInv, WorksInv, NEW i \in {0, 1}, Working(i), NEW c \in Team, ConstructStep(c),
         ~ SplitOp(turn[c]) \/ (~ Share(c) /\ ~ Loop(c))
  PROVE  SameDeal
  <1>1. pc[c] \in Places
    BY ConstructUnchanged
  <1>2. Fits(pc[c], turn[c]) /\ At(c).op = Op(turn[c]) /\ turn[c] \in 1 .. Length /\ At(c) = program[serial].body[turn[c]]
    BY <1>1, PlaceFacts
  <1>3. CASE Past(c) \/ gomp_work_share_start(c) \/ GOMP_barrier(c) \/ Task(c)
    BY <1>3 DEF SameDeal, Past, gomp_work_share_start, GOMP_barrier, Task
  <1>4. CASE LockShare(c) \/ GOMP_sections_next(c) \/ Unlock(c)
    <2>1. \E v : works' = [works EXCEPT !["lock"] = v]
      BY <1>4 DEF LockShare, GOMP_sections_next, Unlock, gomp_hal_lock, gomp_hal_unlock
    <2> QED
      BY <2>1 DEF SameDeal
  <1>5. ~ Loop(c)
    BY <1>2 DEF Loop, Fits, SplitOp
  <1>6. CASE Work(c)
    <2>1. pc[c] = "work" /\ Op(turn[c]) \in {"loop", "sections", "single", "copyprivate"}
      BY <1>2, <1>6 DEF Work, Fits
    <2>2. works' = works \/ \E v : works' = [works EXCEPT !.copyprivate = v]
      BY <1>2, <1>6, <2>1 DEF Work
    <2>3. CASE works' = works
      BY <2>3 DEF SameDeal
    <2>4. ASSUME NEW v, works' = [works EXCEPT !.copyprivate = v]
          PROVE  SameDeal
      BY <2>4 DEF SameDeal
    <2> QED
      BY <2>2, <2>3, <2>4
  <1>7. CASE Copied(c)
    <2>1. \E v : works' = [works EXCEPT !.checkfirst = v]
      BY <1>7 DEF Copied
    <2> QED
      BY <2>1 DEF SameDeal
  <1>8. CASE EnterCritical(c) \/ LeaveCritical(c)
    <2>1. pc[c] \in {"critical", "in_critical"}
      BY <1>8 DEF EnterCritical, LeaveCritical, Step
    <2>2. At(c).lock \in Locks
      BY <1>2, <2>1, TheRegion DEF Fits
    <2>3. \E v : works' = [works EXCEPT ![At(c).lock] = v]
      BY <1>8 DEF EnterCritical, LeaveCritical, gomp_hal_lock, gomp_hal_unlock
    <2> QED
      BY <2>2, <2>3 DEF SameDeal, Locks
  <1>9. CASE Share(c)
    <2>1. Op(turn[c]) \in {"single", "copyprivate"}
      BY <1>2, <1>9 DEF Share, Step, Fits, Sharing, SplitOp
    <2> DEFINE w == IF first[c] THEN Marked(works) ELSE works
    <2>2. works' = Counted(w) \/ \E v : works' = [w EXCEPT !.completed = v]
      BY <1>2, <1>9, <2>1 DEF Share
    <2>3. w.next = works.next /\ w.end = works.end /\ w.incr = works.incr /\ w.chunk_size = works.chunk_size
      BY DEF Marked
    <2> HIDE DEF w
    <2>4. CASE works' = Counted(w)
      BY <2>3, <2>4 DEF SameDeal, Counted
    <2>5. ASSUME NEW v, works' = [w EXCEPT !.completed = v]
          PROVE  SameDeal
      BY <2>3, <2>5 DEF SameDeal
    <2> QED
      BY <2>2, <2>4, <2>5
  <1> QED
    BY <1>3, <1>4, <1>5, <1>6, <1>7, <1>8, <1>9 DEF ConstructStep

(* A single is left from its end.                                          *)
LEMMA LeavesPast ==
  ASSUME OneTeam, StateInv, NEW i \in {0, 1}, Working(i), NEW c \in Team, ConstructStep(c), ShareOp(turn[c]),
         Comes(c, turn[c] + 1)
  PROVE  pc[c] = "past" /\ Past(c)
  <1>1. pc[c] \in Places /\ c \in Cores
    BY ConstructUnchanged, TheTeam
  <1>2. /\ Fits(pc[c], turn[c]) /\ At(c).op = Op(turn[c]) /\ turn[c] \in Nat
    BY <1>1, PlaceFacts
  <1>3. turn'[c] # turn[c]
    BY <1>2 DEF Comes
  <1>4. pc[c] \in Sharing \cup {"work", "sync", "copied", "past"}
    BY <1>1, <1>2 DEF Fits, ShareOp, Places, Returns
  <1>5. /\ ~ LockShare(c) /\ ~ gomp_work_share_start(c) /\ ~ Share(c) /\ ~ Copied(c) /\ ~ GOMP_barrier(c)
    BY <1>3 DEF LockShare, gomp_work_share_start, Share, Copied, GOMP_barrier, CallBarrier, Step
  <1>6. ~ Unlock(c)
    BY <1>2, <1>3 DEF Unlock, ShareOp, Step, CallBarrier
  <1>7. ~ Work(c)
    BY <1>2, <1>3 DEF Work, ShareOp, Step, CallBarrier
  <1> QED
    BY <1>4, <1>5, <1>6, <1>7
    DEF ConstructStep, GOMP_sections_next, Loop, Task, EnterCritical, LeaveCritical, Step, Sharing, Past

(* The first thread that comes to a loop or sections finds the share free. *)
LEMMA FindsFree ==
  ASSUME OneTeam, SharesReturned, Regular, StateInv, NEW i \in {0, 1}, Working(i), ShareState,
         NEW k \in 1 .. Length, SplitOp(k), \A d \in Team : Progress(d) < k,
         NEW c \in Team, Progress(c) = k - 1, Progress(c) \in 1 .. Length /\ ShareOp(Progress(c)) => Depth(c) = 2
  PROVE  works.checkfirst = FALSE
  <1>1. \A d \in Team : ~ Loose(d)
    BY TheSplit, TheTeam, ThreadAt DEF Loose, ThreadFacts
  <1>2. ASSUME NEW f \in Shared, Taken(f)
        PROVE  FALSE
    <2>1. /\ f \in Team /\ Progress(f) \in 1 .. Length /\ ShareOp(Progress(f)) /\ Depth(f) < 2
      BY DEF Shared, Counts, Depth
    <2>2. AtEnd(Progress(f))
      BY <2>1 DEF ShareOp, AtEnd
    <2>3. Progress(c) <= Progress(f) /\ (Progress(c) = Progress(f) => Depth(c) < 2)
      BY <2>1, <2>2, Order
    <2>4. Progress(f) = Progress(c)
      BY <2>1, <2>3, ThreadAt DEF ThreadFacts
    <2> QED
      BY <2>1, <2>3, <2>4
  <1> QED
    BY <1>1, <1>2 DEF ShareState

(* While a thread is at a loop or sections nobody else marks or returns    *)
(* the share.                                                              *)
LEMMA CheckKept ==
  ASSUME OneTeam, SharesReturned, Regular, StateInv, TeamInv, WorksInv, NEW i \in {0, 1}, Working(i),
         NEW c \in Team, ConstructStep(c), NEW k \in 1 .. Length, SplitOp(k), k # turn[c],
         NEW d \in Team, Progress(d) >= k
  PROVE  works'.checkfirst = works.checkfirst
  <1>1. pc[c] \in Places /\ c \in Cores /\ CoreStep(c)
    BY ConstructUnchanged, TheTeam DEF ConstructStep, CoreStep
  <1>2. /\ Progress(c) = turn[c] /\ turn[c] \in 1 .. Length /\ Going(c) = pc[c] /\ ~ Held(c)
        /\ Fits(pc[c], turn[c]) /\ At(c).op = Op(turn[c])
    BY <1>1, PlaceFacts
  <1>3. ~ SplitOp(turn[c])
    BY <1>2, TheSplit
  <1>4. Loose(d)
    BY DEF Loose
  <1>5. ~ (Progress(c) \in 1 .. Length /\ ShareOp(Progress(c)) /\ Depth(c) < 2)
    BY <1>4, LooseNone
  <1>6. Share(c) \/ Copied(c) => ShareOp(turn[c]) /\ pc[c] \in {"share", "copied"}
    BY <1>2, <1>3 DEF Share, Copied, Step, Fits, Sharing, ShareOp, SplitOp
  <1>7. pc[c] \in {"share", "copied"} => Depth(c) < 2
    BY <1>2 DEF Depth
  <1> QED
    BY <1>1, <1>2, <1>5, <1>6, <1>7, FieldsKept

(* A step of another construct keeps the mark of the share right.          *)
LEMMA OtherMarks ==
  ASSUME OneTeam, SharesReturned, Regular, StateInv, TeamInv, WorksInv, NEW i \in {0, 1}, Working(i), ShareState,
         NEW c \in Team, ConstructStep(c), NEW k \in 1 .. Length, SplitOp(k), k # turn[c], Marks(k)
  PROVE  Marks(k)'
  <1>1. /\ program' = program /\ serial' = serial /\ (\A d \in Team \ {c} : Placed(d)) /\ pc[c] \in Places
        /\ Progress(c) = turn[c] /\ turn[c] \in 1 .. Length /\ turn[c] \in Nat /\ Length \in Nat
        /\ \/ Progress(c)' = turn[c]
           \/ Comes(c, turn[c] + 1) /\ Advance(c)
    BY GoesOn
  <1>2. Team' = Team /\ Combined' = Combined
    BY <1>1, Frozen DEF Combined
  <1> SUFFICES ASSUME ~ Combined
               PROVE  Marks(k)'
    BY <1>2 DEF Marks
  <1>3. \A d \in Team : Fresh(d, k)' <=> Fresh(d, k)
    BY OtherView DEF View
  <1>4. CASE \E d \in Team : Progress(d) >= k
    <2>1. works'.checkfirst = works.checkfirst
      BY <1>4, CheckKept
    <2> QED
      BY <1>2, <1>3, <1>4, <2>1 DEF Marks
  <1>5. CASE \A d \in Team : ~ (Progress(d) >= k)
    <2>1. \A d \in Team : Progress(d) < k
      BY <1>5, ThreadAt DEF ThreadFacts
    <2>2. \A d \in Team : Fresh(d, k)
      BY <2>1 DEF Fresh
    <2>3. ASSUME NEW d \in Team, Progress(d)' >= k
          PROVE  works'.checkfirst = FALSE
      <3>1. d = c
        BY <1>1, <1>5, <2>3 DEF Placed
      <3>2. Comes(c, turn[c] + 1) /\ k = turn[c] + 1 /\ Advance(c)
        BY <1>1, <1>5, <2>1, <2>3, <3>1 DEF Comes
      <3>3. ShareOp(turn[c]) => Depth(c) = 2
        <4>1. SUFFICES ASSUME ShareOp(turn[c])
                       PROVE  Depth(c) = 2
          OBVIOUS
        <4>2. pc[c] = "past"
          BY <3>2, <4>1, LeavesPast
        <4>3. Going(c) = "past" /\ ~ Held(c)
          BY <1>1, <4>2, PlaceFacts
        <4> QED
          BY <4>3 DEF Depth
      <3>4. works.checkfirst = FALSE
        <4>1. Progress(c) = k - 1 /\ (Progress(c) \in 1 .. Length /\ ShareOp(Progress(c)) => Depth(c) = 2)
          BY <1>1, <3>2, <3>3
        <4> QED
          BY <2>1, <4>1, FindsFree
      <3>5. ~ Share(c) /\ ~ Copied(c)
        <4>1. turn'[c] # turn[c]
          BY <1>1, <3>2 DEF Comes
        <4> QED
          BY <4>1 DEF Share, Copied, Step
      <3>6. c \in Cores /\ CoreStep(c)
        BY TheTeam DEF ConstructStep, CoreStep
      <3> QED
        BY <3>4, <3>5, <3>6, FieldsKept
    <2> QED
      BY <1>2, <1>3, <2>2, <2>3 DEF Marks
  <1> QED
    BY <1>4, <1>5

-------------------------------------------------------------------------------
(* Thread c runs pieces of its construct that nobody has run.              *)
Ran(c, ids) ==
  /\ {turn[c]} \X ids \subseteq WorkOf(serial, turn[c])
  /\ \A n \in ids : ran[<<turn[c], n>>] = 0
  /\ ran' = [w \in DOMAIN ran |-> IF w \in {turn[c]} \X ids THEN 1 ELSE ran[w]]

(* Work that nobody has run is run once.                                   *)
LEMMA RunsOnce ==
  ASSUME OneTeam, StateInv, ran \in [AllWork(serial) -> {0, 1}], NEW c, turn[c] \in 1 .. Length, NEW ids,
         {turn[c]} \X ids \subseteq WorkOf(serial, turn[c]), \A n \in ids : ran[<<turn[c], n>>] = 0, RunWork(c, ids)
  PROVE  Ran(c, ids)
  <1> DEFINE k == turn[c]
             done == {k} \X ids
  <1>1. done \subseteq DOMAIN ran
    BY TheWork
  <1>2. ran' = [w \in DOMAIN ran \cup done |-> (IF w \in DOMAIN ran THEN ran[w] ELSE 0) + (IF w \in done THEN 1 ELSE 0)]
    BY DEF RunWork
  <1>3. DOMAIN ran \cup done = DOMAIN ran
    BY <1>1
  <1>4. \A w \in done : ran[w] = 0
    OBVIOUS
  <1> HIDE DEF done, k
  <1>5. \A w \in DOMAIN ran : ran[w] \in {0, 1}
    OBVIOUS
  <1>6. \A w \in DOMAIN ran : ran[w] + (IF w \in done THEN 1 ELSE 0) = IF w \in done THEN 1 ELSE ran[w]
    BY <1>4, <1>5
  <1>7. ran' = [w \in DOMAIN ran |-> IF w \in done THEN 1 ELSE ran[w]]
    BY <1>2, <1>3, <1>6
  <1> QED
    BY <1>7 DEF Ran, done, k

(* What has been run after it.                                             *)
LEMMA RanFacts ==
  ASSUME OneTeam, StateInv, ran \in [AllWork(serial) -> {0, 1}], NEW c, turn[c] \in 1 .. Length, NEW ids, Ran(c, ids)
  PROVE  /\ ran' \in [AllWork(serial) -> {0, 1}]
         /\ \A n \in ids : ran'[<<turn[c], n>>] = 1
         /\ \A k \in 1 .. Length : k # turn[c] => \A w \in WorkOf(serial, k) : ran'[w] = ran[w]
         /\ \A n : <<turn[c], n>> \in WorkOf(serial, turn[c]) /\ n \notin ids => ran'[<<turn[c], n>>] = ran[<<turn[c], n>>]
  <1>1. \A k \in 1 .. Length : WorkOf(serial, k) \subseteq AllWork(serial)
    BY TheWork
  <1>2. ran' = [w \in AllWork(serial) |-> IF w \in {turn[c]} \X ids THEN 1 ELSE ran[w]]
    BY DEF Ran
  <1>3. \A k \in 1 .. Length : k # turn[c] => \A w \in WorkOf(serial, k) : w \notin {turn[c]} \X ids
    BY DEF WorkOf
  <1>4. ran' \in [AllWork(serial) -> {0, 1}]
    BY <1>2
  <1>5. ASSUME NEW n \in ids
        PROVE  ran'[<<turn[c], n>>] = 1
    BY <1>1, <1>2 DEF Ran
  <1> QED
    BY <1>1, <1>2, <1>3, <1>4, <1>5

(* The pieces of work that each step of a construct runs.                  *)
LEMMA WorkRuns ==
  ASSUME OneTeam, SharesReturned, Regular, StateInv, TeamInv, WorksInv, NEW i \in {0, 1}, Working(i), ShareState,
         ran \in [AllWork(serial) -> {0, 1}], RanState, NEW c \in Team, ConstructStep(c)
  PROVE  /\ Work(c) => Ran(c, got[c]) /\ (ShareOp(turn[c]) => got[c] = {0})
         /\ Task(c) \/ LeaveCritical(c) => Ran(c, {c})
         /\ ~ Work(c) /\ ~ Task(c) /\ ~ LeaveCritical(c) => ran' = ran
  <1>1. pc[c] \in Places /\ c \in Cores
    BY ConstructUnchanged, TheTeam
  <1>2. /\ Progress(c) = turn[c] /\ turn[c] \in 1 .. Length /\ Going(c) = pc[c] /\ ~ Held(c)
        /\ Fits(pc[c], turn[c]) /\ At(c).op = Op(turn[c]) /\ turn[c] \in Nat
    BY <1>1, PlaceFacts
  <1> DEFINE k == turn[c]
  <1>3. RanConstruct(k)
    BY <1>2 DEF RanState
  <1>4. CASE Work(c)
    <2>1. pc[c] = "work" /\ RunWork(c, got[c]) /\ (ShareOp(k) \/ SplitOp(k))
      BY <1>2, <1>4 DEF Work, Fits, ShareOp, SplitOp
    <2>2. CASE ShareOp(k)
      <3>1. c \in Shared /\ ~ Other(c)
        BY <1>2, <2>1, <2>2 DEF Shared, Counts, Other
      <3>2. Taken(c)
        BY <3>1 DEF ShareState, Taken
      <3>3. got[c] = {0}
        BY <1>2, <2>1, <3>2 DEF Taken, First
      <3>4. Doing(c, k)
        BY <1>2, <2>1, <3>3 DEF Doing
      <3>5. ran[<<k, 0>>] = 0
        BY <1>3, <2>2, <3>4 DEF RanConstruct, Once
      <3>6. WorkOf(serial, k) = {k} \X {0}
        BY <1>2, <2>2, TheWork
      <3>7. Ran(c, got[c])
        BY <1>2, <2>1, <3>3, <3>5, <3>6, RunsOnce
      <3> QED
        BY <1>4, <3>3, <3>7 DEF Work, Task, LeaveCritical
    <2>3. CASE SplitOp(k)
      <3>1. Has(c, k) = got[c]
        BY <1>2, <2>1 DEF Has
      <3>2. got[c] \subseteq Ids(k) /\ \A n \in got[c] : ran[<<k, n>>] = 0
        BY <1>3, <2>3, <3>1 DEF RanConstruct, Split
      <3>3. WorkOf(serial, k) = {k} \X Ids(k)
        BY <1>2, <2>3, TheWork
      <3>4. Ran(c, got[c])
        BY <1>2, <2>1, <3>2, <3>3, RunsOnce
      <3>5. ~ ShareOp(k)
        BY <2>3 DEF ShareOp, SplitOp
      <3> QED
        BY <1>4, <3>4, <3>5 DEF Work, Task, LeaveCritical
    <2> QED
      BY <2>1, <2>2, <2>3
  <1>5. CASE Task(c) \/ LeaveCritical(c)
    <2>1. pc[c] \in {"task", "in_critical"} /\ RunWork(c, {c}) /\ Op(k) \in {"task", "critical"}
      BY <1>2, <1>5 DEF Task, LeaveCritical, Fits
    <2>2. ran[<<k, c>>] = 0
      BY <1>2, <1>3, <2>1 DEF RanConstruct, Own
    <2>3. WorkOf(serial, k) = {k} \X Team
      BY <1>2, <2>1, TheWork
    <2>4. Ran(c, {c})
      BY <1>2, <2>1, <2>2, <2>3, RunsOnce
    <2> QED
      BY <1>5, <2>1, <2>4 DEF Work
  <1>6. CASE ~ Work(c) /\ ~ Task(c) /\ ~ LeaveCritical(c)
    BY <1>6 DEF ConstructStep, Past, LockShare, gomp_work_share_start, Share, Unlock, GOMP_sections_next,
                Loop, NextChunk, LoopEnd, Copied, GOMP_barrier, EnterCritical
  <1> QED
    BY <1>4, <1>5, <1>6

(* What a step runs, whatever it is.                                       *)
LEMMA StepRuns ==
  ASSUME OneTeam, SharesReturned, Regular, StateInv, TeamInv, WorksInv, NEW i \in {0, 1}, Working(i), ShareState,
         ran \in [AllWork(serial) -> {0, 1}], RanState, NEW c \in Team, ConstructStep(c)
  PROVE  /\ \E ids : Ran(c, ids)
         /\ ran' \in [AllWork(serial) -> {0, 1}]
         /\ \A k \in 1 .. Length : k # turn[c] => \A w \in WorkOf(serial, k) : ran'[w] = ran[w]
  <1>1. turn[c] \in 1 .. Length
    BY GoesOn
  <1>2. \E ids : Ran(c, ids)
    <2>1. CASE ran' = ran
      <3>1. Ran(c, {})
        BY <2>1 DEF Ran
      <3> QED
        BY <3>1
    <2> QED
      BY <2>1, WorkRuns
  <1> QED
    BY <1>1, <1>2, RanFacts

(* The constructs that thread c is not in.                                 *)
LEMMA OtherConstruct ==
  ASSUME OneTeam, SharesReturned, Regular, StateInv, TeamInv, WorksInv, NEW i \in {0, 1}, Working(i), ShareState,
         ran \in [AllWork(serial) -> {0, 1}], RanState, NEW c \in Team, ConstructStep(c),
         NEW k \in 1 .. Length, k # turn[c]
  PROVE  RanConstruct(k)'
  <1>1. program' = program /\ serial' = serial /\ turn[c] \in 1 .. Length
    BY GoesOn
  <1>2. \A d \in Team : View(d, k)
    BY OtherView
  <1>3. \A w \in WorkOf(serial, k) : ran'[w] = ran[w]
    BY StepRuns
  <1>4. RanConstruct(k)
    BY DEF RanState
  <1>5. SplitOp(k) => SameDeal /\ Marks(k)'
    <2>1. SUFFICES ASSUME SplitOp(k)
                   PROVE  SameDeal /\ Marks(k)'
      OBVIOUS
    <2>2. ~ SplitOp(turn[c])
      BY <1>1, <2>1, TheSplit
    <2>3. Marks(k)
      BY <1>4, <2>1 DEF RanConstruct
    <2> QED
      BY <2>1, <2>2, <2>3, DealKept, OtherMarks
  <1> QED
    BY <1>1, <1>2, <1>3, <1>4, <1>5, WorkKept

(* Code every thread runs for itself.                                      *)
LEMMA OwnConstruct ==
  ASSUME OneTeam, SharesReturned, Regular, StateInv, TeamInv, WorksInv, NEW i \in {0, 1}, Working(i), ShareState,
         ran \in [AllWork(serial) -> {0, 1}], RanState, NEW c \in Team, ConstructStep(c),
         Op(turn[c]) \in {"task", "critical"}
  PROVE  \A k \in 1 .. Length : k = turn[c] => Own(k)'
  <1> DEFINE k == turn[c]
  <1>1. /\ program' = program /\ serial' = serial /\ (\A d \in Team \ {c} : Placed(d))
        /\ pc[c] \in Places /\ Progress(c) = turn[c] /\ turn[c] \in 1 .. Length /\ turn[c] \in Nat /\ Length \in Nat
        /\ \/ Progress(c)' = turn[c]
           \/ Comes(c, turn[c] + 1)
        /\ Advance(c) => Comes(c, turn[c] + 1)
    BY GoesOn
  <1>2. Team' = Team
    BY <1>1, Frozen
  <1>3. Fits(pc[c], k) /\ Own(k) /\ WorkOf(serial, k) = {k} \X Team
    BY <1>1, PlaceFacts, TheWork DEF RanState, RanConstruct
  <1>4. pc[c] \in {"task", "critical", "in_critical"}
    BY <1>1, <1>3 DEF Places, Sharing, Returns, Fits, AtEnd
  <1>5. Task(c) \/ EnterCritical(c) \/ LeaveCritical(c)
    BY <1>4 DEF ConstructStep, Past, LockShare, gomp_work_share_start, Share, Unlock, GOMP_sections_next,
                Loop, Work, Copied, GOMP_barrier, CallBarrier, Step
  <1> SUFFICES ASSUME NEW j \in 1 .. Length, j = turn[c]
               PROVE  Own(j)'
    OBVIOUS
  <1>6. CASE Task(c) \/ LeaveCritical(c)
    <2>1. Ran(c, {c}) /\ Comes(c, turn[c] + 1)
      BY <1>1, <1>6, WorkRuns DEF Task, LeaveCritical
    <2>2. ran'[<<j, c>>] = 1 /\ \A d \in Team \ {c} : ran'[<<j, d>>] = ran[<<j, d>>]
      BY <1>1, <1>3, <2>1, RanFacts
    <2>3. Progress(c)' > j /\ \A d \in Team \ {c} : Progress(d)' = Progress(d)
      BY <1>1, <2>1 DEF Comes, Placed
    <2> QED
      BY <1>2, <1>3, <2>2, <2>3 DEF Own
  <1>7. CASE EnterCritical(c)
    <2>1. ran' = ran /\ turn' = turn
      BY <1>7 DEF EnterCritical, Step
    <2>2. Progress(c)' = Progress(c)
      BY <1>1, <2>1 DEF Comes
    <2> QED
      BY <1>1, <1>2, <1>3, <2>1, <2>2 DEF Own, Placed
  <1> QED
    BY <1>5, <1>6, <1>7

(* The block of a single.                                                  *)
LEMMA OnceConstruct ==
  ASSUME OneTeam, SharesReturned, Regular, StateInv, TeamInv, WorksInv, CheckInv, NEW i \in {0, 1}, Working(i), ShareState,
         ran \in [AllWork(serial) -> {0, 1}], RanState, NEW c \in Team, ConstructStep(c), ShareOp(turn[c])
  PROVE  \A k \in 1 .. Length : k = turn[c] => Once(k)'
  <1> SUFFICES ASSUME NEW k \in 1 .. Length, k = turn[c]
               PROVE  Once(k)'
    OBVIOUS
  <1>1. /\ program' = program /\ serial' = serial /\ (\A d \in Team \ {c} : Placed(d))
        /\ pc[c] \in Places /\ Progress(c) = k /\ k \in Nat /\ Length \in Nat
        /\ \/ Progress(c)' = k
           \/ Comes(c, k + 1)
        /\ Advance(c) => Comes(c, k + 1)
    BY GoesOn
  <1>2. /\ Team' = Team /\ Team \subseteq Cores /\ c \in Cores /\ wake_up_q' = wake_up_q
    BY <1>1, Frozen, TheTeam, ConstructUnchanged
  <1>3. /\ Fits(pc[c], k) /\ At(c).op = Op(k) /\ Going(c) = pc[c] /\ ~ Held(c)
        /\ Once(k) /\ WorkOf(serial, k) = {k} \X {0} /\ ShareOp(k)
    BY <1>1, PlaceFacts, TheWork DEF RanState, RanConstruct
  <1>4. \A d \in Team \ {c} : (Before(d, k)' <=> Before(d, k)) /\ (Doing(d, k)' <=> Doing(d, k))
    BY <1>1, <1>3, PlacedView DEF View
  <1>5. ASSUME ran' = ran, Before(c, k)' <=> Before(c, k), Doing(c, k)' <=> Doing(c, k)
        PROVE  Once(k)'
    <2>1. ((\A d \in Team : Before(d, k))' <=> (\A d \in Team : Before(d, k))) /\
          ((\E d \in Team : Doing(d, k))' <=> (\E d \in Team : Doing(d, k)))
      BY <1>2, <1>4, <1>5
    <2> QED
      BY <1>3, <1>5, <2>1 DEF Once
  <1>6. CASE Past(c)
    <2>1. Comes(c, k + 1) /\ ran' = ran /\ Going(c) = "past"
      BY <1>1, <1>3, <1>6 DEF Past
    <2>2. Progress(c)' = k + 1
      BY <2>1 DEF Comes
    <2> QED
      BY <1>1, <1>5, <2>1, <2>2 DEF Before, Doing
  <1>7. ~ Past(c) => Progress(c)' = k
    BY <1>1, LeavesPast
  <1>8. CASE LockShare(c) \/ gomp_work_share_start(c)
    <2>1. \E to \in {"check", "share"} : Step(c, pc[c], to) /\ after' = after /\ ran' = ran
      BY <1>8 DEF LockShare, gomp_work_share_start, Step
    <2>2. pc'[c] \in {"check", "share"} /\ pc[c] \in {"lock", "check"} /\ ran' = ran
      BY <1>2, <1>8, <2>1 DEF Step, StateInv, LockShare, gomp_work_share_start
    <2>3. Going(c)' \in {"check", "share"} /\ Going(c) \in {"lock", "check"}
      BY <1>3, <2>2 DEF Going, BarrierCode
    <2>4. ~ Past(c)
      BY <2>2 DEF Past
    <2> QED
      BY <1>1, <1>5, <1>7, <2>2, <2>3, <2>4 DEF Before, Doing
  <1>9. CASE Copied(c) \/ GOMP_barrier(c)
    <2>1. pc[c] \in {"copied", "sync"} /\ ran' = ran /\ ~ Past(c)
      BY <1>9 DEF Copied, GOMP_barrier, CallBarrier, Step, Past
    <2>2. Going(c)' \in {"sync", "past"}
      <3>1. Copied(c) => pc'[c] = "sync"
        BY <1>2 DEF Copied, Step, StateInv
      <3>2. GOMP_barrier(c) => pc'[c] = "barrier" /\ after'[c] = "past"
        BY <1>2 DEF GOMP_barrier, CallBarrier, Step, StateInv
      <3> QED
        BY <1>9, <3>1, <3>2 DEF Going, BarrierCode
    <2> QED
      BY <1>1, <1>3, <1>5, <1>7, <2>1, <2>2 DEF Before, Doing
  <1>10. CASE Unlock(c)
    <2>1. pc[c] = "unlock" /\ ran' = ran /\ got' = got /\ ~ Past(c)
      BY <1>10 DEF Unlock, Past, localVars
    <2>2. \/ got[c] = {} /\ pc'[c] = "sync"
          \/ got[c] = {} /\ pc'[c] = "barrier" /\ after'[c] = "copied"
          \/ got[c] # {} /\ pc'[c] = "work"
      BY <1>2, <1>3, <1>10, <2>1 DEF Unlock, ShareOp, Step, CallBarrier, StateInv
    <2>3. \/ got[c] = {} /\ Going(c)' \in {"sync", "copied"}
          \/ got[c] # {} /\ Going(c)' = "work"
      BY <2>2 DEF Going, BarrierCode
    <2> QED
      BY <1>1, <1>3, <1>5, <1>7, <2>1, <2>3 DEF Before, Doing
  <1>11. CASE Work(c)
    <2>1. Ran(c, got[c]) /\ got[c] = {0} /\ pc[c] = "work" /\ ~ Past(c) /\ got' = got
      BY <1>11, WorkRuns DEF Work, Past, localVars
    <2>2. ran'[<<k, 0>>] = 1
      BY <2>1, RanFacts
    <2>3. Going(c)' = "sync"
      <3>1. pc'[c] = "sync" \/ (pc'[c] = "barrier" /\ after'[c] = "sync")
        BY <1>2, <1>3, <1>11, <2>1 DEF Work, ShareOp, Step, CallBarrier, StateInv
      <3> QED
        BY <3>1 DEF Going, BarrierCode
    <2>4. ~ Before(c, k)' /\ ~ Doing(c, k)'
      BY <1>1, <1>7, <2>1, <2>3 DEF Before, Doing
    <2>5. c \in Shared /\ ~ Other(c)
      BY <1>1, <1>3, <2>1 DEF Shared, Counts, Other
    <2>6. Taken(c)
      BY <2>5 DEF ShareState, Taken
    <2>7. ASSUME NEW d \in Team \ {c}, Doing(d, k)
          PROVE  FALSE
      <3>1. d \in Shared
        BY <1>1, <1>3, <2>7 DEF Doing, Shared, Counts
      <3>2. Other(d)
        BY <2>6, <3>1 DEF Taken
      <3> QED
        BY <2>7, <3>2 DEF Other, Doing
    <2>8. ~ (\A d \in Team : Before(d, k)') /\ ~ (\E d \in Team : Doing(d, k)')
      BY <1>4, <2>4, <2>7
    <2> QED
      BY <1>2, <2>2, <2>8 DEF Once
  <1>12. CASE Share(c)
    <2>1. pc[c] = "share" /\ pc'[c] = "unlock" /\ ran' = ran /\ first[c] = ~ works.checkfirst /\ ~ Past(c)
      BY <1>2, <1>3, <1>12 DEF Share, Step, StateInv, CheckInv, ShareOp, Past
    <2>2. got'[c] = IF first[c] THEN {0} ELSE {}
      BY <1>2, <1>3, <1>12 DEF Share, ShareOp, WorksInv
    <2>3. Going(c)' = "unlock" /\ ~ Before(c, k)' /\ Before(c, k) /\ ~ Doing(c, k)
      <3>1. Going(c)' = "unlock"
        BY <2>1 DEF Going, BarrierCode
      <3> QED
        BY <1>1, <1>3, <1>7, <2>1, <3>1 DEF Before, Doing
    <2>4. ~ Counts(c) /\ Depth(c) = 0 /\ works.checkfirst \in BOOLEAN
      BY <1>3, <2>1 DEF Counts, Depth, WorksInv
    <2>5. CASE first[c] = TRUE
      <3>1. works.checkfirst = FALSE
        BY <2>1, <2>4, <2>5
      <3>2. Shared = {}
        BY <2>4, <3>1 DEF ShareState, Taken, Shared
      <3>3. ASSUME NEW d \in Team
            PROVE  Before(d, k)
        <4>1. AtEnd(k) /\ Depth(c) < 2
          BY <1>3, <2>4 DEF ShareOp, AtEnd
        <4>2. Progress(d) <= k /\ (Progress(d) = k => Depth(d) < 2) /\ ThreadFacts(d) /\ ~ Counts(d)
          BY <1>1, <3>2, <4>1, Order, ThreadAt DEF Shared
        <4>3. CASE Progress(d) = k
          <5>1. Going(d) \in Places /\ Fits(Going(d), k)
            BY <4>2, <4>3 DEF ThreadFacts
          <5>2. Going(d) \notin {"unlock", "work", "sync", "copied", "past"}
            BY <1>3, <4>2, <4>3 DEF Counts, Depth
          <5>3. Going(d) \in {"lock", "check", "share"}
            BY <1>3, <5>1, <5>2 DEF Places, Sharing, Returns, Fits, ShareOp
          <5> QED
            BY <4>3, <5>3 DEF Before
        <4>4. CASE Progress(d) # k
          BY <1>1, <4>2, <4>4 DEF Before, ThreadFacts
        <4> QED
          BY <4>3, <4>4
      <3>4. ran[<<k, 0>>] = 0
        BY <1>3, <3>3 DEF Once
      <3>5. Doing(c, k)'
        BY <1>7, <2>1, <2>2, <2>3, <2>5 DEF Doing
      <3> QED
        BY <1>2, <2>1, <3>4, <3>5 DEF Once
    <2>6. CASE first[c] = FALSE
      <3>1. works.checkfirst = TRUE
        BY <2>1, <2>4, <2>6
      <3>2. ~ \E d \in Team : Loose(d)
        BY <1>1, <1>3, <2>4, LooseNone
      <3>3. PICK f \in Shared : Taken(f)
        BY <3>1, <3>2 DEF ShareState
      <3>4. f \in Team /\ Counts(f) /\ f # c
        BY <2>4 DEF Shared
      <3>5. Progress(f) = k
        BY <1>1, <1>3, <2>4, <3>4, SharedTogether
      <3>6. ~ Before(f, k) /\ ~ Before(f, k)'
        BY <1>1, <1>4, <3>4, <3>5 DEF Before, Counts
      <3>7. ~ Doing(c, k)'
        BY <2>2, <2>6 DEF Doing
      <3>8. (\E d \in Team : Doing(d, k)') <=> (\E d \in Team : Doing(d, k))
        BY <1>4, <2>3, <3>7
      <3>9. ~ (\A d \in Team : Before(d, k)') /\ ~ (\A d \in Team : Before(d, k))
        BY <3>4, <3>6
      <3> QED
        BY <1>2, <1>3, <2>1, <3>8, <3>9 DEF Once
    <2> QED
      BY <2>1, <2>4, <2>5, <2>6
  <1>13. pc[c] \in Sharing \cup {"work", "sync", "copied", "past"}
    BY <1>1, <1>3 DEF Fits, ShareOp, Places, Returns
  <1> QED
    BY <1>6, <1>8, <1>9, <1>10, <1>11, <1>12, <1>13
    DEF ConstructStep, GOMP_sections_next, Loop, Task, EnterCritical, LeaveCritical, Step, Sharing

-------------------------------------------------------------------------------
(* Loops and sections.                                                     *)
(* Multiples.                                                              *)
LEMMA Multiple ==
  ASSUME NEW x \in Nat, NEW d \in Nat \ {0}
  PROVE  x % d = 0 <=> \E q \in Nat : x = d * q
  <1>1. x \div d \in Nat /\ x % d \in 0 .. d - 1 /\ x = d * (x \div d) + (x % d)
    BY Z3
  <1>2. ASSUME x % d = 0
        PROVE  \E q \in Nat : x = d * q
    <2> DEFINE p == x \div d
    <2>1. p \in Nat /\ x = d * p
      BY <1>1, <1>2
    <2> HIDE DEF p
    <2> QED
      BY <2>1
  <1>3. ASSUME NEW q \in Nat, x = d * q
        PROVE  x % d = 0
    BY <1>3, Z3
  <1> QED
    BY <1>2, <1>3

(* Multiples of d added to a number.                                       *)
LEMMA MultipleSum ==
  ASSUME NEW x \in Nat, NEW y \in Nat, NEW d \in Nat \ {0}, x % d = 0
  PROVE  (x + y) % d = 0 <=> y % d = 0
  <1>1. PICK p \in Nat : x = d * p
    BY Multiple
  <1>2. ASSUME y % d = 0
        PROVE  (x + y) % d = 0
    <2>1. PICK q \in Nat : y = d * q
      BY <1>2, Multiple
    <2>2. x + y = d * (p + q) /\ p + q \in Nat /\ x + y \in Nat
      BY <1>1, <2>1
    <2> QED
      BY <2>2, Multiple
  <1>3. ASSUME (x + y) % d = 0
        PROVE  y % d = 0
    <2>1. x + y \in Nat
      OBVIOUS
    <2>2. PICK q \in Nat : x + y = d * q
      BY <1>3, <2>1, Multiple
    <2>3. y = d * (q - p)
      BY <1>1, <2>2
    <2>4. q - p \in Nat
      <3>1. SUFFICES ASSUME q < p PROVE FALSE
        OBVIOUS
      <3>2. q - p <= 0 - 1 /\ d * (q - p) <= 0 - d
        BY <3>1
      <3> QED
        BY <2>3, <3>2
    <2> QED
      BY <2>3, <2>4, Multiple
  <1> QED
    BY <1>2, <1>3

(* The iterations of the chunk from next are the iterations of the loop in *)
(* its range.                                                              *)
LEMMA Chunk ==
  ASSUME NEW start \in Int, NEW end \in Int, NEW incr \in Nat \ {0}, NEW chunk \in Nat \ {0}, NEW next \in Int,
         next >= start, (next - start) % incr = 0, next < end, works.end = end
  PROVE  /\ chunk * incr \in Nat \ {0} /\ (next + chunk * incr - start) % incr = 0
         /\ Iterations(next, ChunkEnd(next, chunk * incr), incr) =
              {n \in Iterations(start, end, incr) : next <= n /\ n < next + chunk * incr}
  <1> DEFINE step == chunk * incr
             last == ChunkEnd(next, step)
  <1>1. step \in Nat \ {0}
    OBVIOUS
  <1>2. (next + step - start) % incr = 0
    <2>1. step % incr = 0
      BY <1>1, Multiple
    <2> HIDE DEF step
    <2>2. next - start \in Nat /\ (next - start) + step = next + step - start
      BY <1>1
    <2>3. ((next - start) + step) % incr = 0
      BY <1>1, <2>1, <2>2, MultipleSum
    <2> QED
      BY <2>2, <2>3
  <1> HIDE DEF step
  <1>3. last = IF step > end - next THEN end ELSE next + step
    BY DEF ChunkEnd
  <1>4. last \in Int /\ last <= end /\ last <= next + step /\ (last = end \/ last = next + step)
    BY <1>1, <1>3
  <1> HIDE DEF last
  <1>5. ASSUME NEW n \in Int, n >= next
        PROVE  (n - next) % incr = 0 <=> (n - start) % incr = 0
    <2>1. n - next \in Nat /\ next - start \in Nat /\ (next - start) + (n - next) = n - start
      BY <1>5
    <2>2. ((next - start) + (n - next)) % incr = 0 <=> (n - next) % incr = 0
      BY <2>1, MultipleSum
    <2> QED
      BY <2>1, <2>2
  <1>6. Iterations(next, last, incr) = {n \in next .. last - 1 : (n - next) % incr = 0}
    BY DEF Iterations
  <1>7. Iterations(start, end, incr) = {n \in start .. end - 1 : (n - start) % incr = 0}
    BY DEF Iterations
  <1>8. \A n : n \in next .. last - 1 <=> n \in start .. end - 1 /\ next <= n /\ n < next + step
    BY <1>1, <1>4
  <1>9. Iterations(next, last, incr) = {n \in Iterations(start, end, incr) : next <= n /\ n < next + step}
    <2>1. ASSUME NEW n
          PROVE  n \in Iterations(next, last, incr) <=> n \in Iterations(start, end, incr) /\ next <= n /\ n < next + step
      <3>1. n \in Iterations(next, last, incr) <=> n \in next .. last - 1 /\ (n - next) % incr = 0
        BY <1>6
      <3>2. n \in Iterations(start, end, incr) <=> n \in start .. end - 1 /\ (n - start) % incr = 0
        BY <1>7
      <3>3. n \in next .. last - 1 => n \in Int /\ n >= next
        BY <1>4
      <3> QED
        BY <1>5, <1>8, <3>1, <3>2, <3>3
    <2> QED
      BY <2>1
  <1> QED
    BY <1>1, <1>2, <1>9 DEF step, last

(* What a loop or sections of the region have to do.                       *)
LEMMA SplitIds ==
  ASSUME OneTeam, SharesReturned, Regular, StateInv, NEW k \in 1 .. Length, SplitOp(k)
  PROVE  /\ \A n \in Ids(k) : n \in Int
         /\ Dealt(k) => /\ works.next \in Int /\ works.end \in Int
                        /\ \A n \in Ids(k) : n < works.end
  <1>1. CASE Op(k) = "loop"
    <2>1. Con(k).start \in Int /\ Con(k).end \in Int /\ Con(k).incr \in Nat \ {0}
      BY <1>1, TheSplit
    <2>2. Ids(k) = {n \in Con(k).start .. Con(k).end - 1 : (n - Con(k).start) % Con(k).incr = 0}
      BY <1>1, <2>1 DEF Ids, Iterations
    <2> QED
      BY <1>1, <2>1, <2>2 DEF Dealt
  <1>2. CASE Op(k) = "sections"
    <2>1. Con(k).count \in Nat
      BY <1>2, TheSplit
    <2>2. Ids(k) = 1 .. Con(k).count
      BY <1>2 DEF Ids
    <2> QED
      BY <1>2, <2>1, <2>2 DEF Dealt
  <1> QED
    BY <1>1, <1>2 DEF SplitOp

(* Thread c takes what is between the old and the new next, or runs some   *)
(* of what it has.                                                         *)
LEMMA SplitMoves ==
  ASSUME OneTeam, SharesReturned, Regular, StateInv, program' = program, serial' = serial,
         NEW k \in 1 .. Length, SplitOp(k), Split(k), NEW c \in Team, \A d \in Team \ {c} : View(d, k),
         Open(k), Open(k)', Dealt(k)', works'.next >= works.next, works'.end = works.end,
         NEW done \in SUBSET Has(c, k),
         Has(c, k)' = {n \in Ids(k) : works.next <= n /\ n < works'.next} \cup (Has(c, k) \ done),
         \A n \in done : ran'[<<k, n>>] = 1, \A n \in Ids(k) \ done : ran'[<<k, n>>] = ran[<<k, n>>],
         Over(c, k)' => works'.next >= works'.end
  PROVE  Split(k)'
  <1>1. Team' = Team /\ Op(k)' = Op(k) /\ Con(k)' = Con(k) /\ Ids(k)' = Ids(k)
    BY Frozen DEF Op, Con, Ids
  <1>2. (\A n \in Ids(k) : n \in Int) /\ Dealt(k) /\ works.next \in Int /\ works.end \in Int
    BY SplitIds DEF Split
  <1>3. works'.next \in Int
    BY <1>1, TheSplit DEF Dealt, SplitOp
  <1>4. \A n : (Given(n, k) <=> n < works.next) /\ (Given(n, k)' <=> n < works'.next)
    BY DEF Given
  <1>5. \A d \in Team \ {c} : Has(d, k)' = Has(d, k) /\ (Over(d, k)' <=> Over(d, k))
    BY DEF View
  <1>6. \A d \in Team : \A n \in Has(d, k) : n \in Ids(k) /\ n \in Int /\ n < works.next
    BY <1>2, <1>4 DEF Split
  <1>7. \A d \in Team \ {c} : Has(c, k) \cap Has(d, k) = {}
    BY DEF Split
  <1>8. \A d \in Team : Has(d, k)' \subseteq {n \in Ids(k) : Given(n, k)'}
    BY <1>2, <1>3, <1>4, <1>5, <1>6
  <1>9. \A d \in Team \ {c} : Has(c, k)' \cap Has(d, k)' = {}
    BY <1>2, <1>5, <1>6, <1>7
  <1>10. \A d, e \in Team : d # e => Has(d, k)' \cap Has(e, k)' = {}
    <2>1. \A d, e \in Team \ {c} : d # e => Has(d, k)' \cap Has(e, k)' = {}
      BY <1>5 DEF Split
    <2> QED
      BY <1>9, <2>1
  <1>11. ASSUME NEW n \in Ids(k)
         PROVE  ran'[<<k, n>>] = IF Given(n, k)' /\ (\A d \in Team : n \notin Has(d, k)') THEN 1 ELSE 0
    <2>1. ran[<<k, n>>] = IF Given(n, k) /\ (\A d \in Team : n \notin Has(d, k)) THEN 1 ELSE 0
      BY DEF Split
    <2>2. n \in Int
      BY <1>2
    <2>3. CASE n \in done
      <3>1. n \in Has(c, k) /\ n < works.next /\ ran'[<<k, n>>] = 1
        BY <1>6, <2>3
      <3>2. n \notin Has(c, k)'
        BY <1>2, <2>2, <2>3, <3>1
      <3>3. \A d \in Team \ {c} : n \notin Has(d, k)'
        BY <1>5, <1>7, <3>1
      <3>4. Given(n, k)'
        BY <1>2, <1>3, <1>4, <2>2, <3>1
      <3> QED
        BY <3>1, <3>2, <3>3, <3>4
    <2>4. CASE n \notin done /\ n < works.next
      <3>1. n \in Has(c, k)' <=> n \in Has(c, k)
        BY <1>2, <2>2, <2>4
      <3>2. (\A d \in Team : n \notin Has(d, k)') <=> (\A d \in Team : n \notin Has(d, k))
        BY <1>5, <3>1
      <3>3. Given(n, k) /\ Given(n, k)'
        BY <1>2, <1>3, <1>4, <2>2, <2>4
      <3> QED
        BY <2>1, <2>4, <3>2, <3>3
    <2>5. CASE n \notin done /\ ~ (n < works.next)
      <3>1. ~ Given(n, k) /\ ran'[<<k, n>>] = 0
        BY <1>4, <2>1, <2>5
      <3>2. Given(n, k)' => n \in Has(c, k)'
        BY <1>2, <1>4, <2>2, <2>5
      <3> QED
        BY <3>1, <3>2
    <2> QED
      BY <2>3, <2>4, <2>5
  <1>12. (\E d \in Team : Over(d, k)') => works'.next >= works'.end
    <2>1. (\E d \in Team : Over(d, k)) => works.next >= works.end
      BY DEF Split
    <2> QED
      BY <1>2, <1>3, <1>5, <2>1
  <1> QED
    BY <1>1, <1>8, <1>10, <1>11, <1>12 DEF Split

(* Where thread c is, and where its step in a loop or sections takes it.   *)
LEMMA SplitAt ==
  ASSUME OneTeam, SharesReturned, Regular, StateInv, WorksInv, NEW i \in {0, 1}, Working(i), RanState,
         NEW c \in Team, ConstructStep(c), NEW k \in 1 .. Length, k = turn[c], SplitOp(k)
  PROVE  /\ program' = program /\ serial' = serial /\ Team' = Team /\ Combined' = Combined /\ Op(k)' = Op(k)
         /\ Con(k)' = Con(k) /\ c \in Cores /\ k \in Nat /\ pc[c] \in Places /\ CoreStep(c)
         /\ Progress(c) = k /\ Going(c) = pc[c] /\ Fits(pc[c], k) /\ At(c) = Con(k) /\ Split(k) /\ Marks(k)
         /\ \A d \in Team \ {c} : /\ View(d, k) /\ (Fresh(d, k)' <=> Fresh(d, k)) /\ Has(d, k)' = Has(d, k)
                                  /\ (Progress(d)' >= k <=> Progress(d) >= k)
  <1>1. /\ program' = program /\ serial' = serial /\ (\A d \in Team \ {c} : Placed(d))
        /\ pc[c] \in Places /\ Progress(c) = k /\ k \in Nat
    BY GoesOn
  <1>2. Team' = Team /\ Combined' = Combined /\ Op(k)' = Op(k) /\ Con(k)' = Con(k) /\ c \in Cores
    BY <1>1, Frozen, TheTeam DEF Combined, Op, Con
  <1>3. Going(c) = pc[c] /\ Fits(pc[c], k) /\ At(c) = Con(k)
    BY <1>1, PlaceFacts DEF Con
  <1>4. Split(k) /\ Marks(k)
    BY DEF RanState, RanConstruct
  <1>5. CoreStep(c)
    BY DEF ConstructStep, CoreStep
  <1> QED
    BY <1>1, <1>2, <1>3, <1>4, <1>5, PlacedView

(* Where each step in a loop or in sections takes the thread.              *)
LEMMA SplitGoes ==
  ASSUME OneTeam, SharesReturned, Regular, StateInv, WorksInv, NEW i \in {0, 1}, Working(i), RanState,
         NEW c \in Team, ConstructStep(c), NEW k \in 1 .. Length, k = turn[c], SplitOp(k)
  PROVE  /\ LockShare(c) => pc[c] = "lock" /\ Going(c)' = "check" /\ Progress(c)' = k
         /\ gomp_work_share_start(c) => pc[c] = "check" /\ Going(c)' = "share" /\ Progress(c)' = k
         /\ Share(c) => pc[c] = "share" /\ Going(c)' = "unlock" /\ Progress(c)' = k
         /\ Unlock(c) => /\ pc[c] = "unlock"
                         /\ Op(k) = "loop" => Going(c)' = "loop_start" /\ Progress(c)' = k
                         /\ Op(k) = "sections" /\ got[c] # {} => Going(c)' = "work" /\ Progress(c)' = k
                         /\ Op(k) = "sections" /\ got[c] = {} => Progress(c)' = k + 1
         /\ GOMP_sections_next(c) => pc[c] = "sections_next" /\ Going(c)' = "share" /\ Progress(c)' = k
         /\ Loop(c) => /\ pc[c] \in {"loop_start", "loop_next"} /\ Op(k) = "loop"
                       /\ \/ Going(c)' = "work" /\ Progress(c)' = k
                          \/ Going(c)' = "past" /\ Progress(c)' = k
                          \/ Progress(c)' = k + 1
         /\ Work(c) => pc[c] = "work" /\ Going(c)' \in {"loop_next", "sections_next"} /\ Progress(c)' = k
         /\ Past(c) => pc[c] = "past" /\ Progress(c)' = k + 1
         /\ \/ LockShare(c) \/ gomp_work_share_start(c) \/ Share(c) \/ Unlock(c) \/ GOMP_sections_next(c)
            \/ Loop(c) \/ Work(c) \/ Past(c)
  <1>1. /\ c \in Cores /\ k \in Nat /\ pc[c] \in Places /\ Going(c) = pc[c] /\ Fits(pc[c], k) /\ At(c) = Con(k)
        /\ Op(k) \in {"loop", "sections"} /\ At(c).op = Op(k)
    BY SplitAt, PlaceFacts DEF SplitOp
  <1>2. /\ \/ Progress(c)' = k /\ turn' = turn
           \/ Comes(c, k + 1)
        /\ Advance(c) => Comes(c, k + 1)
    BY GoesOn
  <1>3. /\ turn' = turn => Progress(c)' = k
        /\ Advance(c) => Progress(c)' = k + 1
    BY <1>1, <1>2 DEF Comes
  <1>4. ASSUME NEW from, NEW to \in Places, Step(c, from, to)
        PROVE  pc[c] = from /\ Going(c)' = to /\ Progress(c)' = k
    <2>1. pc[c] = from /\ pc'[c] = to /\ turn' = turn
      BY <1>1, <1>4 DEF Step, StateInv
    <2> QED
      BY <1>3, <2>1 DEF Going, BarrierCode, Places, Sharing, Returns
  <1>5. ASSUME NEW from, NEW ret \in Returns, CallBarrier(c, from, ret)
        PROVE  pc[c] = from /\ Going(c)' = ret /\ Progress(c)' = k
    <2>1. pc[c] = from /\ pc'[c] = "barrier" /\ after'[c] = ret /\ turn' = turn
      BY <1>1, <1>5 DEF CallBarrier, Step, StateInv
    <2> QED
      BY <1>3, <2>1 DEF Going, BarrierCode
  <1>6. {"check", "share", "unlock", "loop_start", "work", "loop_next", "sections_next"} \subseteq Places /\ "past" \in Returns
    BY DEF Places, Sharing, Returns
  <1>7. LockShare(c) => pc[c] = "lock" /\ Going(c)' = "check" /\ Progress(c)' = k
    BY <1>4, <1>6 DEF LockShare
  <1>8. gomp_work_share_start(c) => pc[c] = "check" /\ Going(c)' = "share" /\ Progress(c)' = k
    BY <1>4, <1>6 DEF gomp_work_share_start
  <1>9. Share(c) => pc[c] = "share" /\ Going(c)' = "unlock" /\ Progress(c)' = k
    BY <1>4, <1>6 DEF Share
  <1>10. GOMP_sections_next(c) => pc[c] = "sections_next" /\ Going(c)' = "share" /\ Progress(c)' = k
    BY <1>4, <1>6 DEF GOMP_sections_next
  <1>11. Past(c) => pc[c] = "past" /\ Progress(c)' = k + 1
    BY <1>3 DEF Past
  <1>12. ASSUME Unlock(c)
         PROVE  /\ pc[c] = "unlock"
                /\ Op(k) = "loop" => Going(c)' = "loop_start" /\ Progress(c)' = k
                /\ Op(k) = "sections" /\ got[c] # {} => Going(c)' = "work" /\ Progress(c)' = k
                /\ Op(k) = "sections" /\ got[c] = {} => Progress(c)' = k + 1
    <2>1. /\ pc[c] = "unlock"
          /\ Op(k) = "loop" => Step(c, "unlock", "loop_start")
          /\ Op(k) = "sections" /\ got[c] # {} => Step(c, "unlock", "work")
          /\ Op(k) = "sections" /\ got[c] = {} => Advance(c)
      BY <1>1, <1>12 DEF Unlock
    <2> QED
      BY <1>3, <1>4, <1>6, <2>1
  <1>13. ASSUME Work(c)
         PROVE  pc[c] = "work" /\ Going(c)' \in {"loop_next", "sections_next"} /\ Progress(c)' = k
    <2>1. Step(c, "work", "loop_next") \/ Step(c, "work", "sections_next")
      BY <1>1, <1>13 DEF Work
    <2> QED
      BY <1>4, <1>6, <2>1
  <1>14. ASSUME Loop(c)
         PROVE  /\ pc[c] \in {"loop_start", "loop_next"} /\ Op(k) = "loop"
                /\ \/ Going(c)' = "work" /\ Progress(c)' = k
                   \/ Going(c)' = "past" /\ Progress(c)' = k
                   \/ Progress(c)' = k + 1
    <2>1. pc[c] \in {"loop_start", "loop_next"} /\ Op(k) = "loop"
      BY <1>1, <1>14 DEF Loop, Fits
    <2>2. \E from : Step(c, from, "work") \/ CallBarrier(c, from, "past") \/ Advance(c)
      BY <1>14 DEF Loop, NextChunk, LoopEnd
    <2> QED
      BY <1>3, <1>4, <1>5, <1>6, <2>1, <2>2
  <1>15. \/ LockShare(c) \/ gomp_work_share_start(c) \/ Share(c) \/ Unlock(c) \/ GOMP_sections_next(c)
         \/ Loop(c) \/ Work(c) \/ Past(c)
    BY <1>1 DEF ConstructStep, Copied, GOMP_barrier, CallBarrier, Task, EnterCritical, LeaveCritical, Step, Fits
  <1> QED
    BY <1>7, <1>8, <1>9, <1>10, <1>11, <1>12, <1>13, <1>14, <1>15

(* Thread c knows of the share once it has found it marked or marked it.   *)
LEMMA KnowsShare ==
  ASSUME OneTeam, SharesReturned, Regular, StateInv, WorksInv, NEW i \in {0, 1}, Working(i), RanState,
         NEW c \in Team, ConstructStep(c), NEW k \in 1 .. Length, k = turn[c], SplitOp(k),
         ~ LockShare(c), ~ gomp_work_share_start(c)
  PROVE  ~ Fresh(c, k)' /\ (~ (Share(c) /\ first[c] = TRUE) => ~ Fresh(c, k))
  <1>1. Progress(c) = k /\ Going(c) = pc[c] /\ k \in Nat /\ c \in Cores
    BY SplitAt
  <1>2. ~ Fresh(c, k)'
    <2>1. CASE GOMP_sections_next(c)
      <3>1. first'[c] = FALSE /\ Going(c)' = "share" /\ Progress(c)' = k
        BY <1>1, <2>1, SplitGoes DEF GOMP_sections_next, WorksInv
      <3> QED
        BY <1>1, <3>1 DEF Fresh
    <2>2. CASE Unlock(c)
      <3>1. Progress(c)' = k + 1 \/ (Progress(c)' = k /\ Going(c)' \in {"loop_start", "work"})
        BY <2>2, SplitGoes DEF SplitOp
      <3> QED
        BY <1>1, <3>1 DEF Fresh
    <2>3. CASE Share(c) \/ Loop(c) \/ Work(c) \/ Past(c)
      <3>1. \/ Progress(c)' = k + 1
            \/ Progress(c)' = k /\ Going(c)' \in {"unlock", "work", "past", "loop_next", "sections_next"}
        BY <2>3, SplitGoes
      <3> QED
        BY <1>1, <3>1 DEF Fresh
    <2> QED
      BY <2>1, <2>2, <2>3, SplitGoes
  <1>3. ASSUME ~ (Share(c) /\ first[c] = TRUE)
        PROVE  ~ Fresh(c, k)
    <2>1. pc[c] \notin {"lock", "check"}
      BY SplitGoes
    <2>2. pc[c] = "share" => Share(c)
      BY SplitGoes
    <2> QED
      BY <1>1, <1>3, <2>1, <2>2 DEF Fresh
  <1> QED
    BY <1>2, <1>3

(* The share is marked from the first thread on.                           *)
LEMMA OwnMarks ==
  ASSUME OneTeam, SharesReturned, Regular, StateInv, TeamInv, WorksInv, FirstInv, NEW i \in {0, 1}, Working(i), RanState,
         NEW c \in Team, ConstructStep(c), NEW k \in 1 .. Length, k = turn[c], SplitOp(k)
  PROVE  Marks(k)'
  <1>1. /\ Team' = Team /\ Combined' = Combined /\ c \in Cores /\ k \in Nat /\ CoreStep(c)
        /\ Progress(c) = k /\ Going(c) = pc[c] /\ At(c) = Con(k) /\ Marks(k) /\ Con(k).op = Op(k)
        /\ \A d \in Team \ {c} : (Fresh(d, k)' <=> Fresh(d, k)) /\ (Progress(d)' >= k <=> Progress(d) >= k)
    BY SplitAt DEF Con, Op
  <1> SUFFICES ASSUME ~ Combined
               PROVE  Marks(k)'
    BY <1>1 DEF Marks
  <1>2. /\ LockShare(c) => pc[c] = "lock" /\ Going(c)' = "check" /\ Progress(c)' = k
        /\ gomp_work_share_start(c) => pc[c] = "check" /\ Going(c)' = "share" /\ Progress(c)' = k
        /\ Share(c) => pc[c] = "share" /\ Going(c)' = "unlock" /\ Progress(c)' = k
    BY SplitGoes
  <1>3. CASE LockShare(c)
    <2>1. works'.checkfirst = works.checkfirst
      BY <1>1, <1>2, <1>3, FieldsKept DEF Share, Copied, Step
    <2>2. Fresh(c, k) /\ Fresh(c, k)' /\ Progress(c)' >= k /\ Progress(c) >= k
      BY <1>1, <1>2, <1>3 DEF Fresh
    <2> QED
      BY <1>1, <2>1, <2>2 DEF Marks
  <1>4. CASE gomp_work_share_start(c)
    <2>1. works' = works /\ first'[c] = ~ works.checkfirst /\ works.checkfirst \in BOOLEAN
      BY <1>1, <1>4 DEF gomp_work_share_start, WorksInv
    <2>2. Fresh(c, k) /\ (Fresh(c, k)' <=> works.checkfirst = FALSE) /\ Progress(c)' >= k /\ Progress(c) >= k
      <3>1. /\ pc[c] = "check" /\ Going(c)' = "share" /\ Progress(c)' = k
            /\ (first'[c] = TRUE <=> works.checkfirst = FALSE)
        BY <1>2, <1>4, <2>1
      <3>2. Fresh(c, k)
        BY <1>1, <3>1 DEF Fresh
      <3>3. Fresh(c, k)' <=> first'[c] = TRUE
        BY <1>1, <3>1 DEF Fresh
      <3> QED
        BY <1>1, <3>1, <3>2, <3>3
    <2> QED
      BY <1>1, <2>1, <2>2 DEF Marks
  <1>5. CASE Share(c) /\ first[c] = TRUE
    <2>1. works'.checkfirst = TRUE
      <3>1. Marked(works).checkfirst = TRUE /\ "checkfirst" \in DOMAIN Marked(works)
        BY DEF Marked, WorksInv, Fields
      <3>2. CASE Op(k) = "loop"
        <4>1. works' = gomp_loop_init(Marked(works), Con(k))
          BY <1>1, <1>5, <3>2 DEF Share
        <4> QED
          BY <3>1, <4>1 DEF gomp_loop_init
      <3>3. CASE Op(k) = "sections"
        <4>1. \E n : works' = [gomp_sections_init(Marked(works), Con(k)) EXCEPT !.next = n]
          BY <1>1, <1>5, <3>3 DEF Share
        <4>2. gomp_sections_init(Marked(works), Con(k)).checkfirst = TRUE
          BY <3>1 DEF gomp_sections_init
        <4> QED
          BY <4>1, <4>2
      <3> QED
        BY <3>2, <3>3 DEF SplitOp
    <2>2. ~ Fresh(c, k)'
      BY <1>1, <1>2, <1>5 DEF Fresh
    <2> QED
      BY <1>1, <2>1, <2>2 DEF Marks
  <1>6. CASE ~ LockShare(c) /\ ~ gomp_work_share_start(c) /\ ~ (Share(c) /\ first[c] = TRUE)
    <2>1. ~ Fresh(c, k) /\ ~ Fresh(c, k)'
      BY <1>6, KnowsShare
    <2>3. works'.checkfirst = works.checkfirst
      <3>1. CASE ~ Share(c)
        <4>1. ~ Copied(c)
          BY SplitGoes DEF Copied, Step, LockShare, gomp_work_share_start, Share, Unlock, GOMP_sections_next, Loop, Work, Past
        <4> QED
          BY <1>1, <3>1, <4>1, FieldsKept
      <3>2. CASE Share(c)
        <4>1. first[c] = FALSE
          BY <1>1, <1>2, <1>6, <3>2 DEF FirstInv, WorksInv
        <4>2. works' = works \/ \E n : works' = [works EXCEPT !.next = n]
          <5>1. CASE Op(k) = "loop"
            BY <1>1, <3>2, <4>1, <5>1 DEF Share
          <5>2. CASE Op(k) = "sections"
            BY <1>1, <3>2, <4>1, <5>2 DEF Share
          <5> QED
            BY <5>1, <5>2 DEF SplitOp
        <4>3. ASSUME NEW n, works' = [works EXCEPT !.next = n]
              PROVE  works'.checkfirst = works.checkfirst
          BY <4>3
        <4> QED
          BY <4>2, <4>3
      <3> QED
        BY <3>1, <3>2
    <2> QED
      BY <1>1, <2>1, <2>3 DEF Marks
  <1> QED
    BY <1>3, <1>4, <1>5, <1>6

(* Nothing has been given out while everybody is fresh.                    *)
LEMMA FreshHas ==
  ASSUME NEW k \in 1 .. Length, NEW d, Fresh(d, k), Progress(d) \in Nat
  PROVE  Has(d, k) = {} /\ ~ Over(d, k)
  BY DEF Fresh, Has, Over

(* The first thread sets up the share.                                     *)
LEMMA FirstShare ==
  ASSUME OneTeam, SharesReturned, Regular, StateInv, TeamInv, WorksInv, FirstInv, NEW i \in {0, 1}, Working(i), RanState,
         NEW c \in Team, ConstructStep(c), NEW k \in 1 .. Length, k = turn[c], SplitOp(k), Share(c), first[c] = TRUE
  PROVE  Split(k)'
  <1>1. /\ Team' = Team /\ Combined' = Combined /\ c \in Cores /\ k \in Nat
        /\ Progress(c) = k /\ Going(c) = pc[c] /\ At(c) = Con(k) /\ Marks(k) /\ Con(k).op = Op(k) /\ Split(k)
        /\ program' = program /\ serial' = serial /\ Op(k)' = Op(k) /\ Con(k)' = Con(k)
        /\ \A d \in Team \ {c} : View(d, k) /\ (Fresh(d, k)' <=> Fresh(d, k)) /\ Has(d, k)' = Has(d, k)
    BY SplitAt DEF Con, Op
  <1>2. Ids(k)' = Ids(k)
    BY <1>1 DEF Ids
  <1>3. pc[c] = "share" /\ Going(c)' = "unlock" /\ Progress(c)' = k
    BY SplitGoes
  <1>4. ~ Combined /\ works.checkfirst = FALSE
    BY <1>1, <1>3 DEF FirstInv, WorksInv
  <1>5. \A d \in Team : Fresh(d, k)
    BY <1>4, <1>1 DEF Marks
  <1>6. ~ Open(k)
    BY <1>4, <1>5 DEF Open
  <1>7. \A d \in Team : Has(d, k) = {} /\ ~ Over(d, k)
    BY <1>5, FreshHas, ThreadAt DEF ThreadFacts
  <1>8. \A n \in Ids(k) : ran[<<k, n>>] = 0
    BY <1>1, <1>6 DEF Split, Given
  <1>9. ran' = ran
    BY DEF Share
  <1>10. ~ Fresh(c, k)' /\ Open(k)'
    BY <1>1, <1>3 DEF Fresh, Open
  <1>11. \A d \in Team \ {c} : Has(d, k)' = {} /\ ~ Over(d, k)'
    BY <1>1, <1>7 DEF View
  <1>12. {"next", "end", "incr", "chunk_size"} \subseteq DOMAIN Marked(works)
    BY DEF Marked, WorksInv, Fields
  <1>13. CASE Op(k) = "loop"
    <2>1. works' = gomp_loop_init(Marked(works), Con(k))
      BY <1>1, <1>13 DEF Share
    <2>2. works'.next = Con(k).start /\ works'.end = Con(k).end /\ works'.incr = Con(k).incr /\ works'.chunk_size = Con(k).chunk
      BY <1>12, <2>1 DEF gomp_loop_init
    <2>3. Con(k).start \in Int /\ Con(k).end \in Int /\ Con(k).incr \in Nat \ {0}
      BY <1>13, TheSplit
    <2>4. (Con(k).start - Con(k).start) % Con(k).incr = 0
      BY <2>3
    <2>5. Dealt(k)'
      BY <1>1, <1>13, <2>2, <2>3, <2>4 DEF Dealt
    <2>6. Has(c, k)' = {} /\ ~ Over(c, k)'
      BY <1>1, <1>3, <1>13 DEF Has, Over
    <2>7. Ids(k) = {n \in Con(k).start .. Con(k).end - 1 : (n - Con(k).start) % Con(k).incr = 0}
      BY <1>13, <2>3 DEF Ids, Iterations
    <2>8. \A n \in Ids(k) : ~ Given(n, k)'
      BY <2>2, <2>3, <2>7 DEF Given
    <2> QED
      BY <1>1, <1>2, <1>8, <1>9, <1>11, <2>5, <2>6, <2>8 DEF Split
  <1>14. CASE Op(k) = "sections"
    <2> DEFINE s == gomp_sections_init(Marked(works), Con(k))
               section == IF s.next # s.end THEN {s.next} ELSE {}
    <2>1. works' = [s EXCEPT !.next = @ + Cardinality(section)] /\ got' = [got EXCEPT ![c] = section]
      BY <1>1, <1>14 DEF Share
    <2>2. s.next = 1 /\ s.end = Con(k).count + 1 /\ "next" \in DOMAIN s /\ "end" \in DOMAIN s
      BY <1>12 DEF gomp_sections_init
    <2>3. Con(k).count \in Nat /\ Ids(k) = 1 .. Con(k).count
      BY <1>14, TheSplit DEF Ids
    <2>4. section = IF Con(k).count = 0 THEN {} ELSE {1}
      BY <2>2, <2>3
    <2> HIDE DEF s, section
    <2>5. Cardinality(section) = IF Con(k).count = 0 THEN 0 ELSE 1
      BY <2>4, FS_EmptySet, FS_Singleton
    <2>6. works'.next = 1 + Cardinality(section) /\ works'.end = Con(k).count + 1 /\ got'[c] = section
      BY <1>1, <2>1, <2>2 DEF WorksInv
    <2>7. Dealt(k)'
      BY <1>1, <1>14, <2>3, <2>5, <2>6 DEF Dealt
    <2>8. Has(c, k)' = section /\ (Over(c, k)' => section = {})
      BY <1>1, <1>3, <1>14, <2>6 DEF Has, Over
    <2>9. \A n \in Ids(k) : Given(n, k)' <=> n = 1
      BY <1>10, <2>3, <2>5, <2>6 DEF Given
    <2>10. \A n \in Ids(k) : n = 1 => n \in Has(c, k)'
      BY <2>3, <2>4, <2>8
    <2>11. section \subseteq {n \in Ids(k) : Given(n, k)'}
      BY <2>3, <2>4, <2>9
    <2>12. section = {} => works'.next >= works'.end
      <3>1. section = {} => Con(k).count = 0
        BY <2>4
      <3>2. Con(k).count = 0 => works'.next = 1 /\ works'.end = 1
        BY <2>3, <2>5, <2>6
      <3> QED
        BY <3>1, <3>2
    <2>13. \A n \in Ids(k) : ran'[<<k, n>>] = IF Given(n, k)' /\ (\A d \in Team : n \notin Has(d, k)') THEN 1 ELSE 0
      BY <1>8, <1>9, <2>9, <2>10
    <2>14. \A d, e \in Team : d # e => Has(d, k)' \cap Has(e, k)' = {}
      BY <1>11
    <2>15. \A d \in Team : Has(d, k)' \subseteq {n \in Ids(k) : Given(n, k)'}
      BY <1>11, <2>8, <2>11
    <2> QED
      BY <1>1, <1>2, <1>11, <2>7, <2>8, <2>12, <2>13, <2>14, <2>15 DEF Split
  <1> QED
    BY <1>13, <1>14 DEF SplitOp

(* A share that is open stays open.                                        *)
LEMMA OpenStays ==
  ASSUME OneTeam, SharesReturned, Regular, StateInv, TeamInv, WorksInv, FirstInv, NEW i \in {0, 1}, Working(i), RanState,
         NEW c \in Team, ConstructStep(c), NEW k \in 1 .. Length, k = turn[c], SplitOp(k), ~ LockShare(c),
         gomp_work_share_start(c) => works.checkfirst = TRUE, ~ (Share(c) /\ first[c] = TRUE)
  PROVE  Open(k) /\ Open(k)'
  <1>1. /\ Team' = Team /\ Combined' = Combined /\ c \in Cores /\ k \in Nat /\ Marks(k) /\ Going(c) = pc[c]
        /\ Progress(c) = k /\ \A d \in Team \ {c} : Fresh(d, k)' <=> Fresh(d, k)
    BY SplitAt
  <1>2. CASE Combined
    BY <1>1, <1>2 DEF Open
  <1>3. CASE ~ Combined /\ ~ gomp_work_share_start(c)
    BY <1>1, <1>3, KnowsShare DEF Open
  <1>4. CASE ~ Combined /\ gomp_work_share_start(c)
    <2>1. pc[c] = "check"
      BY <1>4, SplitGoes
    <2>2. Fresh(c, k) /\ Progress(c) >= k
      BY <1>1, <2>1 DEF Fresh
    <2>3. ~ \A d \in Team : Fresh(d, k)
      BY <1>1, <1>4, <2>2 DEF Marks
    <2> QED
      BY <1>1, <2>2, <2>3 DEF Open
  <1> QED
    BY <1>2, <1>3, <1>4

(* Thread c moves on, or runs what it has.                                 *)
LEMMA QuietSplit ==
  ASSUME OneTeam, SharesReturned, Regular, StateInv, TeamInv, WorksInv, FirstInv, NEW i \in {0, 1}, Working(i), ShareState,
         ran \in [AllWork(serial) -> {0, 1}], RanState,
         NEW c \in Team, ConstructStep(c), NEW k \in 1 .. Length, k = turn[c], SplitOp(k),
         \/ gomp_work_share_start(c) /\ works.checkfirst = TRUE
         \/ GOMP_sections_next(c) \/ Unlock(c) \/ Past(c) \/ Work(c)
         \/ Share(c) /\ first[c] = FALSE /\ Op(k) = "loop"
  PROVE  Split(k)'
  <1>1. /\ Team' = Team /\ c \in Cores /\ k \in Nat /\ Going(c) = pc[c] /\ program' = program /\ serial' = serial
        /\ Progress(c) = k /\ At(c) = Con(k) /\ Con(k).op = Op(k) /\ Split(k) /\ Op(k)' = Op(k)
        /\ \A d \in Team \ {c} : View(d, k)
    BY SplitAt DEF Con, Op
  <1>2. ~ LockShare(c) /\ (gomp_work_share_start(c) => works.checkfirst = TRUE) /\ ~ (Share(c) /\ first[c] = TRUE) /\ ~ Loop(c)
    BY DEF LockShare, gomp_work_share_start, GOMP_sections_next, Unlock, Past, Work, Share, Loop, Step
  <1>3. Open(k) /\ Open(k)'
    BY <1>2, OpenStays
  <1>4. SameDeal
    <2>1. CASE Share(c) /\ Op(k) = "loop"
      <3>1. first[c] = FALSE
        BY <2>1 DEF gomp_work_share_start, GOMP_sections_next, Unlock, Past, Work, Share, Step
      <3>2. works' = works
        BY <1>1, <2>1, <3>1 DEF Share
      <3> QED
        BY <3>2 DEF SameDeal
    <2>2. CASE ~ (Share(c) /\ Op(k) = "loop")
      <3>1. ~ Share(c)
        BY <2>2 DEF gomp_work_share_start, GOMP_sections_next, Unlock, Past, Work, Share, Step
      <3> QED
        BY <1>2, <3>1, DealKept
    <2> QED
      BY <2>1, <2>2
  <1>5. Dealt(k) /\ Dealt(k)' /\ works.next \in Int /\ \A n \in Ids(k) : n \in Int
    BY <1>1, <1>3, <1>4, DealtSame, SplitIds DEF Split
  <1>6. {n \in Ids(k) : works.next <= n /\ n < works'.next} = {}
    BY <1>4, <1>5 DEF SameDeal
  <1>7. Has(c, k) \subseteq Ids(k)
    BY <1>1 DEF Split
  <1>8. Over(c, k) => works.next >= works.end
    BY <1>1 DEF Split
  <1>9. works'.next >= works.next /\ works'.end = works.end /\ (Over(c, k) => works'.next >= works'.end)
    BY <1>4, <1>5, <1>8 DEF SameDeal
  <1>10. CASE Work(c)
    <2>1. pc[c] = "work" /\ Going(c)' \in {"loop_next", "sections_next"} /\ Progress(c)' = k /\ Ran(c, got[c])
      BY <1>10, SplitGoes, WorkRuns
    <2>2. Has(c, k) = got[c] /\ Has(c, k)' = {} /\ ~ Over(c, k)'
      BY <1>1, <2>1 DEF Has, Over
    <2>3. WorkOf(serial, k) = {k} \X Ids(k)
      BY TheWork
    <2>4. (\A n \in got[c] : ran'[<<k, n>>] = 1) /\ \A n \in Ids(k) \ got[c] : ran'[<<k, n>>] = ran[<<k, n>>]
      BY <2>1, <2>3, RanFacts
    <2>5. Has(c, k)' = {n \in Ids(k) : works.next <= n /\ n < works'.next} \cup (Has(c, k) \ Has(c, k))
      BY <1>6, <2>2
    <2> QED
      BY <1>1, <1>3, <1>5, <1>9, <2>2, <2>4, <2>5, SplitMoves
  <1>11. CASE ~ Work(c)
    <2>1. ran' = ran /\ got' = got
      BY <1>1, <1>11 DEF gomp_work_share_start, GOMP_sections_next, Unlock, Past, Share, localVars
    <2>2. Has(c, k)' = Has(c, k) /\ (Over(c, k)' => Over(c, k))
      <3>1. CASE gomp_work_share_start(c)
        <4>1. pc[c] = "check" /\ Going(c)' = "share" /\ Progress(c)' = k
          BY <3>1, SplitGoes
        <4> QED
          BY <1>1, <4>1 DEF Has, Over
      <3>2. CASE GOMP_sections_next(c)
        <4>1. pc[c] = "sections_next" /\ Going(c)' = "share" /\ Progress(c)' = k
          BY <3>2, SplitGoes
        <4> QED
          BY <1>1, <4>1 DEF Has, Over
      <3>3. CASE Past(c)
        <4>1. pc[c] = "past" /\ Progress(c)' = k + 1
          BY <3>3, SplitGoes
        <4> QED
          BY <1>1, <4>1 DEF Has, Over
      <3>4. CASE Share(c) /\ Op(k) = "loop"
        <4>1. pc[c] = "share" /\ Going(c)' = "unlock" /\ Progress(c)' = k
          BY <3>4, SplitGoes
        <4> QED
          BY <1>1, <3>4, <4>1 DEF Has, Over
      <3>5. CASE Unlock(c)
        <4>1. /\ pc[c] = "unlock"
              /\ Op(k) = "loop" => Going(c)' = "loop_start" /\ Progress(c)' = k
              /\ Op(k) = "sections" /\ got[c] # {} => Going(c)' = "work" /\ Progress(c)' = k
              /\ Op(k) = "sections" /\ got[c] = {} => Progress(c)' = k + 1
          BY <3>5, SplitGoes
        <4>2. CASE Op(k) = "loop"
          BY <1>1, <4>1, <4>2 DEF Has, Over
        <4>3. CASE Op(k) = "sections" /\ got[c] # {}
          BY <1>1, <2>1, <4>1, <4>3 DEF Has, Over
        <4>4. CASE Op(k) = "sections" /\ got[c] = {}
          BY <1>1, <4>1, <4>4 DEF Has, Over
        <4> QED
          BY <4>2, <4>3, <4>4 DEF SplitOp
      <3> QED
        BY <1>11, <3>1, <3>2, <3>3, <3>4, <3>5
    <2>3. Has(c, k)' = {n \in Ids(k) : works.next <= n /\ n < works'.next} \cup (Has(c, k) \ {})
      BY <1>6, <2>2
    <2>4. (\A n \in {} : ran'[<<k, n>>] = 1) /\ (\A n \in Ids(k) \ {} : ran'[<<k, n>>] = ran[<<k, n>>]) /\ {} \in SUBSET Has(c, k)
      BY <2>1
    <2> QED
      BY <1>1, <1>3, <1>5, <1>9, <2>2, <2>3, <2>4, SplitMoves
  <1> QED
    BY <1>10, <1>11

(* Another thread takes a section, or finds none left.                     *)
LEMMA SectionShare ==
  ASSUME OneTeam, SharesReturned, Regular, StateInv, TeamInv, WorksInv, FirstInv, NEW i \in {0, 1}, Working(i), RanState,
         NEW c \in Team, ConstructStep(c), NEW k \in 1 .. Length, k = turn[c], Op(k) = "sections", Share(c), first[c] = FALSE
  PROVE  Split(k)'
  <1>0. SplitOp(k)
    BY DEF SplitOp
  <1>1. /\ Team' = Team /\ c \in Cores /\ k \in Nat /\ Going(c) = pc[c] /\ program' = program /\ serial' = serial
        /\ Progress(c) = k /\ At(c) = Con(k) /\ Con(k).op = Op(k) /\ Split(k) /\ Op(k)' = Op(k) /\ Con(k)' = Con(k)
        /\ \A d \in Team \ {c} : View(d, k)
    BY <1>0, SplitAt DEF Con, Op
  <1>2. Open(k) /\ Open(k)'
    BY <1>0, OpenStays DEF Share, LockShare, gomp_work_share_start, Step
  <1>3. pc[c] = "share" /\ Going(c)' = "unlock" /\ Progress(c)' = k
    BY <1>0, SplitGoes
  <1>4. Con(k).count \in Nat /\ Ids(k) = 1 .. Con(k).count /\ works.end = Con(k).count + 1 /\ works.next \in 1 .. Con(k).count + 1
    BY <1>0, <1>1, <1>2, TheSplit DEF Ids, Split, Dealt
  <1> DEFINE section == IF works.next # works.end THEN {works.next} ELSE {}
  <1>5. works' = [works EXCEPT !.next = @ + Cardinality(section)] /\ got' = [got EXCEPT ![c] = section] /\ ran' = ran
    BY <1>1 DEF Share
  <1>6. Cardinality(section) = IF works.next # works.end THEN 1 ELSE 0
    BY FS_EmptySet, FS_Singleton
  <1>7. works'.next = works.next + Cardinality(section) /\ works'.end = works.end /\ got'[c] = section
    BY <1>1, <1>5 DEF WorksInv, Fields
  <1>8. Has(c, k) = {} /\ Has(c, k)' = section /\ (Over(c, k)' => section = {})
    BY <1>1, <1>3, <1>7 DEF Has, Over
  <1>9. section = {n \in Ids(k) : works.next <= n /\ n < works'.next}
    BY <1>4, <1>6, <1>7
  <1>10. section = {} => works.next = works.end
    OBVIOUS
  <1> HIDE DEF section
  <1>11. Dealt(k)'
    BY <1>1, <1>4, <1>6, <1>7 DEF Dealt
  <1>12. works'.next >= works.next /\ (Over(c, k)' => works'.next >= works'.end)
    BY <1>4, <1>6, <1>7, <1>8, <1>10
  <1>13. Has(c, k)' = {n \in Ids(k) : works.next <= n /\ n < works'.next} \cup (Has(c, k) \ {})
    BY <1>8, <1>9
  <1>14. (\A n \in {} : ran'[<<k, n>>] = 1) /\ (\A n \in Ids(k) \ {} : ran'[<<k, n>>] = ran[<<k, n>>]) /\ {} \in SUBSET Has(c, k)
    BY <1>5
  <1> QED
    BY <1>0, <1>1, <1>2, <1>7, <1>11, <1>12, <1>13, <1>14, SplitMoves

(* The next of a loop stays on its iterations.                             *)
LEMMA ChunkStep ==
  ASSUME NEW chunk \in Nat \ {0}, NEW incr \in Nat \ {0}, NEW x \in Nat, x % incr = 0
  PROVE  chunk * incr \in Nat \ {0} /\ (x + chunk * incr) % incr = 0
  <1> DEFINE step == chunk * incr
  <1>1. step \in Nat \ {0}
    OBVIOUS
  <1>2. step % incr = 0
    BY <1>1, Multiple
  <1> HIDE DEF step
  <1>3. (x + step) % incr = 0
    BY <1>1, <1>2, MultipleSum
  <1> QED
    BY <1>1, <1>3 DEF step

(* A thread takes a chunk of a loop, or finds that it is over.             *)
LEMMA LoopSplit ==
  ASSUME OneTeam, SharesReturned, Regular, StateInv, TeamInv, WorksInv, FirstInv, NEW i \in {0, 1}, Working(i), RanState,
         NEW c \in Team, ConstructStep(c), NEW k \in 1 .. Length, k = turn[c], SplitOp(k), Loop(c)
  PROVE  Split(k)'
  <1>1. /\ Team' = Team /\ c \in Cores /\ k \in Nat /\ Going(c) = pc[c] /\ program' = program /\ serial' = serial
        /\ Progress(c) = k /\ At(c) = Con(k) /\ Con(k).op = Op(k) /\ Split(k) /\ Op(k)' = Op(k) /\ Con(k)' = Con(k)
        /\ \A d \in Team \ {c} : View(d, k)
    BY SplitAt DEF Con, Op
  <1>2. pc[c] \in {"loop_start", "loop_next"} /\ Op(k) = "loop"
    BY SplitGoes
  <1>3. Open(k) /\ Open(k)'
    BY <1>2, OpenStays DEF Share, LockShare, gomp_work_share_start, Step
  <1> DEFINE x == Con(k)
             step == x.chunk * x.incr
  <1>4. x.start \in Int /\ x.end \in Int /\ x.incr \in Nat \ {0} /\ x.chunk \in Nat \ {0} /\ Ids(k) = Iterations(x.start, x.end, x.incr)
    BY <1>2, TheSplit DEF Ids
  <1>5. /\ works.end = x.end /\ works.incr = x.incr /\ works.chunk_size = x.chunk
        /\ works.next \in Int /\ works.next >= x.start /\ (works.next - x.start) % x.incr = 0 /\ Dealt(k)
    BY <1>1, <1>2, <1>3 DEF Split, Dealt
  <1>6. \E from : NextChunk(c, from, step) \/ LoopEnd(c, from, step)
    BY <1>1, <1>5 DEF Loop
  <1>7. step \in Nat \ {0} /\ ((works.next - x.start) + step) % x.incr = 0
    <2>1. works.next - x.start \in Nat /\ x.chunk \in Nat \ {0} /\ x.incr \in Nat \ {0}
      BY <1>4, <1>5
    <2>2. (works.next - x.start) % x.incr = 0
      BY <1>5
    <2> HIDE DEF x
    <2> QED
      BY <2>1, <2>2, ChunkStep
  <1> HIDE DEF step
  <1>8. works' = [works EXCEPT !.next = @ + step] /\ ran' = ran
    BY <1>6 DEF NextChunk, LoopEnd
  <1>9. /\ works'.next = works.next + step /\ works'.end = works.end /\ works'.incr = works.incr
        /\ works'.chunk_size = works.chunk_size
    BY <1>8 DEF WorksInv, Fields
  <1>10. (works'.next - x.start) % x.incr = 0
    <2>1. works.next - x.start \in Nat /\ works'.next - x.start = (works.next - x.start) + step
      BY <1>4, <1>5, <1>7, <1>9
    <2> QED
      BY <1>7, <2>1
  <1>11. Dealt(k)' /\ works'.next >= works.next
    BY <1>1, <1>2, <1>4, <1>5, <1>7, <1>9, <1>10 DEF Dealt
  <1>12. Has(c, k) = {}
    BY <1>1, <1>2 DEF Has
  <1>13. /\ (\A n \in {} : ran'[<<k, n>>] = 1) /\ (\A n \in Ids(k) \ {} : ran'[<<k, n>>] = ran[<<k, n>>])
         /\ {} \in SUBSET Has(c, k)
    BY <1>8
  <1>14. ASSUME NEW from, NextChunk(c, from, step)
         PROVE  Split(k)'
    <2>1. /\ works.next < works.end /\ got'[c] = Iterations(works.next, ChunkEnd(works.next, step), x.incr)
          /\ Step(c, from, "work")
      BY <1>1, <1>14 DEF NextChunk, WorksInv
    <2>2. pc'[c] = "work" /\ turn' = turn
      BY <1>1, <2>1 DEF Step, StateInv
    <2>3. Going(c)' = "work"
      BY <2>2 DEF Going, BarrierCode
    <2>4. Progress(c)' = k
      BY <1>1, <2>2, GoesOn DEF Comes
    <2>5. Has(c, k)' = got'[c] /\ ~ Over(c, k)'
      BY <1>1, <1>2, <2>3, <2>4 DEF Has, Over
    <2>6. got'[c] = {n \in Ids(k) : works.next <= n /\ n < works'.next}
      BY <1>4, <1>5, <1>9, <2>1, Chunk DEF step
    <2>7. Has(c, k)' = {n \in Ids(k) : works.next <= n /\ n < works'.next} \cup (Has(c, k) \ {})
      BY <1>12, <2>5, <2>6
    <2> QED
      BY <1>1, <1>3, <1>9, <1>11, <1>13, <2>5, <2>7, SplitMoves
  <1>15. ASSUME NEW from, LoopEnd(c, from, step)
         PROVE  Split(k)'
    <2>1. works.next >= works.end /\ (CallBarrier(c, from, "past") \/ Advance(c))
      BY <1>15 DEF LoopEnd
    <2>2. \/ Going(c)' = "past" /\ Progress(c)' = k
          \/ Progress(c)' = k + 1
      <3>1. CASE CallBarrier(c, from, "past")
        <4>1. pc'[c] = "barrier" /\ after'[c] = "past" /\ turn' = turn
          BY <1>1, <3>1 DEF CallBarrier, Step, StateInv
        <4>2. Progress(c)' = k
          BY <1>1, <4>1, GoesOn DEF Comes
        <4> QED
          BY <4>1, <4>2 DEF Going, BarrierCode
      <3>2. CASE Advance(c)
        <4>1. Comes(c, k + 1)
          BY <3>2, GoesOn
        <4> QED
          BY <4>1 DEF Comes
      <3> QED
        BY <2>1, <3>1, <3>2
    <2>3. Has(c, k)' = {}
      BY <1>1, <2>2 DEF Has
    <2>4. \A n \in Ids(k) : n \in Int /\ n < works.end
      BY <1>5, SplitIds
    <2>5. {n \in Ids(k) : works.next <= n /\ n < works'.next} = {}
      BY <1>4, <1>5, <2>1, <2>4
    <2>6. works'.next >= works'.end
      BY <1>4, <1>5, <1>7, <1>9, <2>1
    <2>7. Has(c, k)' = {n \in Ids(k) : works.next <= n /\ n < works'.next} \cup (Has(c, k) \ {})
      BY <1>12, <2>3, <2>5
    <2> QED
      BY <1>1, <1>3, <1>9, <1>11, <1>13, <2>6, <2>7, SplitMoves
  <1> QED
    BY <1>6, <1>14, <1>15

(* The loop or the sections that thread c is in.                           *)
LEMMA SplitConstruct ==
  ASSUME OneTeam, SharesReturned, Regular, StateInv, TeamInv, WorksInv, FirstInv, NEW i \in {0, 1}, Working(i), ShareState,
         ran \in [AllWork(serial) -> {0, 1}], RanState,
         NEW c \in Team, ConstructStep(c), NEW k \in 1 .. Length, k = turn[c], SplitOp(k)
  PROVE  Split(k)' /\ Marks(k)'
  <1>1. /\ Team' = Team /\ c \in Cores /\ k \in Nat /\ Going(c) = pc[c] /\ program' = program /\ serial' = serial
        /\ Progress(c) = k /\ Op(k)' = Op(k) /\ Combined' = Combined
        /\ \A d \in Team \ {c} : View(d, k)
    BY SplitAt
  <1>2. Marks(k)'
    BY OwnMarks
  <1>3. SplitOp(k)' /\ ~ ShareOp(k)
    BY <1>1 DEF SplitOp, ShareOp
  <1>4. CASE LockShare(c) \/ (gomp_work_share_start(c) /\ works.checkfirst = FALSE)
    <2>1. pc[c] \in {"lock", "check"} /\ Going(c)' \in {"check", "share"} /\ Progress(c)' = k
      BY <1>4, SplitGoes
    <2>2. Fresh(c, k) /\ Fresh(c, k)'
      <3>1. CASE LockShare(c)
        BY <1>1, <3>1, SplitGoes DEF Fresh
      <3>2. CASE gomp_work_share_start(c) /\ works.checkfirst = FALSE
        <4>1. first'[c] = TRUE
          BY <1>1, <3>2 DEF gomp_work_share_start, WorksInv
        <4> QED
          BY <1>1, <2>1, <4>1 DEF Fresh
      <3> QED
        BY <1>4, <3>1, <3>2
    <2>3. Has(c, k) = {} /\ Has(c, k)' = {} /\ ~ Over(c, k) /\ ~ Over(c, k)'
      BY <1>1, <2>1 DEF Has, Over
    <2>4. View(c, k)
      BY <1>1, <1>3, <2>1, <2>2, <2>3 DEF View
    <2>5. SameDeal
      BY <1>4, DealKept DEF Share, Loop, LockShare, gomp_work_share_start, Step
    <2>6. ran' = ran /\ RanConstruct(k)
      BY <1>4 DEF LockShare, gomp_work_share_start, RanState
    <2>7. RanConstruct(k)'
      BY <1>1, <1>2, <2>4, <2>5, <2>6, WorkKept
    <2> QED
      BY <1>3, <2>7 DEF RanConstruct
  <1>5. CASE ~ LockShare(c) /\ ~ (gomp_work_share_start(c) /\ works.checkfirst = FALSE)
    <2>1. works.checkfirst \in BOOLEAN
      BY DEF WorksInv
    <2>2. CASE Share(c)
      <3>1. first[c] \in BOOLEAN
        BY <1>1, <2>1, <2>2, SplitGoes DEF FirstInv
      <3>2. CASE first[c] = TRUE
        BY <1>2, <2>2, <3>2, FirstShare
      <3>3. CASE first[c] = FALSE /\ Op(k) = "sections"
        BY <1>2, <2>2, <3>3, SectionShare
      <3>4. CASE first[c] = FALSE /\ Op(k) = "loop"
        BY <1>2, <2>2, <3>4, QuietSplit
      <3> QED
        BY <3>1, <3>2, <3>3, <3>4 DEF SplitOp
    <2>3. CASE Loop(c)
      BY <1>2, <2>3, LoopSplit
    <2>4. CASE ~ Share(c) /\ ~ Loop(c)
      <3>1. \/ gomp_work_share_start(c) /\ works.checkfirst = TRUE
            \/ GOMP_sections_next(c) \/ Unlock(c) \/ Past(c) \/ Work(c)
        BY <1>5, <2>1, <2>4, SplitGoes
      <3> QED
        BY <1>2, <3>1, QuietSplit
    <2> QED
      BY <2>2, <2>3, <2>4
  <1> QED
    BY <1>4, <1>5

(* A step of a construct keeps what has been run in step with the threads. *)
LEMMA ConstructRan ==
  ASSUME OneTeam, SharesReturned, Regular, StateInv, TeamInv, WorksInv, CheckInv, FirstInv, NEW i \in {0, 1}, Working(i),
         ShareState, ran \in [AllWork(serial) -> {0, 1}], RanState, NEW c \in Team, ConstructStep(c)
  PROVE  RanState' /\ ran' \in [AllWork(serial) -> {0, 1}]
  <1>1. program' = program /\ serial' = serial /\ turn[c] \in 1 .. Length
    BY GoesOn
  <1>2. Length' = Length
    BY <1>1, Frozen
  <1>3. ASSUME NEW k \in 1 .. Length, k = turn[c]
        PROVE  RanConstruct(k)'
    <2>1. Op(k)' = Op(k) /\ (ShareOp(k)' <=> ShareOp(k)) /\ (SplitOp(k)' <=> SplitOp(k))
      BY <1>1 DEF Op, ShareOp, SplitOp
    <2>2. Op(k) \in {"task", "critical"} => Own(k)'
      BY <1>3, OwnConstruct
    <2>3. ShareOp(k) => Once(k)'
      BY <1>3, OnceConstruct
    <2>4. SplitOp(k) => Split(k)' /\ Marks(k)'
      BY <1>3, SplitConstruct
    <2> QED
      BY <2>1, <2>2, <2>3, <2>4 DEF RanConstruct
  <1>4. \A k \in 1 .. Length : RanConstruct(k)'
    BY <1>3, OtherConstruct
  <1>5. ran' \in [AllWork(serial) -> {0, 1}]
    BY StepRuns
  <1> QED
    BY <1>2, <1>4, <1>5 DEF RanState

-------------------------------------------------------------------------------
(* The other steps.                                                        *)

(* Nobody moves from a place of a construct to another.                    *)
LEMMA QuietRan ==
  ASSUME OneTeam, StateInv, program' = program, serial' = serial, works' = works, ran' = ran, RanState,
         \A d \in Team : Placed(d)
  PROVE  RanState'
  <1>1. Team' = Team /\ Length' = Length /\ Combined' = Combined
    BY Frozen DEF Combined
  <1>2. ASSUME NEW k \in 1 .. Length
        PROVE  RanConstruct(k)'
    <2>1. \A d \in Team : View(d, k) /\ (Progress(d)' >= k <=> Progress(d) >= k) /\ (Fresh(d, k)' <=> Fresh(d, k))
      BY PlacedView
    <2>2. RanConstruct(k) /\ SameDeal
      BY DEF RanState, SameDeal
    <2>3. SplitOp(k) => Marks(k)'
      BY <1>1, <2>1, <2>2 DEF Marks, RanConstruct
    <2> QED
      BY <2>1, <2>2, <2>3, WorkKept
  <1> QED
    BY <1>1, <1>2 DEF RanState

(* WFI, the barrier and the end of the region run no work.                 *)
LEMMA RestRan ==
  ASSUME OneTeam, StateInv, NEW i \in {0, 1}, Working(i), RanState, NEW c \in Team, Resting(c) \/ Release(c)
  PROVE  RanState' /\ ran' = ran /\ serial' = serial
  <1>1. /\ program' = program /\ serial' = serial /\ works' = works /\ got' = got /\ first' = first /\ ran' = ran
    BY DEF Resting, Release, Wfi, BarrierInit, BarrierInitWake, FetchAdd, Clear, TaskEnd, localVars
  <1>2. ASSUME NEW d \in Team
        PROVE  Placed(d)
    <2>1. CASE Resting(c)
      BY <1>1, <2>1, RestingSame DEF Same, Placed
    <2>2. CASE Release(c)
      BY <1>1, <2>2, ReleaseOpens DEF Placed
    <2> QED
      BY <2>1, <2>2
  <1> QED
    BY <1>1, <1>2, QuietRan

(* A thread begins the region.                                             *)
LEMMA BeginRan ==
  ASSUME OneTeam, SharesReturned, Regular, StateInv, NEW i \in {0, 1}, Working(i), ShareState, RanState,
         NEW c \in Team, run_task(c)
  PROVE  RanState' /\ ran' = ran /\ serial' = serial
  <1>1. /\ program' = program /\ serial' = serial /\ works' = works /\ got' = got /\ first' = first /\ ran' = ran
        /\ after' = after /\ wake_up_q' = wake_up_q /\ pc[c] = "run_task" /\ Goto(c, event.fn, 1)
    BY DEF run_task, localVars
  <1>2. event.fn = serial /\ Length \in Nat /\ Team' = Team /\ Length' = Length /\ Combined' = Combined /\ Team \subseteq Cores
    BY <1>1, TheTeam, Frozen DEF Working, Combined
  <1>3. Alone(c) /\ Comes(c, 1)
    BY <1>1, <1>2, GotoTo
  <1>4. Going(c) = "run_task" /\ ~ Ended(c)
    BY <1>1 DEF Going, Ended, BarrierCode
  <1>5. Progress(c) = 0 /\ Progress(c)' = 1
    BY <1>3, <1>4 DEF Progress, Comes
  <1>6. \A d \in Team \ {c} : Placed(d)
    BY <1>1, <1>2, <1>3, OthersSame DEF Same, Placed
  <1>7. ASSUME NEW k \in 1 .. Length
        PROVE  RanConstruct(k)'
    <2>1. \A d \in Team \ {c} : View(d, k) /\ (Progress(d)' >= k <=> Progress(d) >= k) /\ (Fresh(d, k)' <=> Fresh(d, k))
      BY <1>1, <1>6, PlacedView
    <2>2. RanConstruct(k) /\ SameDeal
      BY <1>1 DEF RanState, SameDeal
    <2>3. View(c, k)
      <3>1. CASE k = 1
        BY <1>1, <1>3, <1>5, <3>1, ComesView
      <3>2. CASE k # 1
        BY <1>1, <1>2, <1>5, <3>2, AwayView
      <3> QED
        BY <3>1, <3>2
    <2>4. ASSUME SplitOp(k), ~ Combined
          PROVE  Marks(k)'
      <3>1. Marks(k) /\ Fresh(c, k) /\ Fresh(c, k)'
        BY <1>2, <1>5, <2>2, <2>3, <2>4 DEF RanConstruct, Fresh, View
      <3>2. CASE \E d \in Team : Progress(d) >= k
        BY <1>1, <1>2, <2>1, <2>4, <3>1, <3>2 DEF Marks
      <3>3. CASE \A d \in Team : ~ (Progress(d) >= k)
        <4>1. \A d \in Team : Progress(d) < k
          BY <1>2, <3>3, ThreadAt DEF ThreadFacts
        <4>2. \A d \in Team : Fresh(d, k)
          BY <4>1 DEF Fresh
        <4>3. k = 1 => works.checkfirst = FALSE
          <5>1. k = 1 => Progress(c) = k - 1 /\ ~ (Progress(c) \in 1 .. Length)
            BY <1>2, <1>5
          <5> QED
            BY <2>4, <4>1, <5>1, FindsFree
        <4>4. k # 1 => \A d \in Team : ~ (Progress(d)' >= k)
          BY <1>2, <1>5, <2>1, <3>3
        <4> QED
          BY <1>1, <1>2, <2>1, <3>1, <4>2, <4>3, <4>4 DEF Marks
      <3> QED
        BY <3>2, <3>3
    <2>5. SplitOp(k) => Marks(k)'
      BY <1>2, <2>4 DEF Marks
    <2> QED
      BY <1>1, <2>1, <2>2, <2>3, <2>5, WorkKept
  <1> QED
    BY <1>1, <1>2, <1>7 DEF RanState

(* What has been run after a step of a thread.                             *)
LEMMA ThreadRan ==
  ASSUME OneTeam, SharesReturned, Regular, StateInv, TeamInv, WorksInv, CheckInv, FirstInv, NEW i \in {0, 1}, Working(i),
         ShareState, ran \in [AllWork(serial) -> {0, 1}], RanState, NEW c \in Team, CoreStep(c)
  PROVE  RanState' /\ ran' \in [AllWork(serial) -> {0, 1}] /\ serial' = serial
  <1>1. ~ NotInTeam(c)
    BY TeamEvent DEF NotInTeam
  <1>2. CASE Resting(c) \/ Release(c)
    BY <1>2, RestRan
  <1>3. CASE run_task(c)
    BY <1>3, BeginRan
  <1>4. CASE ConstructStep(c)
    BY <1>4, ConstructRan, ConstructUnchanged
  <1> QED
    BY <1>1, <1>2, <1>3, <1>4 DEF CoreStep, Resting, ConstructStep

(* The wake-up of the team: nobody has begun and nothing has been run.     *)
LEMMA StartRan ==
  ASSUME OneTeam, SharesReturned, Regular, StateInv, TeamInv, GOMP_parallel_start,
         ran \in [AllWork(serial) -> {0, 1}], \A w \in DOMAIN ran : ran[w] = 0,
         Combined => Dealt(1) /\ works.next = (IF Op(1) = "loop" THEN Con(1).start ELSE 1)
  PROVE  RanState'
  <1>1. Team \subseteq Cores /\ 0 \in Team /\ 0 \in Cores /\ Length \in Nat
    BY TheTeam
  <1>2. /\ program' = program /\ serial' = serial /\ works' = works /\ ran' = ran
        /\ WakeUpAll(0, "fork", "wfi") /\ pc[0] = "fork"
        /\ after'[0] = "run_task" /\ \A d \in Cores \ {0} : after'[d] = after[d]
    BY <1>1 DEF GOMP_parallel_start, WakeUpAll, StateInv
  <1>3. Team' = Team /\ Length' = Length /\ Combined' = Combined /\ Serial
    BY <1>2, Frozen DEF TeamInv, Working, Combined
  <1>4. ASSUME NEW d \in Team
        PROVE  Progress(d)' = 0
    <2>1. /\ d = 0 => pc'[d] = "wfi"
          /\ d # 0 => pc'[d] = IF Sleeps(d) THEN Resumed(d) ELSE pc[d]
      BY <1>1, <1>2, Pulse
    <2>2. after'[d] = "run_task"
      BY <1>1, <1>2, <1>3 DEF Serial, Asleep
    <2>3. d # 0 => pc'[d] = "run_task"
      BY <1>3, <2>1 DEF Serial, Asleep, Sleeps, Resumed
    <2>4. Going(d)' = "run_task" /\ ~ Ended(d)'
      BY <2>1, <2>2, <2>3 DEF Going, BarrierCode, Ended
    <2> QED
      BY <2>4 DEF Progress
  <1>5. ASSUME NEW k \in 1 .. Length
        PROVE  RanConstruct(k)'
    <2>1. Op(k)' = Op(k) /\ Con(k)' = Con(k) /\ Ids(k)' = Ids(k)
      BY <1>2 DEF Op, Con, Ids
    <2>2. (ShareOp(k)' <=> ShareOp(k)) /\ (SplitOp(k)' <=> SplitOp(k))
      BY <2>1 DEF ShareOp, SplitOp
    <2>3. \A w \in WorkOf(serial, k) : ran'[w] = 0
      BY <1>2, TheWork
    <2>4. Op(k) \in {"task", "critical"} => Own(k)'
      <3>1. SUFFICES ASSUME Op(k) \in {"task", "critical"}
                     PROVE  Own(k)'
        OBVIOUS
      <3>2. \A d \in Team : ran'[<<k, d>>] = 0
        BY <2>3, <3>1, TheWork
      <3> QED
        BY <1>3, <1>4, <3>2 DEF Own
    <2>5. ShareOp(k) => Once(k)'
      <3>1. SUFFICES ASSUME ShareOp(k)
                     PROVE  Once(k)'
        OBVIOUS
      <3>2. ran'[<<k, 0>>] = 0
        BY <2>3, <3>1, TheWork
      <3>3. \A d \in Team : Before(d, k)'
        BY <1>4 DEF Before
      <3> QED
        BY <1>3, <3>2, <3>3 DEF Once
    <2>6. \A d \in Team : Fresh(d, k)' /\ Has(d, k)' = {} /\ ~ Over(d, k)' /\ ~ (Progress(d)' >= k)
      BY <1>4 DEF Fresh, Has, Over
    <2>7. Marks(k)'
      BY <1>3, <2>6 DEF Marks
    <2>8. SplitOp(k) => Split(k)'
      <3>1. SUFFICES ASSUME SplitOp(k)
                     PROVE  Split(k)'
        OBVIOUS
      <3>2. \A n \in Ids(k) : ran'[<<k, n>>] = 0
        BY <2>3, <3>1, TheWork
      <3>3. Open(k)' <=> Combined
        BY <1>3, <2>6 DEF Open
      <3>4. Combined => k = 1
        BY TheCombined
      <3>5. Open(k)' => Dealt(k)'
        <4>1. Dealt(k)' <=> Dealt(k)
          BY <1>2, DealtSame DEF SameDeal
        <4> QED
          BY <3>3, <3>4, <4>1
      <3>6. \A n \in Ids(k) : ~ Given(n, k)'
        <4>1. SUFFICES ASSUME NEW n \in Ids(k), Combined
                       PROVE  ~ (n < works.next)
          BY <1>2, <3>3 DEF Given
        <4>2. CASE Op(k) = "loop"
          <5>1. works.next = Con(k).start /\ Con(k).start \in Int /\ Con(k).end \in Int /\ Con(k).incr \in Nat \ {0}
            BY <3>1, <3>4, <4>1, <4>2, TheSplit
          <5>2. n \in Con(k).start .. Con(k).end - 1
            BY <4>2, <5>1 DEF Ids, Iterations
          <5> QED
            BY <5>1, <5>2
        <4>3. CASE Op(k) = "sections"
          <5>1. works.next = 1 /\ n \in 1 .. Con(k).count /\ Con(k).count \in Nat
            BY <3>1, <3>4, <4>1, <4>3, TheSplit DEF Ids
          <5> QED
            BY <5>1
        <4> QED
          BY <3>1, <4>2, <4>3 DEF SplitOp
      <3> QED
        BY <1>3, <2>1, <2>6, <3>2, <3>5, <3>6 DEF Split
    <2> QED
      BY <2>1, <2>2, <2>4, <2>5, <2>7, <2>8 DEF RanConstruct
  <1> QED
    BY <1>3, <1>5 DEF RanState

-------------------------------------------------------------------------------
(* Who comes to the lock of the share.                                     *)
LEMMA LockReached ==
  ASSUME OneTeam, StateInv, TeamInv, NEW i \in {0, 1}, Working(i), NEW c \in Team, CoreStep(c)
  PROVE  /\ \A d \in Cores \ {c} : pc'[d] \in {"lock", "check"} => pc[d] = pc'[d]
         /\ pc'[c] \in {"lock", "check"} => (Advance(c) /\ ConstructStep(c)) \/ run_task(c) \/ LockShare(c)
  <1>1. c \in Cores
    BY TheTeam
  <1>2. \A d \in Cores : Resumed(d) \notin {"lock", "check"}
    BY DEF Resumed, StateInv, Returns
  <1>3. CASE BarrierInitWake(c) \/ Release(c)
    <2>1. /\ pc'[c] \in {"wfi_init", "wfi"}
          /\ WakeUpAll(c, "barrier_wake", "wfi_init") \/ WakeUpAll(c, "barrier_release", "wfi")
      BY <1>1, <1>3 DEF BarrierInitWake, Release, WakeUpAll
    <2>2. ASSUME NEW d \in Cores \ {c}
          PROVE  pc'[d] = IF Sleeps(d) THEN Resumed(d) ELSE pc[d]
      BY <1>1, <2>1, Pulse
    <2> QED
      BY <1>2, <2>1, <2>2
  <1>4. CASE Wfi(c) \/ TaskEnd(c) \/ NotInTeam(c) \/ BarrierInit(c) \/ FetchAdd(c) \/ Clear(c)
    BY <1>1, <1>2, <1>4 DEF Wfi, TaskEnd, NotInTeam, BarrierInit, FetchAdd, Clear, Step, StateInv
  <1>5. CASE run_task(c)
    BY <1>1, <1>5 DEF run_task, Goto, StateInv
  <1>6. CASE ConstructStep(c)
    <2>1. CASE Advance(c)
      BY <1>1, <1>6, <2>1 DEF Advance, Goto, StateInv
    <2>2. ASSUME NEW to, Step(c, pc[c], to)
          PROVE  (\A d \in Cores \ {c} : pc'[d] = pc[d]) /\ pc'[c] = to
      BY <1>1, <2>2 DEF Step, StateInv
    <2>3. Advance(c) \/ LockShare(c) \/ \E to : Step(c, pc[c], to) /\ to \notin {"lock", "check"}
      <3>1. pc[c] \in Places
        BY <1>6, ConstructUnchanged
      <3>2. At(c).op = Op(turn[c]) /\ Fits(pc[c], turn[c])
        BY <3>1, PlaceFacts
      <3>3. CASE Work(c)
        <4>1. Op(turn[c]) \in {"loop", "sections", "single", "copyprivate"} /\ pc[c] = "work"
          BY <3>2, <3>3 DEF Work, Fits
        <4>2. Step(c, "work", "loop_next") \/ Step(c, "work", "sections_next") \/ Step(c, "work", "sync") \/ Step(c, "work", "barrier")
          BY <3>2, <3>3, <4>1 DEF Work, CallBarrier
        <4> QED
          BY <4>1, <4>2
      <3>4. CASE Unlock(c)
        <4>1. pc[c] = "unlock"
          BY <3>4 DEF Unlock
        <4>2. \/ Step(c, "unlock", "loop_start") \/ Step(c, "unlock", "sync") \/ Step(c, "unlock", "barrier")
              \/ Step(c, "unlock", "work") \/ Advance(c)
          BY <3>4 DEF Unlock, CallBarrier
        <4> QED
          BY <4>1, <4>2
      <3>5. CASE Loop(c)
        <4>1. \E from : pc[c] = from /\ (Step(c, from, "work") \/ Step(c, from, "barrier") \/ Advance(c))
          BY <3>5 DEF Loop, NextChunk, LoopEnd, CallBarrier
        <4> QED
          BY <4>1
      <3>6. CASE gomp_work_share_start(c) \/ Share(c) \/ GOMP_sections_next(c)
        <4>1. Step(c, "check", "share") \/ Step(c, "share", "unlock") \/ Step(c, "sections_next", "share")
          BY <3>6 DEF gomp_work_share_start, Share, GOMP_sections_next
        <4> QED
          BY <4>1 DEF Step
      <3>7. CASE Copied(c) \/ GOMP_barrier(c) \/ EnterCritical(c)
        <4>1. Step(c, "copied", "sync") \/ Step(c, "sync", "barrier") \/ Step(c, "critical", "in_critical")
          BY <3>7 DEF Copied, GOMP_barrier, CallBarrier, EnterCritical
        <4> QED
          BY <4>1 DEF Step
      <3>8. CASE Past(c) \/ Task(c) \/ LeaveCritical(c)
        BY <3>8 DEF Past, Task, LeaveCritical
      <3> QED
        BY <1>6, <3>3, <3>4, <3>5, <3>6, <3>7, <3>8 DEF ConstructStep
    <2>4. LockShare(c) => Step(c, pc[c], "check")
      BY DEF LockShare, Step
    <2> QED
      BY <1>6, <2>1, <2>2, <2>3, <2>4
  <1> QED
    BY <1>3, <1>4, <1>5, <1>6 DEF CoreStep, ConstructStep

(* In a combined construct nobody comes there.                             *)
LEMMA CombinedLock ==
  ASSUME OneTeam, SharesReturned, StateInv, TeamInv, WorksInv, FirstInv, NEW i \in {0, 1}, Working(i), NEW c \in Team, CoreStep(c), Combined
  PROVE  \A d \in Cores : pc'[d] \notin {"lock", "check"}
  <1>1. c \in Cores /\ \A d \in Cores : pc[d] \notin {"lock", "check"}
    BY TheTeam DEF FirstInv
  <1>2. ~ LockShare(c)
    BY <1>1 DEF LockShare, Step
  <1>3. pc'[c] \notin {"lock", "check"}
    <2>1. CASE ConstructStep(c) /\ Advance(c)
      <3>1. Comes(c, turn[c] + 1) /\ turn[c] \in 1 .. Length /\ Length = 1
        BY <2>1, GoesOn, TheCombined
      <3>2. Going(c)' = "task_end"
        BY <3>1 DEF Comes
      <3> QED
        BY <3>2 DEF Going, BarrierCode
    <2>2. CASE run_task(c)
      <3>1. /\ program' = program /\ serial' = serial /\ after' = after /\ wake_up_q' = wake_up_q
            /\ Goto(c, event.fn, 1)
        BY <2>2 DEF run_task
      <3>2. event.fn = serial /\ Length = 1
        BY TheTeam, TheCombined DEF Working
      <3>3. Comes(c, 1)
        BY <3>1, <3>2, GotoTo
      <3>4. pc'[c] = Entry(program[serial].fn, program[serial].body[1])
        BY <3>2, <3>3 DEF Comes
      <3> QED
        BY <3>4, TheCombined
    <2> QED
      BY <1>2, <2>1, <2>2, LockReached
  <1> QED
    BY <1>1, <1>3, LockReached

(* first says whether the share is new to the thread that has the lock.    *)
LEMMA FirstStep ==
  ASSUME OneTeam, SharesReturned, Regular, StateInv, TeamInv, WorksInv, HolderInv, FirstInv, NEW i \in {0, 1}, Working(i),
         RanState, NEW c \in Team, CoreStep(c)
  PROVE  FirstInv'
  <1>1. /\ \A d \in Cores \ {c} : pc'[d] = "share" => pc[d] = "share"
        /\ pc'[c] = "share" => gomp_work_share_start(c) \/ GOMP_sections_next(c)
        /\ c \in Cores
    BY HoldersMove, TheTeam
  <1>2. ~ Share(c) /\ ~ Copied(c) => works'.checkfirst = works.checkfirst
    BY <1>1, FieldsKept
  <1>3. program' = program /\ serial' = serial
    BY DEF CoreStep, Wfi, run_task, NotInTeam, TaskEnd, BarrierInit, BarrierInitWake,
           FetchAdd, Clear, Release, Past, LockShare, gomp_work_share_start, Share, Unlock,
           GOMP_sections_next, Loop, NextChunk, LoopEnd, Work, Copied, GOMP_barrier, Task, EnterCritical,
           LeaveCritical
  <1>4. Combined' <=> Combined
    BY <1>3 DEF Combined
  <1>5. ASSUME NEW d \in Cores \ {c}
        PROVE  first'[d] = first[d]
    <2>1. first' = first \/ \E v : first' = [first EXCEPT ![c] = v]
      BY DEF CoreStep, Wfi, run_task, NotInTeam, TaskEnd, BarrierInit, BarrierInitWake,
           FetchAdd, Clear, Release, Past, LockShare, gomp_work_share_start, Share, Unlock,
           GOMP_sections_next, Loop, NextChunk, LoopEnd, Work, Copied, GOMP_barrier, Task, EnterCritical,
           LeaveCritical, localVars
    <2> QED
      BY <2>1 DEF WorksInv
  <1>6. ASSUME NEW d \in Cores, pc'[d] = "share"
        PROVE  first'[d] = IF Combined THEN FALSE ELSE ~ works'.checkfirst
    <2>1. CASE d = c /\ gomp_work_share_start(c)
      <3>1. first'[c] = (~ works.checkfirst) /\ works' = works /\ pc[c] = "check"
        BY <1>1, <2>1 DEF gomp_work_share_start, Step, WorksInv
      <3>2. ~ Combined
        BY <1>1, <3>1 DEF FirstInv
      <3> QED
        BY <2>1, <3>1, <3>2
    <2>2. CASE d = c /\ GOMP_sections_next(c)
      <3>1. first'[c] = FALSE /\ pc[c] = "sections_next"
        BY <1>1, <2>2 DEF GOMP_sections_next, Step, WorksInv
      <3>2. pc[c] \in Places
        BY <3>1 DEF Places
      <3> DEFINE k == turn[c]
      <3>3. k \in 1 .. Length /\ Progress(c) = k /\ Going(c) = pc[c] /\ Op(k) = "sections" /\ k \in Nat
        BY <3>1, <3>2, PlaceFacts DEF Fits
      <3>4. ~ Fresh(c, k) /\ Marks(k)
        BY <3>1, <3>3 DEF Fresh, RanState, RanConstruct, SplitOp
      <3>5. ~ Combined => works.checkfirst = TRUE
        BY <3>4 DEF Marks
      <3>6. works'.checkfirst = works.checkfirst
        BY <1>2, <3>1 DEF Share, Copied, Step
      <3> QED
        BY <2>2, <3>1, <3>5, <3>6
    <2>3. CASE d # c
      <3>1. pc[d] = "share" /\ first'[d] = first[d]
        BY <1>1, <1>5, <1>6, <2>3
      <3>2. first[d] = IF Combined THEN FALSE ELSE ~ works.checkfirst
        BY <3>1 DEF FirstInv
      <3>3. ~ Share(c)
        BY <1>1, <2>3, <3>1 DEF HolderInv, Holds, Share, Step
      <3>4. ~ Copied(c)
        <4>1. SUFFICES ASSUME pc[c] = "copied"
                       PROVE  FALSE
          BY DEF Copied, Step
        <4>2. d \in Team
          BY <3>1 DEF TeamInv, Outsider
        <4>3. Counts(d)
          BY <4>1, <4>2, CopiedTogether
        <4>4. Going(d) = "share"
          BY <3>1 DEF Going, BarrierCode
        <4> QED
          BY <4>3, <4>4 DEF Counts
      <3> QED
        BY <1>2, <3>1, <3>2, <3>3, <3>4
    <2> QED
      BY <1>1, <1>6, <2>1, <2>2, <2>3
  <1>7. Combined => \A d \in Cores : pc'[d] \notin {"lock", "check"}
    BY CombinedLock
  <1> QED
    BY <1>4, <1>6, <1>7 DEF FirstInv

-------------------------------------------------------------------------------
(* While the master is alone nobody is at a share.                         *)
LEMMA SerialFirst ==
  OneTeam /\ StateInv /\ TeamInv /\ Serial => FirstInv
  BY DEF TeamInv, Serial, Asleep, Outsider, FirstInv

(* SerialFirst, for the next state.                                        *)
LEMMA SerialFirstNext ==
  OneTeam /\ StateInv' /\ TeamInv' /\ Serial' => FirstInv'
  <1>1. (OneTeam /\ StateInv /\ TeamInv /\ Serial => FirstInv)'
    BY SerialFirst, PTL
  <1> QED
    BY <1>1

(* Nothing has been run when the program starts.                           *)
LEMMA RanInit ==
  ASSUME OneTeam, Init
  PROVE  RanInv
  <1>1. 0 \in Cores /\ pc[0] = "serial" /\ serial = 1 /\ ran = [w \in AllWork(1) |-> 0]
    BY ConfigAssumption DEF Init, Cores
  <1>2. ran \in [AllWork(serial) -> {0, 1}] /\ \A w \in DOMAIN ran : ran[w] = 0
    BY <1>1
  <1>3. \A c \in Cores : pc[c] \in {"serial", "wfi"}
    BY DEF Init
  <1>4. FirstInv
    BY <1>3 DEF FirstInv
  <1> QED
    BY <1>1, <1>2, <1>4 DEF RanInv

(* The master sets up the share of a combined construct.                   *)
LEMMA ForkRan ==
  ASSUME OneTeam, SharesReturned, Regular, OmpInv, OmpInv', ShareInv, RanInv, Fork
  PROVE  RanInv'
  <1>1. StateInv /\ TeamInv /\ StateInv' /\ TeamInv' /\ WorksInv /\ 0 \in Cores
    BY TheTeam DEF OmpInv, ShareInv
  <1>2. pc[0] = "serial" /\ pc'[0] = "fork" /\ program' = program /\ serial' = serial /\ ran' = ran
    BY <1>1 DEF Fork, Step, StateInv
  <1>3. Combined' = Combined /\ Op(1)' = Op(1) /\ Con(1)' = Con(1) /\ AllWork(serial)' = AllWork(serial)
    BY <1>2 DEF Combined, Op, Con, AllWork, WorkOf, TeamSize
  <1>4. FirstInv'
    <2>1. Serial'
      BY <1>1, <1>2 DEF TeamInv, Working
    <2> QED
      BY <1>1, <2>1, SerialFirstNext
  <1>5. ASSUME Combined
        PROVE  Dealt(1)' /\ works'.next = (IF Op(1) = "loop" THEN Con(1).start ELSE 1)
    <2>1. /\ Length = 1 /\ SplitOp(1)
          /\ program[serial].fn \in {"GOMP_parallel_loop_dynamic", "GOMP_parallel_sections"}
          /\ program[serial].fn = "GOMP_parallel_loop_dynamic" <=> Op(1) = "loop"
      BY <1>1, <1>5, TheCombined
    <2> DEFINE w == gomp_new_work_share(works)
    <2>2. {"next", "end", "incr", "chunk_size"} \subseteq DOMAIN w
      BY <1>1 DEF gomp_new_work_share, WorksInv, Fields
    <2>3. CASE Op(1) = "loop"
      <3>1. works' = gomp_loop_init(w, Con(1))
        BY <2>1, <2>3 DEF Fork, Con
      <3> HIDE DEF w
      <3>2. /\ works'.next = Con(1).start /\ works'.end = Con(1).end /\ works'.incr = Con(1).incr
            /\ works'.chunk_size = Con(1).chunk
        BY <2>2, <3>1 DEF gomp_loop_init
      <3>3. Con(1).start \in Int /\ Con(1).incr \in Nat \ {0}
        BY <1>1, <2>1, <2>3, TheSplit
      <3>4. (Con(1).start - Con(1).start) % Con(1).incr = 0
        BY <3>3
      <3> QED
        BY <1>3, <2>3, <3>2, <3>3, <3>4 DEF Dealt
    <2>4. CASE Op(1) = "sections"
      <3>1. works' = gomp_sections_init(w, Con(1))
        BY <2>1, <2>4 DEF Fork, Con
      <3> HIDE DEF w
      <3>2. works'.next = 1 /\ works'.end = Con(1).count + 1
        BY <2>2, <3>1 DEF gomp_sections_init
      <3>3. Con(1).count \in Nat
        BY <1>1, <2>1, <2>4, TheSplit
      <3> QED
        BY <1>3, <2>4, <3>2, <3>3 DEF Dealt
    <2> QED
      BY <2>1, <2>3, <2>4 DEF SplitOp
  <1> QED
    BY <1>2, <1>3, <1>4, <1>5 DEF RanInv

(* Every step keeps what has been run in step with the threads.            *)
LEMMA RanStep ==
  ASSUME OneTeam, SharesReturned, Regular, OmpInv, OmpInv', ShareInv, RanInv, [Next]_vars
  PROVE  RanInv'
  <1>1. StateInv /\ TeamInv /\ StateInv' /\ TeamInv' /\ WorksInv /\ HolderInv /\ CheckInv /\ FirstInv
    BY DEF OmpInv, ShareInv, RanInv
  <1>2. 0 \in Team /\ Team \subseteq Cores /\ 0 \in Cores
    BY <1>1, TheTeam
  <1>3. program' = program /\ serial' = serial => AllWork(serial)' = AllWork(serial)
    BY DEF AllWork, WorkOf, TeamSize
  <1>4. CASE Fork
    BY <1>4, ForkRan
  <1>5. CASE GOMP_parallel_start
    <2>1. /\ pc[0] = "fork" /\ WakeUpAll(0, "fork", "wfi") /\ program' = program /\ serial' = serial /\ ran' = ran
      BY <1>5 DEF GOMP_parallel_start, WakeUpAll
    <2>2. Serial
      BY <1>1, <2>1 DEF TeamInv, Working
    <2>3. RanState'
      BY <1>1, <1>5, <2>1, StartRan DEF RanInv
    <2>4. ASSUME NEW d \in Cores
          PROVE  pc'[d] \notin {"lock", "check", "share"} /\ (d = 0 => pc'[d] = "wfi")
      <3>1. /\ d = 0 => pc'[d] = "wfi"
            /\ d # 0 => pc'[d] = IF Sleeps(d) THEN Resumed(d) ELSE pc[d]
        BY <1>1, <1>2, <2>1, Pulse
      <3>2. Resumed(d) \notin {"lock", "check", "share"}
        BY <1>1 DEF Resumed, StateInv, Returns
      <3>3. d # 0 => pc[d] \notin {"lock", "check", "share"}
        BY <1>1, <2>2 DEF TeamInv, Serial, Asleep, Outsider
      <3> QED
        BY <3>1, <3>2, <3>3
    <2>5. FirstInv'
      BY <2>4 DEF FirstInv
    <2> QED
      BY <1>2, <1>3, <2>1, <2>3, <2>4, <2>5 DEF RanInv
  <1>6. CASE GOMP_parallel_end
    <2>1. pc'[0] = "serial" /\ ran' = [w \in AllWork(serial') |-> 0] /\ program' = program
      BY <1>1, <1>2, <1>6 DEF GOMP_parallel_end, Step, StateInv
    <2>2. AllWork(serial)' = AllWork(serial')
      BY <2>1 DEF AllWork, WorkOf, TeamSize
    <2>3. ran' \in [AllWork(serial)' -> {0, 1}] /\ \A w \in DOMAIN ran' : ran'[w] = 0
      BY <2>1, <2>2
    <2>4. Serial'
      BY <1>1, <2>1 DEF TeamInv, Working
    <2>5. FirstInv'
      BY <1>1, <2>4, SerialFirstNext
    <2> QED
      BY <2>1, <2>3, <2>5 DEF RanInv
  <1>7. ASSUME NEW c \in Cores, CoreStep(c)
        PROVE  RanInv'
    <2>1. program' = program /\ serial' = serial
      BY <1>7 DEF CoreStep, Wfi, run_task, NotInTeam, TaskEnd, BarrierInit, BarrierInitWake,
           FetchAdd, Clear, Release, Past, LockShare, gomp_work_share_start, Share, Unlock,
           GOMP_sections_next, Loop, NextChunk, LoopEnd, Work, Copied, GOMP_barrier, Task, EnterCritical,
           LeaveCritical
    <2>2. CASE c \in Team
      <3>1. PICK i \in {0, 1} : Working(i)
        BY <1>1, <1>7, <2>2, NobodyElse DEF TeamInv
      <3>2. pc[0] \notin {"serial", "fork"} /\ ShareState /\ RanState /\ ran \in [AllWork(serial) -> {0, 1}]
        BY <3>1 DEF Working, ShareInv, RanInv
      <3>3. RanState' /\ ran' \in [AllWork(serial) -> {0, 1}]
        BY <1>1, <1>7, <2>2, <3>1, <3>2, ThreadRan
      <3>4. FirstInv'
        BY <1>1, <1>7, <2>2, <3>1, <3>2, FirstStep
      <3>5. pc'[0] \notin {"serial", "fork"}
        BY <1>1, <1>7, <2>2, <3>1, ThreadSteps DEF Working
      <3> QED
        BY <1>3, <2>1, <3>3, <3>4, <3>5 DEF RanInv
    <2>3. CASE c \notin Team
      <3>1. /\ UNCHANGED <<works, first, got, ran>>
            /\ Alone(c) /\ pc'[c] \in {"wfi", "run_task"}
        BY <1>1, <1>7, <2>3, OutsiderMoves
      <3>2. \A d \in Cores : d # c => pc'[d] = pc[d]
        BY <3>1 DEF Alone
      <3>3. Combined' = Combined /\ Dealt(1)' = Dealt(1) /\ Op(1)' = Op(1) /\ Con(1)' = Con(1)
        BY <2>1, <3>1 DEF Combined, Dealt, Op, Con
      <3>4. FirstInv'
        BY <1>1, <3>1, <3>2, <3>3 DEF FirstInv
      <3>5. pc'[0] = pc[0]
        BY <1>2, <2>3, <3>2
      <3>6. RanState => RanState'
        <4>1. \A d \in Team : Placed(d)
          BY <1>2, <2>1, <2>3, <3>1, OthersSame DEF Same, Placed
        <4> QED
          BY <1>1, <2>1, <3>1, <4>1, QuietRan
      <3> QED
        BY <1>3, <2>1, <3>1, <3>3, <3>4, <3>5, <3>6 DEF RanInv
    <2> QED
      BY <2>2, <2>3
  <1>8. CASE UNCHANGED vars
    <2>1. UNCHANGED <<program, serial, works, pc, after, fn, turn, first, got, wake_up_q, ran>>
      BY <1>8 DEF vars, coreVars, localVars
    <2>2. Combined' = Combined /\ Dealt(1)' = Dealt(1) /\ Op(1)' = Op(1) /\ Con(1)' = Con(1) /\ Length' = Length
      BY <2>1, Frozen DEF Combined, Dealt, Op, Con
    <2>3. FirstInv'
      BY <1>1, <2>1, <2>2 DEF FirstInv
    <2>4. RanState => RanState'
      <3>1. ASSUME NEW d \in Team
            PROVE  Placed(d)
        BY <2>1, <2>2 DEF Placed, Progress, Going, Ended
      <3> QED
        BY <1>1, <2>1, <3>1, QuietRan
    <2> QED
      BY <1>3, <2>1, <2>2, <2>3, <2>4 DEF RanInv
  <1> QED
    BY <1>4, <1>5, <1>6, <1>7, <1>8 DEF Next, MasterStep

-------------------------------------------------------------------------------
(* A construct that everybody is past has been run.                        *)
LEMMA AllRan ==
  ASSUME OneTeam, SharesReturned, Regular, StateInv, NEW i \in {0, 1}, Working(i), RanState, NEW j \in 1 .. Length,
         \A d \in Team : Progress(d) > j \/ (Progress(d) = j /\ Going(d) = "past")
  PROVE  \A w \in WorkOf(serial, j) : ran[w] = 1
  <1>1. RanConstruct(j) /\ 0 \in Team /\ \A d \in Team : Progress(d) \in Nat
    BY TheTeam, ThreadAt DEF RanState, ThreadFacts
  <1>2. CASE Op(j) \in {"task", "critical"}
    <2>1. ASSUME NEW d \in Team
          PROVE  ran[<<j, d>>] = 1
      <3>1. Progress(d) = j => Fits(Going(d), j)
        BY ThreadAt DEF ThreadFacts
      <3>2. Progress(d) > j
        BY <1>2, <3>1 DEF Fits, AtEnd
      <3> QED
        BY <1>1, <1>2, <3>2 DEF RanConstruct, Own
    <2> QED
      BY <1>2, <2>1, TheWork
  <1>3. CASE ShareOp(j)
    <2>1. \A d \in Team : ~ Before(d, j) /\ ~ Doing(d, j)
      BY <1>1 DEF Before, Doing
    <2>2. ran[<<j, 0>>] = 1
      BY <1>1, <1>3, <2>1 DEF RanConstruct, Once
    <2> QED
      BY <1>3, <2>2, TheWork
  <1>4. CASE SplitOp(j)
    <2>1. \A d \in Team : ~ Fresh(d, j) /\ Has(d, j) = {} /\ Over(d, j)
      BY <1>1 DEF Fresh, Has, Over
    <2>2. Open(j) /\ Split(j)
      BY <1>1, <1>4, <2>1 DEF Open, RanConstruct
    <2>3. Dealt(j) /\ works.next >= works.end
      BY <1>1, <2>1, <2>2 DEF Split
    <2>4. works.next \in Int /\ works.end \in Int /\ \A n \in Ids(j) : n \in Int /\ n < works.end
      BY <1>4, <2>3, SplitIds
    <2>5. \A n \in Ids(j) : Given(n, j)
      BY <2>2, <2>3, <2>4 DEF Given
    <2>6. \A n \in Ids(j) : ran[<<j, n>>] = 1
      BY <2>1, <2>2, <2>5 DEF Split
    <2> QED
      BY <1>4, <2>6, TheWork
  <1>5. CASE Op(j) = "barrier"
    BY <1>5, TheWork
  <1> QED
    BY <1>2, <1>3, <1>4, <1>5, TheRegion DEF Constructs, ShareOp, SplitOp

(* All of the region has been run when the whole team has ended it.        *)
LEMMA RegionRan ==
  ASSUME OneTeam, SharesReturned, Regular, StateInv, NEW i \in {0, 1}, Working(i), RanState, event.barrier = 0
  PROVE  \A w \in AllWork(serial) : ran[w] = 1
  <1>1. IsFiniteSet(Team) /\ Length \in Nat /\ DOMAIN program[serial].body = 1 .. Length
    BY TheTeam, TheRegion
  <1>2. \A d \in Team : Ended(d)
    <2> DEFINE U == {d \in Team : ~ Ended(d)}
    <2>1. Cardinality(U) = 0
      BY TheTeam DEF Working
    <2>2. IsFiniteSet(U)
      BY <1>1, FS_Subset
    <2>3. U = {}
      <3> HIDE DEF U
      <3> QED
        BY <2>1, <2>2, FS_EmptySet
    <2> QED
      BY <2>3
  <1>3. \A d \in Team : Progress(d) = Length + 1
    BY <1>2 DEF Progress
  <1>4. \A j \in 1 .. Length : \A w \in WorkOf(serial, j) : ran[w] = 1
    BY <1>1, <1>3, AllRan
  <1> QED
    BY <1>1, <1>4 DEF AllWork

(* The constructs before a barrier that a thread is past.                  *)
LEMMA EarlierRan ==
  ASSUME OneTeam, SharesReturned, Regular, StateInv, NEW i \in {0, 1}, Working(i), RanState,
         NEW c \in Team, Progress(c) \in 1 .. Length,
         NEW j \in 1 .. Length, NEW m \in j .. Progress(c) - 1, EndsWithBarrier(program[serial].body[m])
  PROVE  \A w \in WorkOf(serial, j) : ran[w] = 1
  <1>1. Length \in Nat /\ m \in 1 .. Length /\ m < Progress(c) /\ m \in Nat /\ j \in Nat /\ j <= m /\ Progress(c) \in Nat
    BY TheTeam
  <1>2. AtEnd(m)
    <2>1. Op(m) \in {"loop", "sections", "single", "copyprivate", "barrier"}
      BY <1>1, TheRegion DEF EndsWithBarrier, Constructs, Op
    <2>2. Op(m) # "sections"
      BY <1>1, TheSplit DEF SplitOp
    <2>3. program[serial].fn = "GOMP_parallel"
      BY <1>1, TheCombined DEF Combined
    <2> QED
      BY <2>1, <2>2, <2>3 DEF AtEnd
  <1>3. ASSUME NEW d \in Team
        PROVE  Progress(d) > j \/ (Progress(d) = j /\ Going(d) = "past")
    <2>1. ThreadFacts(c) /\ ThreadFacts(d) /\ Passed(c) = Passed(d)
      BY ThreadAt DEF Working
    <2>2. /\ Progress(d) \in Nat /\ Depth(c) \in 0 .. 2 /\ Depth(d) \in 0 .. 2
          /\ Pos(c) = 3 * Progress(c) + Depth(c) /\ Pos(d) = 3 * Progress(d) + Depth(d)
      BY <2>1 DEF ThreadFacts
    <2>3. 3 * m + 2 \in Points
      BY <1>1, <1>2 DEF Points
    <2>4. 3 * m + 2 \in Passed(d)
      BY <1>1, <2>1, <2>2, <2>3 DEF Passed
    <2>5. 3 * m + 2 <= Pos(d)
      BY <2>4 DEF Passed
    <2>6. Progress(d) > m \/ (Progress(d) = m /\ Depth(d) = 2)
      BY <1>1, <2>2, <2>5
    <2>7. Depth(d) = 2 => Going(d) = "past"
      BY DEF Depth
    <2> QED
      BY <1>1, <2>2, <2>6, <2>7
  <1> QED
    BY <1>3, AllRan

-------------------------------------------------------------------------------
(* The stages of a region.                                                 *)
Ends(r, k) == {j \in 1 .. k - 1 : EndsWithBarrier(program[r].body[j])}
Stage(r, k) == 1 + Cardinality(Ends(r, k))

(* Stages, by the number of the stage.                                     *)
LEMMA StagesAre ==
  ASSUME NEW r
  PROVE  Stages(r) = [s \in 1 .. 1 + Len(program[r].body) |->
                        UNION {WorkOf(r, k) : k \in {j \in DOMAIN program[r].body : Stage(r, j) = s}}]
  BY DEF Stages, Stage, Ends

(* A region has at most one stage more than it has constructs.             *)
LEMMA StageBound ==
  ASSUME NEW r, NEW n \in Nat, NEW k \in 1 .. n
  PROVE  IsFiniteSet(Ends(r, k)) /\ Cardinality(Ends(r, k)) \in Nat /\ Stage(r, k) \in 1 .. 1 + n
  <1>1. IsFiniteSet(1 .. k - 1) /\ Cardinality(1 .. k - 1) = k - 1
    <2>1. 1 \in Int /\ k - 1 \in Int
      OBVIOUS
    <2>2. IsFiniteSet(1 .. k - 1) /\ Cardinality(1 .. k - 1) = IF 1 > k - 1 THEN 0 ELSE k - 1 - 1 + 1
      BY <2>1, FS_Interval
    <2> QED
      BY <2>2
  <1>2. Ends(r, k) \subseteq 1 .. k - 1
    BY DEF Ends
  <1>3. IsFiniteSet(Ends(r, k)) /\ Cardinality(Ends(r, k)) \in Nat /\ Cardinality(Ends(r, k)) <= k - 1
    BY <1>1, <1>2, FS_Subset, FS_CardinalityType
  <1> QED
    BY <1>3 DEF Stage

(* Between constructs of different stages there is a barrier.              *)
LEMMA StageGrows ==
  ASSUME NEW r, NEW n \in Nat, NEW j \in 1 .. n, NEW k \in 1 .. n, Stage(r, j) < Stage(r, k)
  PROVE  \E m \in j .. k - 1 : EndsWithBarrier(program[r].body[m])
  <1>1. SUFFICES ASSUME \A m \in j .. k - 1 : ~ EndsWithBarrier(program[r].body[m])
                 PROVE  FALSE
    OBVIOUS
  <1>2. Ends(r, k) \subseteq Ends(r, j)
    BY <1>1 DEF Ends
  <1>3. IsFiniteSet(Ends(r, j)) /\ Cardinality(Ends(r, j)) \in Nat /\ Cardinality(Ends(r, k)) \in Nat
    BY StageBound
  <1>4. Cardinality(Ends(r, k)) <= Cardinality(Ends(r, j))
    BY <1>2, <1>3, FS_Subset
  <1> QED
    BY <1>3, <1>4 DEF Stage

(* The stages hold all of the work of the region.                          *)
LEMMA StagesCover ==
  ASSUME OneTeam, StateInv, NEW r \in DOMAIN program
  PROVE  UNION {Stages(r)[s] : s \in DOMAIN Stages(r)} = AllWork(r)
  <1> DEFINE n == Len(program[r].body)
  <1>1. n \in Nat /\ DOMAIN program[r].body = 1 .. n
    BY TheTeam DEF Compiled
  <1>2. \A k \in 1 .. n : Stage(r, k) \in 1 .. 1 + n
    BY <1>1, StageBound
  <1>3. Stages(r) = [s \in 1 .. 1 + n |-> UNION {WorkOf(r, k) : k \in {j \in 1 .. n : Stage(r, j) = s}}]
    BY <1>1, StagesAre
  <1>4. AllWork(r) = UNION {WorkOf(r, k) : k \in 1 .. n}
    BY <1>1 DEF AllWork
  <1> HIDE DEF n
  <1>5. ASSUME NEW w
        PROVE  w \in UNION {Stages(r)[s] : s \in DOMAIN Stages(r)} <=> w \in AllWork(r)
    <2>1. ASSUME w \in UNION {Stages(r)[s] : s \in DOMAIN Stages(r)}
          PROVE  w \in AllWork(r)
      <3>1. PICK s \in 1 .. 1 + n : w \in Stages(r)[s]
        BY <1>3, <2>1
      <3>2. PICK k \in 1 .. n : w \in WorkOf(r, k)
        BY <1>3, <3>1
      <3> QED
        BY <1>4, <3>2
    <2>2. ASSUME w \in AllWork(r)
          PROVE  w \in UNION {Stages(r)[s] : s \in DOMAIN Stages(r)}
      <3>1. PICK k \in 1 .. n : w \in WorkOf(r, k)
        BY <1>4, <2>2
      <3>2. w \in Stages(r)[Stage(r, k)] /\ Stage(r, k) \in DOMAIN Stages(r)
        BY <1>2, <1>3, <3>1
      <3> QED
        BY <3>2
    <2> QED
      BY <2>1, <2>2
  <1> QED
    BY <1>5

(* What a construct of the region that runs has to wait for.               *)
LEMMA StageRan ==
  ASSUME OneTeam, SharesReturned, Regular, StateInv, NEW i \in {0, 1}, Working(i), RanState,
         NEW c \in Team, Progress(c) \in 1 .. Length
  PROVE  /\ Stage(serial, Progress(c)) \in DOMAIN Stages(serial)
         /\ WorkOf(serial, Progress(c)) \subseteq Stages(serial)[Stage(serial, Progress(c))]
         /\ \A t \in 1 .. Stage(serial, Progress(c)) - 1 : \A w \in Stages(serial)[t] : ran[w] = 1
  <1> DEFINE k == Progress(c)
  <1>1. Length \in Nat /\ DOMAIN program[serial].body = 1 .. Length
    BY TheTeam, TheRegion
  <1>2. Stages(serial) = [s \in 1 .. 1 + Length |->
                            UNION {WorkOf(serial, j) : j \in {j \in 1 .. Length : Stage(serial, j) = s}}]
    BY <1>1, StagesAre DEF Length
  <1>3. k \in 1 .. Length /\ \A j \in 1 .. Length : Stage(serial, j) \in 1 .. 1 + Length
    BY <1>1, StageBound
  <1>4. ASSUME NEW t \in 1 .. Stage(serial, k) - 1, NEW w \in Stages(serial)[t]
        PROVE  ran[w] = 1
    <2>1. t \in 1 .. 1 + Length /\ t < Stage(serial, k)
      BY <1>1, <1>3
    <2>2. PICK j \in 1 .. Length : Stage(serial, j) = t /\ w \in WorkOf(serial, j)
      BY <1>2, <2>1
    <2>3. \E m \in j .. k - 1 : EndsWithBarrier(program[serial].body[m])
      BY <1>1, <1>3, <2>1, <2>2, StageGrows
    <2> QED
      BY <2>2, <2>3, EarlierRan
  <1>5. Stage(serial, k) \in DOMAIN Stages(serial)
    BY <1>2, <1>3
  <1>6. WorkOf(serial, k) \subseteq Stages(serial)[Stage(serial, k)]
    <2>1. Stages(serial)[Stage(serial, k)] =
            UNION {WorkOf(serial, j) : j \in {j \in 1 .. Length : Stage(serial, j) = Stage(serial, k)}}
      BY <1>2, <1>3
    <2>2. k \in {j \in 1 .. Length : Stage(serial, j) = Stage(serial, k)}
      BY <1>3
    <2> HIDE DEF k
    <2> QED
      BY <2>1, <2>2
  <1> QED
    BY <1>4, <1>5, <1>6

-------------------------------------------------------------------------------
(* The abstract program.                                                   *)
Regions == [r \in DOMAIN program |-> Stages(r)]

(* The abstract program has the work of the program, region by region.     *)
LEMMA TheRegions ==
  ASSUME OneTeam, StateInv
  PROVE  /\ DOMAIN Regions = DOMAIN program /\ Len(Regions) = Len(program)
         /\ \A r \in DOMAIN program :
              Regions[r] = Stages(r) /\ UNION {Regions[r][s] : s \in DOMAIN Regions[r]} = AllWork(r)
  <1>1. Len(program) \in Nat /\ DOMAIN program = 1 .. Len(program)
    BY TheTeam DEF Compiled
  <1>2. DOMAIN Regions = 1 .. Len(program) /\ \A r \in DOMAIN program : Regions[r] = Stages(r)
    BY <1>1 DEF Regions
  <1>3. Len(Regions) = Len(program)
    <2> DEFINE n == Len(program)
               S == {Stages(r) : r \in 1 .. n}
    <2>1. Regions \in [1 .. n -> S]
      BY <1>1 DEF Regions
    <2> HIDE DEF S
    <2>2. Regions \in Seq(S)
      BY <1>1, <2>1
    <2>3. Len(Regions) \in Nat /\ DOMAIN Regions = 1 .. Len(Regions)
      BY <2>2
    <2> QED
      BY <1>1, <1>2, <2>3
  <1>4. \A r \in DOMAIN program : UNION {Regions[r][s] : s \in DOMAIN Regions[r]} = AllWork(r)
    BY <1>2, StagesCover
  <1> QED
    BY <1>2, <1>3, <1>4

(* It does not change.                                                     *)
LEMMA RegionsSame ==
  ASSUME program' = program
  PROVE  Regions' = Regions
  <1>1. \A r, k : WorkOf(r, k)' = WorkOf(r, k)
    BY DEF WorkOf, TeamSize
  <1>2. \A r, k : Stage(r, k)' = Stage(r, k)
    BY DEF Stage, Ends
  <1>3. \A r : Stages(r)' = Stages(r)
    BY DEF Stages, WorkOf, TeamSize
  <1> QED
    BY <1>3 DEF Regions

-------------------------------------------------------------------------------
(* The steps of the abstract specification, over Regions.                  *)
LEMMA RunImplements ==
  ASSUME NEW s \in DOMAIN Regions[serial], NEW done \in SUBSET Regions[serial][s],
         \A t \in 1 .. s - 1 : \A w \in Regions[serial][t] : ran[w] = 1,
         \A w \in done : ran[w] = 0,
         ran' = [w \in DOMAIN ran |-> IF w \in done THEN 1 ELSE ran[w]],
         Regions' = Regions, serial' = serial
  PROVE  Abstract!Next
  <1>1. Abstract!Run(s, done)
    BY DEF Abstract!Run, Regions
  <1> QED
    BY <1>1 DEF Abstract!Next, Regions

(* The join is the abstract one.                                           *)
LEMMA JoinImplements ==
  ASSUME OneTeam, StateInv, serial \in DOMAIN program, serial' \in DOMAIN program,
         \A w \in AllWork(serial) : ran[w] = 1,
         serial' = IF serial = Len(program) THEN 1 ELSE serial + 1,
         ran' = [w \in AllWork(serial') |-> 0], Regions' = Regions
  PROVE  Abstract!Next
  <1>1. \A r \in DOMAIN program : Abstract!Work(r) = AllWork(r)
    BY TheRegions DEF Abstract!Work, Regions
  <1>2. Abstract!Following(serial) = serial'
    BY TheRegions DEF Abstract!Following, Regions
  <1>3. Abstract!NothingRan(serial') = ran'
    BY <1>1 DEF Abstract!NothingRan
  <1>4. Abstract!Join
    BY <1>1, <1>2, <1>3 DEF Abstract!Join, Regions
  <1> QED
    BY <1>4 DEF Abstract!Next

(* A step of a thread is a run of work of the stage it is in; every other  *)
(* step of a core leaves the work alone.                                   *)
LEMMA ThreadImplements ==
  ASSUME OneTeam, SharesReturned, Regular, StateInv, TeamInv, WorksInv, CheckInv, NEW i \in {0, 1}, Working(i),
         ShareState, ran \in [AllWork(serial) -> {0, 1}], RanState, NEW c \in Team, CoreStep(c),
         program' = program
  PROVE  Abstract!Next \/ (ran' = ran /\ serial' = serial)
  <1>1. ~ NotInTeam(c)
    BY TeamEvent DEF NotInTeam
  <1>2. CASE Resting(c) \/ Release(c)
    BY <1>2, RestRan
  <1>3. CASE run_task(c)
    BY <1>3, BeginRan
  <1>4. CASE ConstructStep(c)
    <2>1. Progress(c) = turn[c] /\ turn[c] \in 1 .. Length /\ serial' = serial
      BY <1>4, GoesOn
    <2>2. PICK ids : Ran(c, ids)
      BY <1>4, StepRuns
    <2> DEFINE s == Stage(serial, turn[c])
               done == {turn[c]} \X ids
    <2>3. /\ s \in DOMAIN Stages(serial) /\ WorkOf(serial, turn[c]) \subseteq Stages(serial)[s]
          /\ \A t \in 1 .. s - 1 : \A w \in Stages(serial)[t] : ran[w] = 1
      BY <2>1, StageRan
    <2>4. Regions[serial] = Stages(serial) /\ Regions' = Regions
      BY TheRegions, RegionsSame DEF StateInv
    <2>5. done \subseteq WorkOf(serial, turn[c]) /\ \A w \in done : ran[w] = 0
      BY <2>2 DEF Ran
    <2>6. ran' = [w \in DOMAIN ran |-> IF w \in done THEN 1 ELSE ran[w]]
      BY <2>2 DEF Ran
    <2> HIDE DEF s, done
    <2> QED
      BY <2>1, <2>3, <2>4, <2>5, <2>6, RunImplements
  <1> QED
    BY <1>1, <1>2, <1>3, <1>4 DEF CoreStep, Resting, ConstructStep

(* Every step of the runtime is a step of the abstract program or none.    *)
LEMMA StepImplements ==
  ASSUME OneTeam, SharesReturned, Regular, OmpInv, OmpInv', ShareInv, RanInv, [Next]_vars
  PROVE  Abstract!Next \/ (Regions' = Regions /\ ran' = ran /\ serial' = serial)
  <1>1. StateInv /\ TeamInv /\ StateInv' /\ WorksInv /\ CheckInv
    BY DEF OmpInv, ShareInv
  <1>2. program' = program
    BY DEF Next, MasterStep, Fork, GOMP_parallel_start, GOMP_parallel_end, CoreStep, Wfi, run_task, NotInTeam,
           TaskEnd, BarrierInit, BarrierInitWake, FetchAdd, Clear, Release, Past, LockShare,
           gomp_work_share_start, Share, Unlock, GOMP_sections_next, Loop, NextChunk, LoopEnd, Work, Copied,
           GOMP_barrier, Task, EnterCritical, LeaveCritical, vars
  <1>3. Regions' = Regions
    BY <1>2, RegionsSame
  <1>4. CASE Fork \/ GOMP_parallel_start
    BY <1>3, <1>4 DEF Fork, GOMP_parallel_start
  <1>5. CASE GOMP_parallel_end
    <2>1. /\ pc[0] = "join" /\ event.barrier = 0
          /\ serial' = (IF serial = Len(program) THEN 1 ELSE serial + 1) /\ ran' = [w \in AllWork(serial') |-> 0]
      BY <1>5 DEF GOMP_parallel_end, Step
    <2>2. PICK i \in {0, 1} : Working(i)
      BY <1>1, <2>1 DEF TeamInv, Serial
    <2>3. RanState
      BY <2>1 DEF RanInv
    <2>4. \A w \in AllWork(serial) : ran[w] = 1
      BY <1>1, <2>1, <2>2, <2>3, RegionRan
    <2>5. serial \in DOMAIN program /\ serial' \in DOMAIN program
      BY <1>1, <1>2 DEF StateInv
    <2> QED
      BY <1>1, <1>3, <2>1, <2>4, <2>5, JoinImplements
  <1>6. ASSUME NEW c \in Cores, CoreStep(c)
        PROVE  Abstract!Next \/ (ran' = ran /\ serial' = serial)
    <2>1. CASE c \in Team
      <3>1. PICK i \in {0, 1} : Working(i)
        BY <1>1, <1>6, <2>1, NobodyElse DEF TeamInv
      <3>2. ShareState /\ RanState /\ ran \in [AllWork(serial) -> {0, 1}]
        BY <3>1 DEF Working, ShareInv, RanInv
      <3> QED
        BY <1>1, <1>2, <1>6, <2>1, <3>1, <3>2, ThreadImplements
    <2>2. CASE c \notin Team
      <3>1. ran' = ran
        BY <1>1, <1>6, <2>2, OutsiderMoves
      <3>2. serial' = serial
        BY <1>6 DEF CoreStep, Wfi, run_task, NotInTeam, TaskEnd, BarrierInit, BarrierInitWake,
             FetchAdd, Clear, Release, Past, LockShare, gomp_work_share_start, Share, Unlock,
             GOMP_sections_next, Loop, NextChunk, LoopEnd, Work, Copied, GOMP_barrier, Task, EnterCritical,
             LeaveCritical
      <3> QED
        BY <3>1, <3>2
    <2> QED
      BY <2>1, <2>2
  <1>7. CASE UNCHANGED vars
    BY <1>3, <1>7 DEF vars
  <1> QED
    BY <1>3, <1>4, <1>5, <1>6, <1>7 DEF Next, MasterStep

(* The runtime implements ForkJoin: every iteration, section and block of  *)
(* a region runs exactly once, after the stages before its own, and before *)
(* GOMP_parallel_end returns to the master.                                *)
THEOREM ForkJoinImplemented ==
  ASSUME OneTeam, SharesReturned, Regular
  PROVE  Spec => ImplementsForkJoin
  <1> DEFINE Inv == OmpInv /\ ShareInv /\ RanInv
  <1>1. Init => Inv
    BY InitState, ShareInit, RanInit
  <1>2. Inv /\ [Next]_vars => Inv'
    <2> SUFFICES ASSUME Inv, [Next]_vars
                 PROVE  Inv'
      OBVIOUS
    <2>1. OmpInv'
      BY OmpStep
    <2> QED
      BY <2>1, ShareStep, RanStep
  <1>3. Init => Abstract!Init
    <2> SUFFICES ASSUME Init
                 PROVE  Abstract!Init
      OBVIOUS
    <2>1. StateInv /\ 1 \in DOMAIN program /\ serial = 1 /\ ran = [w \in AllWork(1) |-> 0]
      BY InitState DEF OmpInv, StateInv, Init
    <2>2. Abstract!Work(1) = AllWork(1)
      BY <2>1, TheRegions DEF Abstract!Work, Regions
    <2> QED
      BY <2>1, <2>2 DEF Abstract!Init, Abstract!NothingRan
  <1>4. Inv /\ [Next]_vars => [Abstract!Next]_<<[r \in DOMAIN program |-> Stages(r)], serial, ran>>
    <2> SUFFICES ASSUME Inv, [Next]_vars
                 PROVE  Abstract!Next \/ (Regions' = Regions /\ ran' = ran /\ serial' = serial)
      BY DEF Regions
    <2>1. OmpInv'
      BY OmpStep
    <2> QED
      BY <2>1, StepImplements
  <1> QED
    BY <1>1, <1>2, <1>3, <1>4, PTL DEF Spec, ImplementsForkJoin, Abstract!Spec
===============================================================================
