---------------------------------- MODULE Omp ----------------------------------
(***************************************************************************)
(* The OpenMP runtime of software/runtime/omp: core 0 is the master and    *)
(* runs the parallel regions of a program again and again, the other cores *)
(* loop on mempool_wfi(); run_task(core_id).  Writes of a core are         *)
(* performed in its program order (the runtime has no fence before most of *)
(* its wake-ups).                                                          *)
(*                                                                         *)
(* A region is a record: fn, the library function the compiler calls for   *)
(* it, num_threads, and body, the constructs its function runs through, in *)
(* order.  A construct has its op:                                         *)
(*   "loop"      for schedule(dynamic): start, end, incr, chunk            *)
(*   "sections"  count                                                     *)
(*   "single", "copyprivate", "barrier"                                    *)
(*   "critical"  with lock "critical_lock" or "atomic_lock"                *)
(*   "task"      code every thread runs for itself                         *)
(* A region with the fn of a combined construct has that construct alone   *)
(* in its body.  An idle core c has pc "wfi" and after "run_task".         *)
(***************************************************************************)
EXTENDS WakeUp, FiniteSets

CONSTANTS Programs,            \* sequences of regions
          Garbage              \* what L1 may hold at reset

VARIABLES
  program,
  pc, after,                   \* control, and where a core goes on after WFI or a barrier
  fn, turn,                    \* the region a core runs and its construct in it
  first,                       \* what gomp_work_share_start returned to a core
  got,                         \* the work a call gave it: iterations, a section or a block
  completed,                   \* its local copy of works.completed
  event, works,                \* the globals of parallel.c
  barrier,                     \* the counter of synchronization.c
  wake_up_q,                   \* snitch.sv: wake-ups stored per core
  serial,                      \* the region the master runs or is about to fork
  ran                          \* how often each piece of its work has been run

localVars == <<first, got, completed>>
coreVars == <<pc, after, fn, turn, localVars>>
vars == <<program, coreVars, event, works, barrier, wake_up_q, serial, ran>>

-------------------------------------------------------------------------------
(* The work of a program.                                                  *)

num_cores == NumCores
TeamSize(r) == IF program[r].num_threads = 0 THEN num_cores ELSE program[r].num_threads

(* The iterations of a loop from start that ends before it reaches end.    *)
Iterations(start, end, incr) ==
  IF incr > 0 THEN {i \in start .. end - 1 : (i - start) % incr = 0}
              ELSE {i \in end + 1 .. start : (start - i) % (-incr) = 0}

(* The pieces of work of construct k of region r, per stage: pairs of the  *)
(* construct and an iteration, a section or a thread.                      *)
WorkOf(r, k) ==
  LET x == program[r].body[k]
      ids == CASE x.op = "loop" -> Iterations(x.start, x.end, x.incr)
               [] x.op = "sections" -> 1 .. x.count
               [] x.op \in {"single", "copyprivate"} -> {0}
               [] x.op = "barrier" -> {}
               [] x.op \in {"critical", "task"} -> 0 .. TeamSize(r) - 1
  IN  {k} \X ids

AllWork(r) == UNION {WorkOf(r, k) : k \in DOMAIN program[r].body}

(* The constructs that end with a barrier, by the OpenMP specification.    *)
EndsWithBarrier(x) == x.op \notin {"critical", "task"}

(* The work of region r between its barriers.                              *)
Stages(r) ==
  LET body == program[r].body
      stage(k) == 1 + Cardinality({j \in 1 .. k - 1 : EndsWithBarrier(body[j])})
  IN  [s \in 1 .. 1 + Len(body) |->
         UNION {WorkOf(r, k) : k \in {j \in DOMAIN body : stage(j) = s}}]

-------------------------------------------------------------------------------
(* Control of a core.                                                      *)

At(c) == program[fn[c]].body[turn[c]]

(* Where construct x of a region called with call starts.                  *)
Entry(call, x) ==
  CASE x.op = "loop" /\ call = "GOMP_parallel_loop_dynamic" -> "loop_next"
    [] x.op = "sections" /\ call = "GOMP_parallel_sections" -> "sections_next"
    [] x.op \in {"critical", "task"} -> x.op
    [] x.op = "barrier" -> "sync"
    [] OTHER -> "lock"

(* Core c goes on with construct k of region r, or to the end of it.       *)
Goto(c, r, k) ==
  /\ fn' = [fn EXCEPT ![c] = r]
  /\ turn' = [turn EXCEPT ![c] = k]
  /\ pc' = [pc EXCEPT ![c] = IF k \in DOMAIN program[r].body
                               THEN Entry(program[r].fn, program[r].body[k])
                               ELSE "task_end"]

Advance(c) == Goto(c, fn[c], turn[c] + 1)

Step(c, from, to) == pc[c] = from /\ pc' = [pc EXCEPT ![c] = to] /\ UNCHANGED <<fn, turn>>

(* mempool_barrier_gomp is called, and core c goes on at ret after it.     *)
(* barrier_init_gomp is never written, so that every call initialises.     *)
CallBarrier(c, from, ret) ==
  /\ Step(c, from, "barrier")
  /\ after' = [after EXCEPT ![c] = ret]

(* Core c runs pieces of work of its construct.                            *)
RunWork(c, ids) ==
  LET done == {turn[c]} \X ids
      times(w) == IF w \in DOMAIN ran THEN ran[w] ELSE 0
  IN  ran' = [w \in DOMAIN ran \cup done |-> times(w) + (IF w \in done THEN 1 ELSE 0)]

Init ==
  /\ program \in Programs
  /\ pc = [c \in Cores |-> IF c = 0 THEN "serial" ELSE "wfi"]
  /\ after = [c \in Cores |-> "run_task"]
  /\ fn = [c \in Cores |-> 1]
  /\ turn = [c \in Cores |-> 0]
  /\ first = [c \in Cores |-> FALSE]
  /\ got = [c \in Cores |-> {}]
  /\ completed = [c \in Cores |-> 0]
  /\ event = [fn |-> 1, nthreads |-> 0, barrier |-> 0, thread_pool |-> {}]
  /\ works = [end |-> 0, next |-> 0, chunk_size |-> 0, incr |-> 0, lock |-> 0, checkfirst |-> FALSE,
              completed |-> 0, copyprivate |-> <<>>, critical_lock |-> 0, atomic_lock |-> 0]
  /\ barrier \in Garbage
  /\ wake_up_q = [c \in Cores |-> 0]
  /\ serial = 1
  /\ ran = [w \in AllWork(1) |-> 0]

-------------------------------------------------------------------------------
(* Sleeping and waking.  A core at "wfi" or "wfi_init" with no stored      *)
(* wake-up is asleep.                                                      *)

Resumed(c) == IF pc[c] = "wfi_init" THEN "barrier_add" ELSE after[c]

Wfi(c) ==
  /\ pc[c] \in {"wfi", "wfi_init"}
  /\ wake_up_q[c] > 0
  /\ wake_up_q' = [wake_up_q EXCEPT ![c] = @ - 1]
  /\ pc' = [pc EXCEPT ![c] = Resumed(c)]
  /\ UNCHANGED <<program, after, fn, turn, localVars, event, works, barrier, serial, ran>>

(* Core c calls wake_up_all and goes from one point to another.            *)
WakeUpAll(c, from, to) ==
  LET asleep == {d \in Cores : pc[d] \in {"wfi", "wfi_init"} /\ wake_up_q[d] = 0}
  IN  /\ pc[c] = from
      /\ pc' = [d \in Cores |-> IF d = c THEN to ELSE IF d \in asleep THEN Resumed(d) ELSE pc[d]]
      /\ wake_up_q' = [d \in Cores |-> WakeUpAfter(d \in asleep, wake_up_q[d], FALSE, TRUE)]
      /\ UNCHANGED <<fn, turn>>

-------------------------------------------------------------------------------
(* parallel.c, and the functions of loop.c and sections.c that fork.       *)

gomp_new_work_share(w) ==
  [w EXCEPT !.lock = 0, !.checkfirst = FALSE, !.completed = 0,
            !.critical_lock = 0, !.atomic_lock = 0]

gomp_loop_init(w, x) ==
  [w EXCEPT !.chunk_size = x.chunk, !.end = x.end, !.incr = x.incr, !.next = x.start]

gomp_sections_init(w, x) ==
  [w EXCEPT !.end = x.count + 1, !.next = 1, !.chunk_size = 1, !.incr = 1]

set_event(r) ==
  [fn |-> r, nthreads |-> TeamSize(r), barrier |-> TeamSize(r), thread_pool |-> 0 .. TeamSize(r) - 1]

(* GOMP_parallel, GOMP_parallel_loop_dynamic or GOMP_parallel_sections up  *)
(* to the wake-up in GOMP_parallel_start.                                  *)
Fork ==
  LET call == program[serial].fn
      x == program[serial].body[1]
      w == gomp_new_work_share(works)
  IN  /\ Step(0, "serial", "fork")
      /\ works' = CASE call = "GOMP_parallel" -> w
                    [] call = "GOMP_parallel_loop_dynamic" -> gomp_loop_init(w, x)
                    [] call = "GOMP_parallel_sections" -> gomp_sections_init(w, x)
      /\ event' = set_event(serial)
      /\ UNCHANGED <<program, after, localVars, barrier, wake_up_q, serial, ran>>

GOMP_parallel_start ==
  /\ WakeUpAll(0, "fork", "wfi")
  /\ after' = [after EXCEPT ![0] = "run_task"]
  /\ UNCHANGED <<program, localVars, event, works, barrier, serial, ran>>

run_task_unchecked(c) ==                           \* mutant: any core that wakes runs it
  /\ pc[c] = "run_task"
  /\ Goto(c, event.fn, 1)
  /\ UNCHANGED <<program, after, localVars, event, works, barrier, wake_up_q, serial, ran>>

(* run_task: a core of the team calls event.fn.                            *)
run_task(c) ==
  /\ pc[c] = "run_task"
  /\ c \in event.thread_pool
  /\ Goto(c, event.fn, 1)
  /\ UNCHANGED <<program, after, localVars, event, works, barrier, wake_up_q, serial, ran>>

(* Any other core goes back to sleep.                                      *)
NotInTeam(c) ==
  /\ c \notin event.thread_pool
  /\ Step(c, "run_task", "wfi")
  /\ UNCHANGED <<program, after, localVars, event, works, barrier, wake_up_q, serial, ran>>

(* The end of run_task: the master goes on in GOMP_parallel_end, a worker  *)
(* in its loop.  turn is 0 outside of a region.                            *)
TaskEnd(c) ==
  /\ pc[c] = "task_end"
  /\ pc' = [pc EXCEPT ![c] = IF c = 0 THEN "join" ELSE "wfi"]
  /\ after' = [after EXCEPT ![c] = "run_task"]
  /\ turn' = [turn EXCEPT ![c] = 0]
  /\ event' = [event EXCEPT !.barrier = @ - 1]
  /\ UNCHANGED <<program, fn, localVars, works, barrier, wake_up_q, serial, ran>>

GOMP_parallel_end_early ==                         \* mutant: the last worker is not waited for
  /\ event.barrier <= 1
  /\ Step(0, "join", "serial")
  /\ serial' = IF serial = Len(program) THEN 1 ELSE serial + 1
  /\ ran' = [w \in AllWork(serial') |-> 0]
  /\ UNCHANGED <<program, after, localVars, event, works, barrier, wake_up_q>>

(* The counter is unsigned: it is 0 or it is above 0.                      *)
GOMP_parallel_end ==
  /\ event.barrier = 0
  /\ Step(0, "join", "serial")
  /\ serial' = IF serial = Len(program) THEN 1 ELSE serial + 1
  /\ ran' = [w \in AllWork(serial') |-> 0]
  /\ UNCHANGED <<program, after, localVars, event, works, barrier, wake_up_q>>

-------------------------------------------------------------------------------
(* barrier.c and mempool_barrier.                                          *)

(* mempool_barrier_gomp up to its wake-up: core 0 initialises barrier.     *)
BarrierInit(c) ==
  /\ Step(c, "barrier", IF c = 0 THEN "barrier_wake" ELSE "wfi_init")
  /\ barrier' = IF c = 0 THEN 0 ELSE barrier
  /\ UNCHANGED <<program, after, localVars, event, works, wake_up_q, serial, ran>>

BarrierInitWake(c) ==
  /\ WakeUpAll(c, "barrier_wake", "wfi_init")
  /\ UNCHANGED <<program, after, localVars, event, works, barrier, serial, ran>>

FetchAddOfCluster(c) ==                            \* mutant: waits for the whole cluster
  /\ Step(c, "barrier_add", IF barrier = num_cores - 1 THEN "barrier_clear" ELSE "wfi")
  /\ barrier' = barrier + 1
  /\ UNCHANGED <<program, after, localVars, event, works, wake_up_q, serial, ran>>

(* mempool_barrier: the last of the team goes on to clear the counter, any *)
(* other thread to sleep.                                                  *)
FetchAdd(c) ==
  /\ Step(c, "barrier_add", IF barrier = event.nthreads - 1 THEN "barrier_clear" ELSE "wfi")
  /\ barrier' = barrier + 1
  /\ UNCHANGED <<program, after, localVars, event, works, wake_up_q, serial, ran>>

(* The store and the fence.                                                *)
Clear(c) ==
  /\ Step(c, "barrier_clear", "barrier_release")
  /\ barrier' = 0
  /\ UNCHANGED <<program, after, localVars, event, works, wake_up_q, serial, ran>>

Release(c) ==
  /\ WakeUpAll(c, "barrier_release", "wfi")
  /\ UNCHANGED <<program, after, localVars, event, works, barrier, serial, ran>>

(* The construct ends with the barrier.                                    *)
Past(c) ==
  /\ pc[c] = "past"
  /\ Advance(c)
  /\ UNCHANGED <<program, after, localVars, event, works, barrier, wake_up_q, serial, ran>>

-------------------------------------------------------------------------------
(* omp-lock.h and work.c.                                                  *)

gomp_hal_lock_ignored(lock) == works' = [works EXCEPT ![lock] = 1]      \* mutant: not waited for

(* gomp_hal_lock, when its fetch_or finds the lock free; while it does not *)
(* the core spins and nothing changes.                                     *)
gomp_hal_lock(lock) == works[lock] = 0 /\ works' = [works EXCEPT ![lock] = 1]

gomp_hal_unlock(lock) == works' = [works EXCEPT ![lock] = 0]

(* gomp_work_share_start, as far as its read of checkfirst.                *)
LockShare(c) ==
  /\ Step(c, "lock", "check")
  /\ gomp_hal_lock("lock")
  /\ UNCHANGED <<program, after, localVars, event, barrier, wake_up_q, serial, ran>>

gomp_work_share_start(c) ==
  /\ Step(c, "check", "share")
  /\ first' = [first EXCEPT ![c] = ~ works.checkfirst]
  /\ UNCHANGED <<program, after, got, completed, event, works, barrier, wake_up_q, serial, ran>>

(* The first thread of a work share marks it.                              *)
Marked(w) == [w EXCEPT !.checkfirst = TRUE, !.completed = 0]

(* GOMP_single_start: the last thread of the team gives the share back.    *)
Counted(w) ==
  LET n == w.completed + 1
  IN  [w EXCEPT !.completed = n, !.checkfirst = @ /\ n # event.nthreads]

(* The rest of GOMP_loop_dynamic_start, GOMP_sections_start,               *)
(* GOMP_single_start and GOMP_single_copy_start under the lock, and        *)
(* GOMP_sections_next: from a share that has been initialised it does to   *)
(* next what GOMP_sections_start does.                                     *)
Share(c) ==
  LET x == At(c)
      w == IF first[c] THEN Marked(works) ELSE works
      s == IF first[c] /\ x.op = "sections" THEN gomp_sections_init(w, x) ELSE w
      section == IF s.next # s.end THEN {s.next} ELSE {}
  IN  /\ Step(c, "share", "unlock")
      /\ CASE x.op = "loop" ->
                /\ works' = IF first[c] THEN gomp_loop_init(w, x) ELSE w
                /\ UNCHANGED <<got, completed>>
           [] x.op = "sections" ->
                /\ works' = [s EXCEPT !.next = @ + Cardinality(section)]
                /\ got' = [got EXCEPT ![c] = section]
                /\ UNCHANGED completed
           [] x.op = "single" ->
                /\ works' = Counted(w)
                /\ got' = [got EXCEPT ![c] = IF first[c] THEN {0} ELSE {}]
                /\ UNCHANGED completed
           [] x.op = "copyprivate" ->
                /\ works' = [w EXCEPT !.completed = @ + 1]
                /\ got' = [got EXCEPT ![c] = IF first[c] THEN {0} ELSE {}]
                /\ completed' = [completed EXCEPT ![c] = works'.completed]
      /\ UNCHANGED <<program, after, first, event, barrier, wake_up_q, serial, ran>>

(* The lock is released, and the compiled code goes by what the call       *)
(* returned: to the work it got, or past the construct.                    *)
Unlock(c) ==
  LET op == At(c).op
  IN  /\ pc[c] = "unlock"
      /\ gomp_hal_unlock("lock")
      /\ CASE op = "loop" -> Step(c, "unlock", "loop_start") /\ UNCHANGED after
           [] op = "sections" /\ got[c] = {} -> Advance(c) /\ UNCHANGED after
           [] op = "single" /\ got[c] = {} -> Step(c, "unlock", "sync") /\ UNCHANGED after
           [] op = "copyprivate" /\ got[c] = {} -> CallBarrier(c, "unlock", "copied")
           [] OTHER -> Step(c, "unlock", "work") /\ UNCHANGED after
      /\ UNCHANGED <<program, localVars, event, barrier, wake_up_q, serial, ran>>

(* GOMP_sections_next takes the lock.                                      *)
GOMP_sections_next(c) ==
  /\ Step(c, "sections_next", "share")
  /\ gomp_hal_lock("lock")
  /\ first' = [first EXCEPT ![c] = FALSE]
  /\ UNCHANGED <<program, after, got, completed, event, barrier, wake_up_q, serial, ran>>

-------------------------------------------------------------------------------
(* loop.c *)

(* The end of the chunk from start.                                        *)
ChunkEnd(start, chunk) == IF chunk > works.end - start THEN works.end ELSE start + chunk

(* GOMP_loop_dynamic_start after the lock, and GOMP_loop_dynamic_next: the *)
(* next chunk is fetched.  works.end, which they read right after next, is *)
(* not written while a thread is in the loop.                              *)
NextChunk(c, from, chunk) ==
  LET start == works.next
  IN  /\ start < works.end
      /\ Step(c, from, "work")
      /\ works' = [works EXCEPT !.next = @ + chunk]
      /\ got' = [got EXCEPT ![c] = Iterations(start, ChunkEnd(start, chunk), At(c).incr)]
      /\ UNCHANGED <<program, after, first, completed, event, barrier, wake_up_q, serial, ran>>

(* No chunk is left: GOMP_loop_end is a barrier, GOMP_loop_end_nowait of a *)
(* combined construct is nothing.                                          *)
LoopEnd(c, from, chunk) ==
  /\ pc[c] = from
  /\ works.next >= works.end
  /\ works' = [works EXCEPT !.next = @ + chunk]
  /\ IF program[fn[c]].fn = "GOMP_parallel"
       THEN CallBarrier(c, from, "past")
       ELSE Advance(c) /\ UNCHANGED after
  /\ UNCHANGED <<program, localVars, event, barrier, wake_up_q, serial, ran>>

Loop(c) ==
  LET given == At(c).chunk * At(c).incr
      kept == works.chunk_size * works.incr
  IN  \/ pc[c] = "loop_start" /\ (NextChunk(c, "loop_start", given) \/ LoopEnd(c, "loop_start", given))
      \/ pc[c] = "loop_next" /\ (NextChunk(c, "loop_next", kept) \/ LoopEnd(c, "loop_next", kept))

-------------------------------------------------------------------------------
(* The compiled code of the region, and what is left of single.c,          *)
(* barrier.c and critical.c.                                               *)

(* The work that the call returned.  GOMP_single_copy_end publishes where  *)
(* the result is: on the stack of core c, for this construct.              *)
Work(c) ==
  LET op == At(c).op
  IN  /\ pc[c] = "work"
      /\ RunWork(c, got[c])
      /\ CASE op = "loop" -> Step(c, "work", "loop_next") /\ UNCHANGED <<after, works>>
           [] op = "sections" -> Step(c, "work", "sections_next") /\ UNCHANGED <<after, works>>
           [] op = "single" -> Step(c, "work", "sync") /\ UNCHANGED <<after, works>>
           [] op = "copyprivate" ->
                /\ works' = [works EXCEPT !.copyprivate = <<c, fn[c], turn[c]>>]
                /\ CallBarrier(c, "work", "sync")
      /\ UNCHANGED <<program, localVars, event, barrier, wake_up_q, serial>>

(* GOMP_single_copy_start after its barrier: the last thread gives the     *)
(* share back; the compiled code copies from works.copyprivate.            *)
Copied(c) ==
  /\ Step(c, "copied", "sync")
  /\ works' = [works EXCEPT !.checkfirst = @ /\ completed[c] # event.nthreads]
  /\ UNCHANGED <<program, after, localVars, event, barrier, wake_up_q, serial, ran>>

GOMP_barrier_skipped(c) ==                         \* mutant
  /\ Step(c, "sync", "past")
  /\ UNCHANGED <<program, after, localVars, event, works, barrier, wake_up_q, serial, ran>>

(* The barrier of the program, or the one the compiler puts after a        *)
(* single.                                                                 *)
GOMP_barrier(c) ==
  /\ CallBarrier(c, "sync", "past")
  /\ UNCHANGED <<program, localVars, event, works, barrier, wake_up_q, serial, ran>>

Task(c) ==
  /\ pc[c] = "task"
  /\ RunWork(c, {c})
  /\ Advance(c)
  /\ UNCHANGED <<program, after, localVars, event, works, barrier, wake_up_q, serial>>

(* GOMP_critical_start, GOMP_atomic_start.                                 *)
EnterCritical(c) ==
  /\ Step(c, "critical", "in_critical")
  /\ gomp_hal_lock(At(c).lock)
  /\ UNCHANGED <<program, after, localVars, event, barrier, wake_up_q, serial, ran>>

(* The block, and GOMP_critical_end, GOMP_atomic_end.                      *)
LeaveCritical(c) ==
  /\ pc[c] = "in_critical"
  /\ RunWork(c, {c})
  /\ gomp_hal_unlock(At(c).lock)
  /\ Advance(c)
  /\ UNCHANGED <<program, after, localVars, event, barrier, wake_up_q, serial>>

-------------------------------------------------------------------------------
CoreStep(c) ==
  \/ Wfi(c) \/ run_task(c) \/ NotInTeam(c) \/ TaskEnd(c)
  \/ BarrierInit(c) \/ BarrierInitWake(c) \/ FetchAdd(c) \/ Clear(c) \/ Release(c) \/ Past(c)
  \/ LockShare(c) \/ gomp_work_share_start(c) \/ Share(c) \/ Unlock(c) \/ GOMP_sections_next(c)
  \/ Loop(c) \/ Work(c) \/ Copied(c) \/ GOMP_barrier(c) \/ Task(c)
  \/ EnterCritical(c) \/ LeaveCritical(c)

MasterStep == Fork \/ GOMP_parallel_start \/ GOMP_parallel_end

Next == MasterStep \/ \E c \in Cores : CoreStep(c)

(* Every core keeps executing instructions.                                *)
Spec == /\ Init /\ [][Next]_vars
        /\ WF_vars(MasterStep)
        /\ \A c \in Cores : WF_vars(CoreStep(c))

-------------------------------------------------------------------------------
(* Types of the variables; event.barrier and works.completed count the     *)
(* threads of a team.                                                      *)
TypeOK ==
  /\ program \in Programs
  /\ event.fn \in DOMAIN program
  /\ event.barrier \in 0 .. NumCores
  /\ barrier \in Garbage \cup 0 .. NumCores
  /\ works.completed \in 0 .. NumCores
  /\ wake_up_q \in [Cores -> 0 .. OutstandingWfi - 1]
  /\ \A c \in Cores : turn[c] \in 0 .. 1 + Len(program[fn[c]].body)

Abstract == INSTANCE ForkJoin WITH
  regions <- [r \in DOMAIN program |-> Stages(r)], now <- serial

(* Every iteration, section and block of a region runs exactly once, in    *)
(* the stage of the region it is in, and before GOMP_parallel_end returns  *)
(* to the master.                                                          *)
ImplementsForkJoin == Abstract!Spec

(* One thread at a time between the start and the end of a critical or an  *)
(* atomic construct, over all of the constructs of the program.            *)
CriticalExclusive ==
  \A c, d \in Cores :
    c # d /\ pc[c] = "in_critical" /\ pc[d] = "in_critical" => At(c).lock # At(d).lock

(* What a thread copies at the end of GOMP_single_copy_start was published *)
(* for the construct the thread is in, and is still on the stack of a      *)
(* thread that has not left the construct.                                 *)
CopyDelivered ==
  \A c \in Cores : pc[c] = "copied" =>
    \E d \in Cores \ {c} :
      works.copyprivate = <<d, fn[c], turn[c]>> /\ fn[d] = fn[c] /\ turn[d] = turn[c]

(* A core of the team stores at most two wake-ups, far from the limit of   *)
(* wake_up_q at which one is lost, and none when it is joined.             *)
WakeUpsMatched ==
  /\ \A c \in event.thread_pool : wake_up_q[c] <= 2
  /\ pc[0] = "serial" => wake_up_q[0] = 0

(* The master is never stuck: every region it forks is joined.             *)
RegionsJoin == []<>(pc[0] = "serial")
===============================================================================
