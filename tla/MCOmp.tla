--------------------------------- MODULE MCOmp ---------------------------------
(***************************************************************************)
(* Programs of Omp for TLC, on three cores.                                *)
(***************************************************************************)
EXTENDS Omp

Parallel(n, body) == [fn |-> "GOMP_parallel", num_threads |-> n, body |-> body]
ParallelFor(n, loop) == [fn |-> "GOMP_parallel_loop_dynamic", num_threads |-> n, body |-> <<loop>>]
ParallelSections(n, k) ==
  [fn |-> "GOMP_parallel_sections", num_threads |-> n, body |-> <<[op |-> "sections", count |-> k]>>]

Dynamic(start, end, incr, chunk) ==
  [op |-> "loop", start |-> start, end |-> end, incr |-> incr, chunk |-> chunk]
Sections(k) == [op |-> "sections", count |-> k]
Single == [op |-> "single"]
Copyprivate == [op |-> "copyprivate"]
Sync == [op |-> "barrier"]
Each == [op |-> "task"]
Critical == [op |-> "critical", lock |-> "critical_lock"]
Atomic == [op |-> "critical", lock |-> "atomic_lock"]

(* Shares that are given back and taken again in a region; a team smaller  *)
(* than the cluster, whose other core is woken by every barrier; chunks    *)
(* that do not divide the range; sections after a copyprivate.             *)
MCPrograms ==
  { <<Parallel(0, <<Single, Dynamic(-1, 4, 2, 2)>>), ParallelFor(0, Dynamic(0, 3, 1, 2))>>,
    <<Parallel(2, <<Critical, Critical, Atomic, Sync, Each>>), ParallelSections(2, 3)>>,
    <<Parallel(0, <<Copyprivate, Copyprivate, Sections(2)>>)>> }

(* A loop that counts down, as in gcc_omp_parallel_for_schedule_dynamic of *)
(* software/tests/omp/omp_parallel_for_dynamic/main.c.                     *)
Descending == {<<ParallelFor(0, Dynamic(3, 0, -1, 2))>>}

(* test_omp_many of software/tests/omp/omp_test/main.c: a dynamic loop, a  *)
(* static one, which is a task and a barrier, then a single.               *)
Many == {<<Parallel(0, <<Dynamic(0, 3, 1, 2), Each, Sync, Single>>)>>}

(* software/tests/omp/omp_parallel/main.c: a small team, then a larger one.*)
Growing == {<<Parallel(2, <<Each>>), Parallel(0, <<Each>>)>>}

ZeroOrOne == {0, 1}
===============================================================================
