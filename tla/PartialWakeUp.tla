----------------------------- MODULE PartialWakeUp -----------------------------
(***************************************************************************)
(* software/runtime/synchronization.c: which wake-up registers the last    *)
(* core of a partial barrier writes, in order, to wake the cores of its    *)
(* range.  Masks are 32 bits wide and a shift uses five bits of its        *)
(* amount, so that core_init may wrap around without changing a mask.      *)
(***************************************************************************)
EXTENDS WakeUp

(* ((1U << n) - 1) << lo *)
Ones(n, lo) == {b \in AllOnes : b >= lo % 32 /\ b < (lo % 32) + (n % 32)}

(* The wake-ups of the cores lo .. hi - 1, upwards and downwards.          *)
EachUp(lo, hi) == [i \in 1 .. (IF hi > lo THEN hi - lo ELSE 0) |-> wake_up(lo + i - 1)]
EachDown(lo, hi) == [i \in 1 .. (IF hi > lo THEN hi - lo ELSE 0) |-> wake_up(hi - i)]

UpToTile(c) == c + ((- c) % NumCoresPerTile)
DownToTile(c) == c - (c % NumCoresPerTile)

-------------------------------------------------------------------------------
(* mempool_log_partial_barrier for the range of n cores that holds core.   *)
LogPartialWakesNoGroups(core, n) ==                       \* mutant: no case for whole groups
  LET core_init == n * (core \div n)
      core_end == core_init + n
      tile_init == core_init \div NumCoresPerTile
      tile_end == core_end \div NumCoresPerTile
  IN  IF n >= NumCores THEN <<wake_up_all>>
      ELSE IF n >= NumCoresPerTile
           THEN <<wake_up_tile(tile_init \div NumTilesPerGroup,
                               Ones(tile_end - tile_init, tile_init % NumTilesPerGroup))>>
           ELSE EachUp(core_init, core_end)

LogPartialWakes(core, n) ==
  LET core_init == n * (core \div n)
      core_end == core_init + n
      group_init == core_init \div NumCoresPerGroup
      group_end == core_end \div NumCoresPerGroup
      tile_init == core_init \div NumCoresPerTile
      tile_end == core_end \div NumCoresPerTile
  IN  IF n >= NumCores THEN <<wake_up_all>>
      ELSE IF n >= NumCoresPerGroup
           THEN <<wake_up_group(Ones(group_end - group_init, group_init))>>
      ELSE IF n >= NumCoresPerTile
           THEN <<wake_up_tile(tile_init \div NumTilesPerGroup,
                               Ones(tile_end - tile_init, tile_init % NumTilesPerGroup))>>
           ELSE EachUp(core_init, core_end)

-------------------------------------------------------------------------------
(* mempool_partial_barrier for the n cores from init on, in its three      *)
(* parts; each part moves core_init and core_end towards each other.       *)

CoreRemainder(core_init, core_end) ==
  LET n == core_end - core_init
  IN  IF n > NumCoresPerTile
      THEN [wakes |-> EachUp(core_init, UpToTile(core_init)) \o EachDown(DownToTile(core_end), core_end),
            init |-> UpToTile(core_init), end |-> DownToTile(core_end)]
      ELSE [wakes |-> IF n < NumCoresPerTile THEN EachUp(core_init, core_end) ELSE <<>>,
            init |-> IF n < NumCoresPerTile THEN core_end ELSE core_init,
            end |-> core_end]

TileRemainder(core_init, core_end) ==
  LET tile_init == core_init \div NumCoresPerTile
      tile_end == core_end \div NumCoresPerTile
      n == tile_end - tile_init
      off == tile_init % NumTilesPerGroup
  IN  IF n > NumTilesPerGroup
      THEN [wakes |-> <<wake_up_tile(tile_init \div NumTilesPerGroup, Ones(16 - off, off)),
                        wake_up_tile(tile_end \div NumTilesPerGroup, Ones(tile_end % NumTilesPerGroup, 0))>>,
            init |-> core_init + NumCoresPerTile * (16 - tile_init),
            end |-> core_end - ((NumCoresPerTile * tile_end) % NumTilesPerGroup)]
      ELSE IF n < NumTilesPerGroup
      THEN [wakes |-> <<wake_up_tile(tile_init \div NumTilesPerGroup, Ones(n, off))>>,
            init |-> core_init + NumCoresPerTile * n, end |-> core_end]
      ELSE [wakes |-> <<>>, init |-> core_init, end |-> core_end]

GroupRemainder(core_init, core_end) ==
  LET group_init == core_init \div NumCoresPerGroup
      group_end == core_end \div NumCoresPerGroup
  IN  IF group_end # group_init
      THEN <<wake_up_group(Ones(group_end - group_init, group_init))>> ELSE <<>>

PartialWakesTwice(init, n) ==                           \* mutant: core_init not moved on
  LET cores == CoreRemainder(init, init + n)
  IN  cores.wakes \o TileRemainder(init, cores.end).wakes

PartialWakes(init, n) ==
  LET cores == CoreRemainder(init, init + n)
      tiles == TileRemainder(cores.init, cores.end)
  IN  cores.wakes \o tiles.wakes \o GroupRemainder(tiles.init, tiles.end)
===============================================================================
