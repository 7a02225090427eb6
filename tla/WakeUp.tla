-------------------------------- MODULE WakeUp --------------------------------
(***************************************************************************)
(* How a core is put to sleep and woken: the wake-up part of               *)
(* hardware/src/ctrl_registers.sv, which turns a register write into a     *)
(* pulse to a set of cores, and the WFI logic of                           *)
(* hardware/deps/snitch/src/snitch.sv, which stores pulses that come early.*)
(* A bit mask is the set of its set bits.                                  *)
(***************************************************************************)
EXTENDS Integers, Sequences

CONSTANTS NumCores, NumCoresPerTile, NumGroups,
          OutstandingWfi       \* wake_up_q has $clog2(OutstandingWfi) bits

ASSUME ConfigAssumption ==
  /\ NumCores \in Nat \ {0}
  /\ NumCoresPerTile \in Nat \ {0}
  /\ NumGroups \in Nat \ {0}
  /\ OutstandingWfi \in Nat \ {0}

NumCoresPerGroup == NumCores \div NumGroups
NumTilesPerGroup == NumCoresPerGroup \div NumCoresPerTile

Cores == 0 .. NumCores - 1
Group(c) == c \div NumCoresPerGroup
TileInGroup(c) == (c % NumCoresPerGroup) \div NumCoresPerTile

-------------------------------------------------------------------------------
(* The control registers.  A write is a record with the register's name.   *)

AllOnes == 0 .. 31

WokenByCore(q) == IF q \in Cores THEN {q} ELSE Cores

WokenByTiles(g, q) ==
  {c \in Cores : Group(c) = g /\ TileInGroup(c) \in q /\ q \subseteq 0 .. NumTilesPerGroup - 1}

WokenByGroups(q) ==
  {c \in Cores : q = AllOnes \/ (Group(c) \in q /\ q \subseteq 0 .. NumGroups - 1)}

(* wake_up_o for the write w, before the stride mask.                      *)
Woken(w) == CASE w.reg = "wake_up" -> WokenByCore(w.val)
              [] w.reg = "wake_up_tile" -> WokenByTiles(w.group, w.val)
              [] w.reg = "wake_up_group" -> WokenByGroups(w.val)
              [] OTHER -> {}

(* wake_up_mask_d: every strd-th core from offst on.                       *)
StrideMask(strd, offst) == {c \in Cores : c >= offst /\ (c - offst) % strd = 0}

(* The functions of software/runtime/runtime.h that write the registers.   *)
wake_up(c) == [reg |-> "wake_up", val |-> c]
wake_up_all == [reg |-> "wake_up", val |-> -1]
wake_up_group(mask) == [reg |-> "wake_up_group", val |-> mask]
set_wake_up_stride(n) == [reg |-> "wake_up_strd", val |-> n]
set_wake_up_offset(n) == [reg |-> "wake_up_offst", val |-> n]

wake_up_tile(g, mask) ==
  [reg |-> "wake_up_tile", group |-> IF g \in 0 .. 7 THEN g ELSE 0, val |-> mask]

-------------------------------------------------------------------------------
(* One cycle of a core's WFI logic: wfi and count are wfi_q and wake_up_q, *)
(* executes says that a WFI instruction is valid, pulse that               *)
(* wake_up_sync_i is high.                                                 *)

WfiAfter(wfi, count, executes, pulse) == (executes \/ wfi) /\ count = 0 /\ ~ pulse

WakeUpAfterTwice(wfi, count, executes, pulse) ==        \* mutant: stored while asleep too
  CASE executes /\ count > 0 /\ ~ pulse -> count - 1
    [] ~ executes /\ pulse -> (count + 1) % OutstandingWfi
    [] OTHER -> count

WakeUpAfter(wfi, count, executes, pulse) ==
  CASE executes /\ count > 0 /\ ~ pulse -> count - 1
    [] ~ executes /\ pulse /\ ~ wfi -> (count + 1) % OutstandingWfi
    [] OTHER -> count
===============================================================================
