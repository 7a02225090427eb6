---------------------------- MODULE MCTcdmAdapter ----------------------------
(***************************************************************************)
(* Instances of LrScLoop for TLC, with the ALU and the byte-enable         *)
(* write of module AmoAlu.                                                 *)
(***************************************************************************)
EXTENDS LrScLoop

CONSTANTS W,         \* bits of a word
          NumWords,  \* words of the bank
          Local,     \* local cores that issue requests
          Remote,    \* remote harts that do, as <<group, tile, core, port>>
          Dma,       \* whether the DMA's wide port writes too
          NumLooping \* cores from 1 on that run LR/SC loops; core 1 may abandon its own

(* Values for Remote: a hart whose key differs from that of the local      *)
(* cores, and two harts of different groups that share tile and port.      *)
OneRemote == {<<1, 1, 0, 0>>}
SamePortRemotes == {<<1, 1, 0, 1>>, <<2, 1, 0, 1>>}

MCWord == 0 .. 2^W - 1
MCAddr == 1 .. NumWords
MCBe == {"full", "low"}

INSTANCE AmoAlu

LocalMeta(c) == [ini_addr |-> c, tile_id |-> 0, group_id |-> 0, core_id |-> 0, wide |-> FALSE]
RemoteMeta(h) == [ini_addr |-> NumCoresPerTile + h[4], tile_id |-> h[2], group_id |-> h[1],
                  core_id |-> h[3], wide |-> FALSE]
DmaMeta == [ini_addr |-> 0, tile_id |-> 0, group_id |-> 0, core_id |-> 0, wide |-> TRUE]

LoopMeta(c) == [LocalMeta(c) EXCEPT !.core_id = c]

MCLooping == {LoopMeta(c) : c \in 1 .. NumLooping}
MCAbandoning == MCLooping \cap {LoopMeta(1)}

MCMeta == {LocalMeta(c) : c \in Local} \cup {RemoteMeta(h) : h \in Remote} \cup {DmaMeta} \cup MCLooping

(* The local harts issue every atomic on word 1 with the operand that is   *)
(* negative when signed, loads, and stores with byte enables; all harts    *)
(* run LR/SC on every word, against stores of the remote ones and DMA      *)
(* writes.  The looping harts run their loops on word 1.                   *)
MCRequests ==
  LET access(m, k, a, v, b) ==
        [meta |-> m, addr |-> a, wdata |-> v, be |-> b, write |-> k = "store",
         amo |-> IF k \in {"load", "store"} THEN "None" ELSE k]
      locals == {LocalMeta(c) : c \in Local}
      remotes == {RemoteMeta(h) : h \in Remote}
      lrsc == {access(m, k, a, 0, "full") : m \in locals \cup remotes, k \in {"LR", "SC"}, a \in MCAddr}
      atomics == {access(m, k, 1, 2^(W - 1), "full") : m \in locals, k \in AMOs}
      partial == {access(m, k, 1, 1, "low") : m \in locals, k \in {"load", "store"}}
      writes == {access(m, "store", a, 1, "full") : m \in remotes, a \in MCAddr}
                  \cup {access(m, "AMOAdd", 1, 1, "full") : m \in remotes}
      loops == {access(m, k, 1, 0, "full") : m \in MCLooping, k \in {"LR", "SC"}}
      dma == {access(DmaMeta, "store", 1, 1, "full")}
  IN  lrsc \cup atomics \cup partial \cup writes \cup loops \cup (IF Dma THEN dma ELSE {})
===============================================================================
