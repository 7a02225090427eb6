---------------------------- MODULE DmaTcdmProofs ----------------------------
(***************************************************************************)
(* Proofs about DmaTcdm for every number of tiles, superbanks and banks:   *)
(* the wide path of the DMA and the narrow path of the cores reach the     *)
(* same words, and the answers of the wide path come in the order of the   *)
(* beats when a tile is one superbank.                                     *)
(***************************************************************************)
EXTENDS DmaTcdm, SequenceTheorems, TLAPS

(* Quotient and remainder are unique.                                      *)
LEMMA DivMod ==
  ASSUME NEW x \in Int, NEW d \in Nat \ {0}, NEW q \in Int, NEW r \in 0 .. d - 1,
         x = q * d + r
  PROVE  x \div d = q /\ x % d = r
  OBVIOUS

(* What the division of a number returns.                                  *)
LEMMA Division ==
  ASSUME NEW x \in Nat, NEW d \in Nat \ {0}
  PROVE  x \div d \in Nat /\ x % d \in 0 .. d - 1 /\ x = (x \div d) * d + (x % d)
  OBVIOUS

(* The digits of a word address: row, tile, superbank and word.            *)
Word(row, tile, sb, j) == (row * NumTiles + tile) * NumBanksPerTile + sb * NumBanksPerSB + j

(* The sizes of a tile.                                                    *)
LEMMA Sizes ==
  /\ NumTiles \in Nat \ {0} /\ NumBanksPerSB \in Nat \ {0} /\ NumSuperbanks \in Nat \ {0}
  /\ NumBanksPerTile \in Nat \ {0} /\ NumBanksPerTile = NumSuperbanks * NumBanksPerSB
  BY Configuration DEF NumBanksPerTile

(* A superbank and a bank within it make a bank of the tile.               *)
LEMMA PortIsBank ==
  ASSUME NEW sb \in Superbanks, NEW j \in SBBanks
  PROVE  /\ sb * NumBanksPerSB + j \in Banks
         /\ (sb * NumBanksPerSB + j) \div NumBanksPerSB = sb
         /\ (sb * NumBanksPerSB + j) % NumBanksPerSB = j
  <1>1. sb \in 0 .. NumSuperbanks - 1 /\ j \in 0 .. NumBanksPerSB - 1
    BY DEF Superbanks, SBBanks
  <1>2. sb * NumBanksPerSB <= (NumSuperbanks - 1) * NumBanksPerSB
    BY Sizes, <1>1
  <1>3. sb * NumBanksPerSB + j \in 0 .. NumBanksPerTile - 1
    BY Sizes, <1>1, <1>2
  <1> QED
    BY Sizes, <1>1, <1>3, DivMod DEF Banks

(* The bit fields of an address are its digits.                            *)
LEMMA Digits ==
  ASSUME NEW row \in Nat, NEW tile \in Tiles, NEW sb \in Superbanks, NEW j \in SBBanks
  PROVE  /\ Word(row, tile, sb, j) \in Nat
         /\ Scrambler!BankId(Word(row, tile, sb, j)) = sb * NumBanksPerSB + j
         /\ Scrambler!TileId(Word(row, tile, sb, j)) = tile
         /\ Scrambler!RowId(Word(row, tile, sb, j)) = row
  <1> DEFINE x == Word(row, tile, sb, j)
             low == sb * NumBanksPerSB + j
             mid == tile * NumBanksPerTile + low
             k == row * NumTiles + tile
  <1>1. tile \in 0 .. NumTiles - 1 /\ k \in Nat /\ sb \in Nat /\ j \in Nat
    BY Sizes DEF Tiles, Superbanks, SBBanks
  <1>2. low \in 0 .. NumBanksPerTile - 1
    BY PortIsBank DEF Banks
  <1>3. x = k * NumBanksPerTile + low
    BY Sizes, <1>1 DEF Word
  <1>4. k \div NumTiles = row /\ k % NumTiles = tile
    <2> HIDE DEF k
    <2>1. k = row * NumTiles + tile
      BY DEF k
    <2> QED
      BY Sizes, <1>1, <2>1, DivMod
  <1>5. mid \in 0 .. (NumBanksPerTile * NumTiles) - 1
    <2>1. tile * NumBanksPerTile <= (NumTiles - 1) * NumBanksPerTile
      BY Sizes, <1>1
    <2> HIDE DEF low
    <2> QED
      BY Sizes, <1>1, <1>2, <2>1
  <1>6. x = row * (NumBanksPerTile * NumTiles) + mid
    <2> HIDE DEF low, x
    <2> QED
      BY Sizes, <1>1, <1>2, <1>3
  <1>7. x \in Nat /\ NumBanksPerTile * NumTiles \in Nat \ {0}
    <2> HIDE DEF low, x, k
    <2> QED
      BY Sizes, <1>1, <1>2, <1>3
  <1> HIDE DEF low, x, k, mid
  <1>8. x % NumBanksPerTile = low /\ x \div NumBanksPerTile = k
    BY Sizes, <1>1, <1>2, <1>3, <1>7, DivMod
  <1>9. x \div (NumBanksPerTile * NumTiles) = row
    BY <1>5, <1>6, <1>7, DivMod
  <1> QED
    BY <1>4, <1>7, <1>8, <1>9 DEF Scrambler!BankId, Scrambler!TileId, Scrambler!RowId, low, x

(* The tile that serves an interleaved address, and the advance of the     *)
(* banks with the row.                                                     *)
NewTile(row, tile) == IF NumTiles > 1 /\ TileIdRemap THEN (tile + row) % NumTiles ELSE tile
Advance(row) == IF SpmBankIdRemap THEN row ELSE 0

(* It is one of the tiles.                                                 *)
LEMMA NewTileType ==
  ASSUME NEW row \in Nat, NEW tile \in Tiles
  PROVE  NewTile(row, tile) \in Tiles
  <1>1. tile + row \in Nat
    BY Sizes DEF Tiles
  <1> QED
    BY Sizes, <1>1, Division DEF NewTile, Tiles

(* The scrambler turns the tile digit of an interleaved address.           *)
LEMMA Scrambled ==
  ASSUME NEW row \in Nat, NEW tile \in Tiles, NEW sb \in Superbanks, NEW j \in SBBanks,
         NEW swap \in BOOLEAN,
         Word(row, tile, sb, j) >= Scrambler!SeqWords, Word(row, tile, sb, j) < TcdmWords
  PROVE  Scrambler!Scramble(Word(row, tile, sb, j), swap)
           = Word(row, NewTile(row, tile), sb, j)
  <1> DEFINE x == Word(row, tile, sb, j)
             new == NewTile(row, tile)
  <1>1. x \in Nat /\ tile \in Nat /\ tile < NumTiles /\ sb \in Nat /\ j \in Nat
    BY Digits, Sizes DEF Tiles, Superbanks, SBBanks
  <1>2. Scrambler!SeqWords \in Nat /\ TcdmWords \in Nat
    BY Configuration, Sizes DEF Scrambler!SeqWords
  <1>3. CASE NumTiles > 1 /\ TileIdRemap
    <2>1. tile % NumTiles = tile
      <3>1. tile = 0 * NumTiles + tile /\ tile \in 0 .. NumTiles - 1
        BY <1>1, Sizes
      <3> QED
        BY <1>1, <3>1, Sizes, DivMod
    <2>2. Scrambler!RemapRange = NumTiles
      BY <1>3 DEF Scrambler!RemapRange
    <2>3. Scrambler!TileId(x) = tile /\ Scrambler!RowId(x) = row
      BY Digits
    <2>4. new = (tile + row) % NumTiles
      BY <1>3 DEF NewTile
    <2> HIDE DEF x
    <2>5. Scrambler!SpmTileIdRemap(x) = x + (new - tile) * NumBanksPerTile
      <3> HIDE DEF new
      <3> QED
        BY <2>1, <2>2, <2>3, <2>4 DEF Scrambler!SpmTileIdRemap
    <2>6. x + (new - tile) * NumBanksPerTile = Word(row, new, sb, j)
      <3>1. new \in Nat
        BY NewTileType, Sizes DEF Tiles
      <3> HIDE DEF new
      <3> QED
        BY <1>1, <3>1, Sizes DEF x, Word
    <2>7. Scrambler!Scramble(x, swap) = Scrambler!SpmTileIdRemap(x)
      <3>1. ~ (NumTiles < 2) /\ ~ (x < Scrambler!SeqWords) /\ x < TcdmWords
        BY <1>1, <1>2, <1>3, Sizes DEF x
      <3> QED
        BY <1>3, <3>1 DEF x, Scrambler!Scramble
    <2> QED
      BY <2>5, <2>6, <2>7 DEF x
  <1>4. CASE ~ (NumTiles > 1 /\ TileIdRemap)
    <2>1. Scrambler!Scramble(x, swap) = x
      <3>1. ~ (x < Scrambler!SeqWords) /\ (NumTiles < 2 \/ ~ TileIdRemap)
        BY <1>1, <1>2, <1>4, Sizes
      <3> HIDE DEF x
      <3> QED
        BY <3>1 DEF Scrambler!Scramble
    <2> QED
      BY <1>4, <2>1 DEF NewTile
  <1> QED
    BY <1>3, <1>4

(* Turning the banks and turning them back.                                *)
LEMMA Rotation ==
  ASSUME NEW p \in Nat \ {0}, NEW n \in Nat, NEW c \in 0 .. p - 1
  PROVE  /\ (c + p - (n % p)) % p \in 0 .. p - 1
         /\ (((c + p - (n % p)) % p) + n) % p = c
  <1> DEFINE r == n % p
             q == n \div p
             y == c + p - r
  <1>1. q \in Nat /\ r \in 0 .. p - 1 /\ n = q * p + r
    BY Division
  <1> HIDE DEF r, q
  <1>2. y \in Nat
    BY <1>1
  <1>3. y \div p \in Nat /\ y % p \in 0 .. p - 1 /\ y = (y \div p) * p + (y % p)
    BY <1>2, Division
  <1>4. \E m \in Int : (y % p) + n = m * p + c /\ (y % p) + n \in Int
    <2> DEFINE m == 1 + q - (y \div p)
    <2>1. m * p = p + q * p - (y \div p) * p
      <3> HIDE DEF y
      <3> QED
        BY <1>1, <1>3
    <2>2. y = c + p - r /\ c \in Int /\ p \in Int /\ m \in Int
      BY <1>1, <1>2, <1>3
    <2> HIDE DEF m, y
    <2> DEFINE qp == q * p
               yp == (y \div p) * p
               ym == y % p
               mp == m * p
    <2>3. qp \in Int /\ yp \in Int /\ ym \in Int /\ mp \in Int
      BY <1>1, <1>3, <2>2
    <2>4. n = qp + r /\ y = yp + ym /\ mp = p + qp - yp
      BY <1>1, <1>3, <2>1
    <2> HIDE DEF qp, yp, ym, mp
    <2>5. ym + n = mp + c /\ ym + n \in Int
      BY <1>1, <2>2, <2>3, <2>4
    <2> QED
      BY <2>2, <2>5 DEF ym, mp
  <1>5. PICK m \in Int : (y % p) + n = m * p + c /\ (y % p) + n \in Int
    BY <1>4
  <1> HIDE DEF y
  <1>6. ((y % p) + n) % p = c
    BY <1>5, DivMod
  <1> QED
    BY <1>3, <1>6 DEF y, r

-------------------------------------------------------------------------------
(* The superbank a is one that the DMA may access.                         *)
DmaAddr(a) ==
  a \in Nat /\ a * NumBanksPerSB >= Scrambler!SeqWords /\ (a + 1) * NumBanksPerSB <= TcdmWords

(* An address of the DMA as digits.                                        *)
LEMMA DmaDigits ==
  ASSUME NEW a \in Nat
  PROVE  \E row \in Nat, tile \in Tiles, sb \in Superbanks :
           \A j \in SBBanks : a * NumBanksPerSB + j = Word(row, tile, sb, j)
  <1> DEFINE k == a \div NumSuperbanks
             sb == a % NumSuperbanks
             row == k \div NumTiles
             tile == k % NumTiles
  <1>1. k \in Nat /\ sb \in 0 .. NumSuperbanks - 1 /\ a = k * NumSuperbanks + sb
    BY Sizes, Division
  <1> HIDE DEF k, sb
  <1>2. row \in Nat /\ tile \in 0 .. NumTiles - 1 /\ k = row * NumTiles + tile
    BY Sizes, <1>1, Division
  <1> HIDE DEF row, tile
  <1>3. ASSUME NEW j \in SBBanks
        PROVE  a * NumBanksPerSB + j = Word(row, tile, sb, j)
    <2>1. j \in Nat
      BY Sizes DEF SBBanks
    <2>2. a * NumBanksPerSB = k * (NumSuperbanks * NumBanksPerSB) + sb * NumBanksPerSB
      BY Sizes, <1>1
    <2> QED
      BY Sizes, <1>1, <1>2, <2>1, <2>2 DEF Word
  <1> QED
    BY <1>1, <1>2, <1>3 DEF Tiles, Superbanks

(* The bank and row of a core's access to an interleaved word.             *)
LEMMA CoreRoute ==
  ASSUME NEW row \in Nat, NEW tile \in Tiles, NEW sb \in Superbanks, NEW j \in SBBanks,
         Word(row, tile, sb, j) >= Scrambler!SeqWords, Word(row, tile, sb, j) < TcdmWords
  PROVE  CoreLocation(Word(row, tile, sb, j))
           = <<NewTile(row, tile),
               sb * NumBanksPerSB + ((j + Advance(row)) % NumBanksPerSB), row>>
  <1> DEFINE y == Word(row, NewTile(row, tile), sb, j)
             c == sb * NumBanksPerSB + j
  <1>1. Scrambler!Scramble(Word(row, tile, sb, j), TRUE) = y
    BY Scrambled
  <1>2. /\ Scrambler!BankId(y) = c
        /\ Scrambler!TileId(y) = NewTile(row, tile)
        /\ Scrambler!RowId(y) = row
    BY NewTileType, Digits
  <1>3. c \div NumBanksPerSB = sb /\ c % NumBanksPerSB = j
    BY PortIsBank
  <1> HIDE DEF y, c
  <1>4. narrow_sel(c, row) = sb * NumBanksPerSB + ((j + Advance(row)) % NumBanksPerSB)
    BY <1>3 DEF narrow_sel, RemapLo, Advance
  <1> QED
    BY <1>1, <1>2, <1>4 DEF CoreLocation

(* The word that a bank carries of a wide access is the word that a core   *)
(* finds there.                                                            *)
LEMMA RoutedRight ==
  ASSUME NEW beat, DmaAddr(beat.addr), NEW b \in Banks,
         b \div NumBanksPerSB = Superbank(WideRequest(beat))
  PROVE  LET w == WideRequest(beat)
             j == WordOf(b % NumBanksPerSB, req_rot(w))
         IN  /\ w.row \in Nat /\ w.id \in Nat /\ j \in SBBanks
             /\ <<w.tile, b, w.row>> = CoreLocation(w.id * NumBanksPerSB + j)
  <1> DEFINE a == beat.addr
             w == WideRequest(beat)
             P == NumBanksPerSB
             c == b % P
             j == WordOf(c, req_rot(w))
  <1>1. PICK row \in Nat, tile \in Tiles, sb \in Superbanks :
          \A i \in SBBanks : a * P + i = Word(row, tile, sb, i)
    BY DmaDigits DEF DmaAddr
  <1>2. a \in Nat /\ a * P \in Nat /\ 0 \in SBBanks /\ P \in Nat \ {0} /\ TcdmWords \in Nat
    BY Configuration DEF DmaAddr, SBBanks
  <1>3. ASSUME NEW i \in SBBanks
        PROVE  /\ Word(row, tile, sb, i) >= Scrambler!SeqWords
               /\ Word(row, tile, sb, i) < TcdmWords
    <2>1. a * P >= Scrambler!SeqWords /\ (a + 1) * P <= TcdmWords /\ Scrambler!SeqWords \in Nat
      BY Configuration, Sizes DEF DmaAddr, Scrambler!SeqWords
    <2>2. i \in Nat /\ i < P
      BY <1>2 DEF SBBanks
    <2>3. (a + 1) * P = a * P + P
      BY <1>2
    <2>4. Word(row, tile, sb, i) = a * P + i
      BY <1>1
    <2> DEFINE ap == a * P
    <2> HIDE DEF ap
    <2>5. ap \in Nat /\ ap >= Scrambler!SeqWords /\ ap + P <= TcdmWords
      BY <1>2, <2>1, <2>3 DEF ap
    <2>6. Word(row, tile, sb, i) = ap + i
      BY <2>4 DEF ap
    <2> QED
      BY <1>2, <2>1, <2>2, <2>5, <2>6
  <1>4. a * P = Word(row, tile, sb, 0)
    BY <1>1, <1>2
  <1>5. /\ w.tile = NewTile(row, tile) /\ w.bank_id = sb * P /\ w.row = row /\ w.id = a
    <2>1. Scrambler!Scramble(a * P, FALSE) = Word(row, NewTile(row, tile), sb, 0)
      <3>1. FALSE \in BOOLEAN
        OBVIOUS
      <3>2. Scrambler!Scramble(Word(row, tile, sb, 0), FALSE) = Word(row, NewTile(row, tile), sb, 0)
        BY <1>2, <1>3, <3>1, Scrambled, Zenon
      <3> QED
        BY <1>4, <3>2
    <2>2. Scrambler!TileId(Word(row, NewTile(row, tile), sb, 0)) = NewTile(row, tile)
      BY <1>2, NewTileType, Digits
    <2>3. Scrambler!BankId(a * P) = sb * P + 0 /\ Scrambler!RowId(a * P) = row
      BY <1>2, <1>4, Digits
    <2>4. sb * P + 0 = sb * P
      BY Sizes DEF Superbanks
    <2> QED
      BY <2>1, <2>2, <2>3, <2>4 DEF WideRequest
  <1>6. /\ (sb * P) \div P = sb /\ (sb * P) % P = 0 /\ sb % NumSuperbanks = sb
    <2>1. sb \in 0 .. NumSuperbanks - 1 /\ sb \in Int
      BY Sizes DEF Superbanks
    <2>2. sb * P = sb * P + 0 /\ sb * P \in Int /\ 0 \in 0 .. P - 1
      BY <1>2, <2>1
    <2>3. (sb * P) \div P = sb /\ (sb * P) % P = 0
      BY <1>2, <2>1, <2>2, DivMod
    <2>4. sb = 0 * NumSuperbanks + sb
      BY <2>1, Sizes
    <2> QED
      BY Sizes, <2>1, <2>3, <2>4, DivMod
  <1>7. b \div P = sb /\ req_rot(w) = Advance(row) % P
    <2>1. Advance(row) \in Nat /\ 0 + Advance(row) = Advance(row)
      BY DEF Advance
    <2>2. req_rot(w) = (0 + Advance(row)) % P
      BY <1>5, <1>6 DEF req_rot, RemapLo, Advance
    <2> QED
      BY <1>5, <1>6, <2>1, <2>2 DEF Superbank
  <1>8. b \in Nat /\ c \in 0 .. P - 1 /\ b = sb * P + c
    <2>1. b \in Nat
      BY Sizes DEF Banks
    <2> QED
      BY <1>2, <1>7, <2>1, Division
  <1>9. j \in SBBanks /\ (j + Advance(row)) % P = c
    <2>1. Advance(row) \in Nat
      BY DEF Advance
    <2> HIDE DEF c, w
    <2> QED
      BY <1>2, <1>7, <1>8, <2>1, Rotation DEF WordOf, SBBanks
  <1>10. CoreLocation(a * P + j) = <<NewTile(row, tile), sb * P + c, row>>
    <2> HIDE DEF j, c
    <2>1. a * P + j = Word(row, tile, sb, j)
      BY <1>1, <1>9
    <2> QED
      BY <1>3, <1>9, <2>1, CoreRoute
  <1> HIDE DEF j, c, w
  <1>11. <<w.tile, b, w.row>> = CoreLocation(w.id * P + j)
    BY <1>5, <1>8, <1>10
  <1>12. w.row \in Nat /\ w.id \in Nat
    BY <1>2, <1>5
  <1> QED
    BY <1>9, <1>11, <1>12 DEF j, c, w

-------------------------------------------------------------------------------
(* The inductive invariant.  A burst is under way, cnt beats of it still   *)
(* to come after the one at addr, or the next one waits on its channel.    *)
BurstOK(cnt, addr, channel) ==
  /\ cnt \in Nat
  /\ channel = <<>> \/ \E b \in ReadBursts \cup WriteBursts : channel = <<b>>
  /\ cnt > 0 => /\ addr \in Nat
                /\ addr * NumBanksPerSB >= Scrambler!SeqWords
                /\ (addr + cnt + 1) * NumBanksPerSB <= TcdmWords

(* The beat at a is the next one of a burst.                               *)
NextBeat(cnt, addr, channel, a) ==
  /\ cnt > 0 \/ channel # <<>>
  /\ a = IF cnt > 0 THEN addr + 1 ELSE Head(channel).addr

(* What a bank may hold: a wide request that belongs there, or a narrow    *)
(* one.                                                                    *)
Entry == [wide : {TRUE}, row : Nat, id : Nat, word : SBBanks]
           \cup [wide : {FALSE}, port : NarrowPorts]

Coherent(t, b, e) ==
  e.wide => <<t, b, e.row>> = CoreLocation(e.id * NumBanksPerSB + e.word)

BankInv ==
  /\ bank \in [Tiles \X Banks -> Seq(Entry)]
  /\ \A t \in Tiles, b \in Banks : bank[<<t, b>>] \in Seq({e \in Entry : Coherent(t, b, e)})

BurstInv ==
  /\ BurstOK(r_cnt_q, rd_addr, ar) /\ BurstOK(w_cnt_q, wr_addr, aw)
  /\ cur # <<>> => IF Head(cur).write THEN NextBeat(w_cnt_q, wr_addr, aw, Head(cur).addr)
                                      ELSE NextBeat(r_cnt_q, rd_addr, ar, Head(cur).addr)

(* A superbank that a tile's multiplexer is locked to has an answer.       *)
SelInv ==
  \A t \in Tiles, d \in Superbanks : d \in wide_sel[t] => sb_wide_resp_valid(t, d)

WideInv == BankInv /\ BurstInv /\ SelInv

(* The next beat of a burst is in the interleaved region.                  *)
LEMMA NextBeatInRange ==
  ASSUME NEW cnt, NEW addr, NEW channel, NEW a,
         BurstOK(cnt, addr, channel), NextBeat(cnt, addr, channel, a)
  PROVE  DmaAddr(a)
  <1> USE Configuration
  <1>0. Scrambler!SeqWords \in Nat
    BY Sizes DEF Scrambler!SeqWords
  <1>1. CASE cnt > 0
    <2>1. a = addr + 1 /\ addr \in Nat /\ cnt \in Nat
      BY <1>1 DEF BurstOK, NextBeat
    <2>2. addr * NumBanksPerSB >= Scrambler!SeqWords /\ (addr + cnt + 1) * NumBanksPerSB <= TcdmWords
      BY <1>1 DEF BurstOK
    <2>3. a * NumBanksPerSB >= addr * NumBanksPerSB
      BY <2>1
    <2>4. (a + 1) * NumBanksPerSB <= (addr + cnt + 1) * NumBanksPerSB
      BY <1>1, <2>1
    <2> QED
      BY <1>0, <2>1, <2>2, <2>3, <2>4 DEF DmaAddr
  <1>2. CASE ~ (cnt > 0)
    <2>1. PICK b \in ReadBursts \cup WriteBursts : channel = <<b>> /\ a = b.addr
      BY <1>2 DEF BurstOK, NextBeat
    <2>2. /\ a \in Nat /\ b.len \in Nat /\ a * NumBanksPerSB >= Scrambler!SeqWords
          /\ (a + b.len + 1) * NumBanksPerSB <= TcdmWords
      BY <2>1
    <2>3. (a + 1) * NumBanksPerSB <= (a + b.len + 1) * NumBanksPerSB
      BY <2>2
    <2> QED
      BY <1>0, <2>2, <2>3 DEF DmaAddr
  <1> QED
    BY <1>1, <1>2

(* A burst moves on by the beat that is accepted.                          *)
LEMMA BurstAdvances ==
  ASSUME NEW cnt, NEW addr, NEW channel, NEW a,
         BurstOK(cnt, addr, channel), NextBeat(cnt, addr, channel, a)
  PROVE  BurstOK(IF cnt > 0 THEN cnt - 1 ELSE Head(channel).len, a,
                 IF cnt > 0 THEN channel ELSE <<>>)
  <1> USE Configuration
  <1>0. DmaAddr(a)
    BY NextBeatInRange
  <1>1. CASE cnt > 0
    <2>1. a = addr + 1 /\ addr \in Nat /\ cnt \in Nat /\ cnt - 1 \in Nat
      BY <1>1 DEF BurstOK, NextBeat
    <2>2. (addr + cnt + 1) * NumBanksPerSB <= TcdmWords
      BY <1>1 DEF BurstOK
    <2>3. a + (cnt - 1) + 1 = addr + cnt + 1
      BY <2>1
    <2> QED
      BY <1>0, <1>1, <2>1, <2>2, <2>3 DEF DmaAddr, BurstOK
  <1>2. CASE ~ (cnt > 0)
    <2>1. PICK b \in ReadBursts \cup WriteBursts : channel = <<b>> /\ a = b.addr
      BY <1>2 DEF BurstOK, NextBeat
    <2>2. /\ a \in Nat /\ b.len \in Nat /\ a * NumBanksPerSB >= Scrambler!SeqWords
          /\ (a + b.len + 1) * NumBanksPerSB <= TcdmWords
      BY <2>1
    <2>3. Head(channel).len = b.len
      BY <2>1
    <2> QED
      BY <1>2, <2>2, <2>3 DEF BurstOK
  <1> QED
    BY <1>1, <1>2

(* The invariant holds at reset.                                           *)
LEMMA InitWideInv == Init => WideInv
  <1> SUFFICES ASSUME Init
               PROVE  WideInv
    OBVIOUS
  <1>1. BankInv
    <2>1. bank = [x \in Tiles \X Banks |-> <<>>]
      BY DEF Init, IntercoInit
    <2> QED
      BY <2>1 DEF BankInv
  <1>2. BurstInv
    BY DEF Init, BurstInv, BurstOK
  <1>3. SelInv
    BY DEF Init, IntercoInit, SelInv
  <1> QED
    BY <1>1, <1>2, <1>3 DEF WideInv

(* The invariant says that every wide request is where it belongs.         *)
LEMMA CoherentBanks == WideInv => WideCoherent
  <1> SUFFICES ASSUME WideInv, NEW t \in Tiles, NEW b \in Banks, NEW i \in DOMAIN bank[<<t, b>>]
               PROVE  Coherent(t, b, bank[<<t, b>>][i])
    BY DEF WideCoherent, Coherent
  <1>1. bank[<<t, b>>] \in Seq({e \in Entry : Coherent(t, b, e)})
    BY DEF WideInv, BankInv
  <1>2. bank[<<t, b>>][i] \in {e \in Entry : Coherent(t, b, e)}
    BY <1>1
  <1> QED
    BY <1>2

(* A bank answers: nothing is added.                                       *)
LEMMA TailsCoherent ==
  ASSUME BankInv, NEW S \in SUBSET (Tiles \X Banks),
         bank' = [x \in Tiles \X Banks |-> IF x \in S THEN Tail(bank[x]) ELSE bank[x]],
         \A x \in S : bank[x] # <<>>
  PROVE  BankInv'
  <1>1. ASSUME NEW x \in Tiles \X Banks
        PROVE  bank'[x] \in Seq(Entry)
    BY DEF BankInv
  <1>2. ASSUME NEW t \in Tiles, NEW b \in Banks
        PROVE  bank'[<<t, b>>] \in Seq({e \in Entry : Coherent(t, b, e)})
    <2>1. bank[<<t, b>>] \in Seq({e \in Entry : Coherent(t, b, e)})
      BY DEF BankInv
    <2> QED
      BY <2>1
  <1>3. bank' \in [Tiles \X Banks -> Seq(Entry)]
    BY <1>1
  <1> QED
    BY <1>2, <1>3 DEF BankInv, Coherent

(* A bank takes a request that belongs there.                              *)
LEMMA AppendCoherent ==
  ASSUME BankInv, NEW x0, NEW e \in Entry,
         \A t \in Tiles, b \in Banks : <<t, b>> = x0 => Coherent(t, b, e),
         bank' = [bank EXCEPT ![x0] = Append(@, e)]
  PROVE  BankInv'
  <1>1. ASSUME NEW x \in Tiles \X Banks
        PROVE  /\ bank'[x] = IF x = x0 THEN Append(bank[x], e) ELSE bank[x]
               /\ bank[x] \in Seq(Entry)
    BY DEF BankInv
  <1>2. bank' \in [Tiles \X Banks -> Seq(Entry)]
    <2> DEFINE D == Tiles \X Banks
    <2>1. bank \in [D -> Seq(Entry)]
      BY DEF BankInv
    <2> HIDE DEF D
    <2>2. bank' = [x \in D |-> IF x = x0 THEN Append(bank[x], e) ELSE bank[x]]
      BY <2>1
    <2>3. \A x \in D : (IF x = x0 THEN Append(bank[x], e) ELSE bank[x]) \in Seq(Entry)
      BY <2>1
    <2> QED
      BY <2>2, <2>3 DEF D
  <1>3. ASSUME NEW t \in Tiles, NEW b \in Banks
        PROVE  bank'[<<t, b>>] \in Seq({x \in Entry : Coherent(t, b, x)})
    <2> DEFINE S == {x \in Entry : Coherent(t, b, x)}
    <2>1. bank[<<t, b>>] \in Seq(S)
      BY DEF BankInv
    <2>2. <<t, b>> = x0 => e \in S
      OBVIOUS
    <2>3. bank'[<<t, b>>] = IF <<t, b>> = x0 THEN Append(bank[<<t, b>>], e) ELSE bank[<<t, b>>]
      BY <1>1
    <2> HIDE DEF S
    <2>4. bank'[<<t, b>>] \in Seq(S)
      BY <2>1, <2>2, <2>3
    <2> QED
      BY <2>4 DEF S
  <1> QED
    BY <1>2, <1>3 DEF BankInv, Coherent

(* The banks are left alone.                                               *)
LEMMA BanksStay ==
  ASSUME BankInv, bank' = bank
  PROVE  BankInv'
  BY DEF BankInv, Coherent

(* The bursts and the beat at hand are left alone.                         *)
LEMMA BurstsStay ==
  ASSUME BurstInv, UNCHANGED <<axi, bursts, cur>>
  PROVE  BurstInv'
  BY DEF BurstInv, axi, bursts

(* The beat at hand is accepted.                                           *)
LEMMA AcceptedStep ==
  ASSUME BurstInv, cur # <<>>, Accepted
  PROVE  BurstInv'
  <1>1. CASE Head(cur).write
    <2>1. NextBeat(w_cnt_q, wr_addr, aw, Head(cur).addr) /\ BurstOK(w_cnt_q, wr_addr, aw)
      BY <1>1 DEF BurstInv
    <2>2. BurstOK(IF w_cnt_q > 0 THEN w_cnt_q - 1 ELSE Head(aw).len, Head(cur).addr,
                  IF w_cnt_q > 0 THEN aw ELSE <<>>)
      BY <2>1, BurstAdvances
    <2>3. BurstOK(w_cnt_q', wr_addr', aw')
      BY <1>1, <2>2 DEF Accepted, WriteAccepted
    <2>4. BurstOK(r_cnt_q', rd_addr', ar')
      BY <1>1 DEF Accepted, WriteAccepted, BurstInv
    <2> QED
      BY <2>3, <2>4 DEF Accepted, BurstInv
  <1>2. CASE ~ Head(cur).write
    <2>1. NextBeat(r_cnt_q, rd_addr, ar, Head(cur).addr) /\ BurstOK(r_cnt_q, rd_addr, ar)
      BY <1>2 DEF BurstInv
    <2>2. BurstOK(IF r_cnt_q > 0 THEN r_cnt_q - 1 ELSE Head(ar).len, Head(cur).addr,
                  IF r_cnt_q > 0 THEN ar ELSE <<>>)
      BY <2>1, BurstAdvances
    <2>3. BurstOK(r_cnt_q', rd_addr', ar')
      BY <1>2, <2>2 DEF Accepted, ReadAccepted
    <2>4. BurstOK(w_cnt_q', wr_addr', aw')
      BY <1>2 DEF Accepted, ReadAccepted, BurstInv
    <2> QED
      BY <2>3, <2>4 DEF Accepted, BurstInv
  <1> QED
    BY <1>1, <1>2

(* An answer of a superbank is at the head of its banks.                   *)
LEMMA Answers ==
  \A t \in Tiles, d \in Superbanks :
    sb_wide_resp_valid(t, d) <=>
      \A i \in SBBanks : bank[<<t, Port(d, i)>>] # <<>> /\ Head(bank[<<t, Port(d, i)>>]).wide
  BY DEF sb_wide_resp_valid

(* ... and the same after a step.                                         *)
LEMMA AnswersNext ==
  \A t \in Tiles, d \in Superbanks :
    sb_wide_resp_valid(t, d)' <=>
      \A i \in SBBanks : bank'[<<t, Port(d, i)>>] # <<>> /\ Head(bank'[<<t, Port(d, i)>>]).wide
  <1>1. (\A t \in Tiles, d \in Superbanks :
           sb_wide_resp_valid(t, d) <=>
             \A i \in SBBanks : bank[<<t, Port(d, i)>>] # <<>> /\ Head(bank[<<t, Port(d, i)>>]).wide)'
    BY Answers, PTL
  <1> QED
    BY <1>1

(* The banks of a superbank.                                               *)
LEMMA PortBank ==
  ASSUME NEW d \in Superbanks, NEW i \in SBBanks
  PROVE  Port(d, i) \in Banks /\ Port(d, i) \div NumBanksPerSB = d
  BY PortIsBank DEF Port

(* The multiplexers of the tiles that are not free stay locked to          *)
(* superbanks with an answer if those answers stay.                        *)
LEMMA MuxStep ==
  ASSUME SelInv, NEW free, WideMux(free),
         \A t \in Tiles \ free, d \in Superbanks :
           sb_wide_resp_valid(t, d) => sb_wide_resp_valid(t, d)'
  PROVE  SelInv'
  <1> SUFFICES ASSUME NEW t \in Tiles, NEW d \in Superbanks, d \in wide_sel'[t]
               PROVE  sb_wide_resp_valid(t, d)'
    BY DEF SelInv
  <1>1. CASE wide_sel[t] # {} /\ t \notin free
    <2>1. wide_sel'[t] = wide_sel[t]
      BY <1>1 DEF WideMux
    <2> QED
      BY <1>1, <2>1 DEF SelInv
  <1>2. CASE ~ (wide_sel[t] # {} /\ t \notin free)
    BY <1>2 DEF WideMux
  <1> QED
    BY <1>1, <1>2

(* A request that is added to a bank leaves the answers in place.          *)
LEMMA AppendAnswers ==
  ASSUME BankInv, NEW x0, NEW e \in Entry, bank' = [bank EXCEPT ![x0] = Append(@, e)],
         SelInv, WideMux({})
  PROVE  SelInv'
  <1> SUFFICES ASSUME NEW t \in Tiles, NEW d \in Superbanks, sb_wide_resp_valid(t, d)
               PROVE  sb_wide_resp_valid(t, d)'
    BY MuxStep
  <1> SUFFICES ASSUME NEW i \in SBBanks
               PROVE  bank'[<<t, Port(d, i)>>] # <<>> /\ Head(bank'[<<t, Port(d, i)>>]).wide
    BY AnswersNext
  <1> DEFINE x == <<t, Port(d, i)>>
             D == Tiles \X Banks
  <1>1. bank[x] # <<>> /\ Head(bank[x]).wide
    BY Answers
  <1>2. x \in D
    BY PortBank
  <1>3. bank \in [D -> Seq(Entry)]
    BY DEF BankInv
  <1> HIDE DEF x, D
  <1>4. bank'[x] = bank[x] \/ bank'[x] = Append(bank[x], e)
    BY <1>2, <1>3
  <1>5. bank[x] \in Seq(Entry)
    BY <1>2, <1>3
  <1>6. Append(bank[x], e) # <<>> /\ Head(Append(bank[x], e)) = Head(bank[x])
    BY <1>1, <1>5
  <1>7. bank'[x] # <<>> /\ Head(bank'[x]).wide
    BY <1>1, <1>4, <1>6
  <1> QED
    BY <1>7 DEF x

(* A bank takes its word of the beat at hand.                              *)
LEMMA TakeWordStep ==
  ASSUME WideInv, NEW b \in Banks, TakeWord(b)
  PROVE  WideInv'
  <1> DEFINE w == WideRequest(Head(cur))
             word == WordOf(b % NumBanksPerSB, req_rot(w))
             e == [wide |-> TRUE, row |-> w.row, id |-> w.id, word |-> word]
  <1>1. cur # <<>>
    BY DEF TakeWord, WidePresented
  <1>2. DmaAddr(Head(cur).addr)
    BY <1>1, NextBeatInRange DEF WideInv, BurstInv
  <1>3. b \div NumBanksPerSB = Superbank(w)
    BY DEF TakeWord, WideTake, wide_fork_valid
  <1>4. /\ w.row \in Nat /\ w.id \in Nat /\ word \in SBBanks
        /\ <<w.tile, b, w.row>> = CoreLocation(w.id * NumBanksPerSB + word)
    BY <1>2, <1>3, RoutedRight
  <1>5. bank' = [bank EXCEPT ![<<w.tile, b>>] = Append(@, e)]
    BY DEF TakeWord, WideTake
  <1>6. BankInv'
    <2> HIDE DEF w, word
    <2>1. e \in Entry
      BY <1>4 DEF Entry
    <2>2. \A t \in Tiles, c \in Banks : <<t, c>> = <<w.tile, b>> => Coherent(t, c, e)
      BY <1>4 DEF Coherent
    <2> HIDE DEF e
    <2> QED
      BY <1>5, <2>1, <2>2, AppendCoherent DEF WideInv
  <1>7. BurstInv'
    <2>1. Accepted \/ UNCHANGED <<axi, bursts, cur>>
      BY DEF TakeWord
    <2> QED
      BY <1>1, <2>1, AcceptedStep, BurstsStay DEF WideInv
  <1>8. SelInv'
    <2> HIDE DEF w, word
    <2>1. e \in Entry
      BY <1>4 DEF Entry
    <2>2. WideMux({})
      BY DEF TakeWord
    <2> HIDE DEF e
    <2> QED
      BY <1>5, <2>1, <2>2, AppendAnswers DEF WideInv
  <1> QED
    BY <1>6, <1>7, <1>8 DEF WideInv

(* A wide answer leaves a superbank.                                       *)
LEMMA DeliverStep ==
  ASSUME WideInv, NEW t \in Tiles, NEW d \in Superbanks, Deliver(t, d)
  PROVE  WideInv'
  <1> DEFINE S == {x \in Tiles \X Banks : x[1] = t /\ x[2] \div NumBanksPerSB = d}
  <1>1. d \in wide_sel[t] /\ WideMux({t}) /\ UNCHANGED <<axi, bursts, cur>>
    BY DEF Deliver, p_valid, axi, bursts
  <1>2. sb_wide_resp_valid(t, d)
    BY <1>1 DEF WideInv, SelInv
  <1>3. bank' = [x \in Tiles \X Banks |-> IF x \in S THEN Tail(bank[x]) ELSE bank[x]]
    BY DEF Deliver, WidePop
  <1>4. \A x \in S : bank[x] # <<>>
    <2> SUFFICES ASSUME NEW x \in S
                 PROVE  bank[x] # <<>>
      OBVIOUS
    <2>1. x = <<t, x[2]>> /\ x[2] \in Banks /\ x[2] \div NumBanksPerSB = d
      OBVIOUS
    <2>2. x[2] % NumBanksPerSB \in SBBanks /\ x[2] = Port(d, x[2] % NumBanksPerSB)
      <3>1. x[2] \in Nat
        BY <2>1, Sizes DEF Banks
      <3> QED
        BY <2>1, <3>1, Sizes, Division DEF SBBanks, Port
    <2> QED
      BY <1>2, <2>1, <2>2, Answers
  <1>5. BankInv'
    <2> HIDE DEF S
    <2>1. S \in SUBSET (Tiles \X Banks)
      BY DEF S
    <2> QED
      BY <1>3, <1>4, <2>1, TailsCoherent DEF WideInv
  <1>6. SelInv'
    <2> SUFFICES ASSUME NEW u \in Tiles \ {t}, NEW f \in Superbanks, sb_wide_resp_valid(u, f)
                 PROVE  sb_wide_resp_valid(u, f)'
      BY <1>1, MuxStep DEF WideInv
    <2>1. ASSUME NEW i \in SBBanks
          PROVE  bank'[<<u, Port(f, i)>>] = bank[<<u, Port(f, i)>>]
      <3>1. <<u, Port(f, i)>> \in Tiles \X Banks /\ <<u, Port(f, i)>> \notin S
        BY PortBank
      <3> QED
        BY <1>3, <3>1
    <2> QED
      BY <2>1, Answers, AnswersNext
  <1> QED
    BY <1>1, <1>5, <1>6, BurstsStay DEF WideInv

(* A narrow answer leaves a bank, whose superbank has no wide answer then. *)
LEMMA NarrowAnswerStep ==
  ASSUME WideInv, NEW t \in Tiles, NEW b \in Banks, NarrowAnswer(t, b)
  PROVE  WideInv'
  <1> DEFINE S == {<<t, b>>}
             D == Tiles \X Banks
  <1>1. /\ bank[<<t, b>>] # <<>> /\ ~ Head(bank[<<t, b>>]).wide /\ WideMux({})
        /\ bank' = [bank EXCEPT ![<<t, b>>] = Tail(@)] /\ UNCHANGED <<axi, bursts, cur>>
    BY DEF NarrowAnswer, NarrowRespond, axi, bursts
  <1>2. bank' = [x \in D |-> IF x \in S THEN Tail(bank[x]) ELSE bank[x]]
    <2>1. bank \in [D -> Seq(Entry)]
      BY DEF WideInv, BankInv
    <2> HIDE DEF D
    <2> QED
      BY <1>1, <2>1
  <1>3. BankInv'
    <2>1. S \in SUBSET (Tiles \X Banks) /\ \A x \in S : bank[x] # <<>>
      BY <1>1
    <2> HIDE DEF S
    <2> QED
      BY <1>2, <2>1, TailsCoherent DEF WideInv
  <1>4. SelInv'
    <2> SUFFICES ASSUME NEW u \in Tiles, NEW f \in Superbanks, sb_wide_resp_valid(u, f)
                 PROVE  sb_wide_resp_valid(u, f)'
      BY <1>1, MuxStep DEF WideInv
    <2>1. ASSUME NEW i \in SBBanks
          PROVE  bank'[<<u, Port(f, i)>>] = bank[<<u, Port(f, i)>>]
      <3>1. <<u, Port(f, i)>> \in D /\ <<u, Port(f, i)>> \notin S
        BY <1>1, PortBank, Answers
      <3> QED
        BY <1>2, <3>1
    <2> QED
      BY <2>1, Answers, AnswersNext
  <1> QED
    BY <1>1, <1>3, <1>4, BurstsStay DEF WideInv

(* A bank takes a narrow request.                                          *)
LEMMA NarrowAcceptStep ==
  ASSUME WideInv, NEW p \in NarrowPorts, NarrowAccept(p)
  PROVE  WideInv'
  <1> DEFINE n == Head(narrow[p])
             x0 == <<n.tile, narrow_sel(n.bank_id, n.row)>>
             e == [wide |-> FALSE, port |-> p]
  <1>1. /\ bank' = [bank EXCEPT ![x0] = Append(@, e)] /\ WideMux({})
        /\ UNCHANGED <<axi, bursts, cur>>
    BY DEF NarrowAccept, NarrowTake, axi, bursts
  <1>2. e \in Entry /\ \A t \in Tiles, b \in Banks : Coherent(t, b, e)
    BY DEF Entry, Coherent
  <1> HIDE DEF x0, e
  <1>3. BankInv' /\ SelInv'
    BY <1>1, <1>2, AppendCoherent, AppendAnswers DEF WideInv
  <1> QED
    BY <1>1, <1>3, BurstsStay DEF WideInv

(* The steps of the AXI side and of the arbiter leave the banks alone.     *)
LEMMA AxiStep ==
  ASSUME WideInv, SendAR \/ SendAW \/ SendW \/ Arbitrate \/ BufferMeta
  PROVE  WideInv'
  <1>1. UNCHANGED <<bank, wide_sel>>
    BY DEF SendAR, SendAW, SendW, Arbitrate, BufferMeta, interco
  <1>2. BankInv'
    BY <1>1, BanksStay DEF WideInv
  <1>3. SelInv'
    <2>1. \A t \in Tiles, d \in Superbanks : sb_wide_resp_valid(t, d)' <=> sb_wide_resp_valid(t, d)
      BY <1>1, Answers, AnswersNext
    <2> QED
      BY <1>1, <2>1 DEF WideInv, SelInv
  <1>4. BurstInv'
    <2> USE DEF WideInv
    <2>1. CASE SendAR
      <3>1. PICK b \in ReadBursts : ar = <<>> /\ ar' = <<b>>
        BY <2>1 DEF SendAR
      <3>2. UNCHANGED <<aw, r_cnt_q, rd_addr, w_cnt_q, wr_addr, cur>>
        BY <2>1 DEF SendAR, bursts
      <3>3. BurstOK(r_cnt_q', rd_addr', ar') /\ BurstOK(w_cnt_q', wr_addr', aw')
        BY <3>1, <3>2 DEF BurstInv, BurstOK
      <3> QED
        BY <3>1, <3>2, <3>3 DEF BurstInv, NextBeat
    <2>2. CASE SendAW
      <3>1. PICK b \in WriteBursts : aw = <<>> /\ aw' = <<b>>
        BY <2>2 DEF SendAW
      <3>2. UNCHANGED <<ar, r_cnt_q, rd_addr, w_cnt_q, wr_addr, cur>>
        BY <2>2 DEF SendAW, bursts
      <3>3. BurstOK(r_cnt_q', rd_addr', ar') /\ BurstOK(w_cnt_q', wr_addr', aw')
        BY <3>1, <3>2 DEF BurstInv, BurstOK
      <3> QED
        BY <3>1, <3>2, <3>3 DEF BurstInv, NextBeat
    <2>3. CASE SendW
      BY <2>3 DEF SendW, BurstInv, bursts
    <2>4. CASE Arbitrate
      <3>1. UNCHANGED <<ar, aw, r_cnt_q, rd_addr, w_cnt_q, wr_addr>>
        BY <2>4 DEF Arbitrate, axi, bursts
      <3>2. CASE meta_sel
        <4>1. wr_valid
          BY <2>4, <3>2 DEF Arbitrate, meta_sel
        <4>2. cur' = <<wr_meta>>
          BY <2>4, <3>2 DEF Arbitrate
        <4>3. wr_meta.write /\ NextBeat(w_cnt_q, wr_addr, aw, wr_meta.addr)
          BY <4>1 DEF wr_valid, wr_meta, NextBeat
        <4>4. Head(cur') = wr_meta
          BY <4>2
        <4> QED
          BY <3>1, <4>3, <4>4 DEF BurstInv
      <3>3. CASE ~ meta_sel
        <4>1. rd_valid
          BY <2>4, <3>3 DEF Arbitrate, meta_sel
        <4>2. cur' = <<rd_meta>>
          BY <2>4, <3>3 DEF Arbitrate
        <4>3. ~ rd_meta.write /\ NextBeat(r_cnt_q, rd_addr, ar, rd_meta.addr)
          BY <4>1 DEF rd_valid, rd_meta, NextBeat
        <4>4. Head(cur') = rd_meta
          BY <4>2
        <4> QED
          BY <3>1, <4>3, <4>4 DEF BurstInv
      <3> QED
        BY <3>2, <3>3
    <2>5. CASE BufferMeta
      <3>1. cur # <<>> /\ (Accepted \/ UNCHANGED <<axi, bursts, cur>>)
        BY <2>5 DEF BufferMeta
      <3> QED
        BY <3>1, AcceptedStep, BurstsStay
    <2> QED
      BY <2>1, <2>2, <2>3, <2>4, <2>5
  <1> QED
    BY <1>2, <1>3, <1>4 DEF WideInv

(* A core presents a request: the banks do not see it yet.                 *)
LEMMA NarrowSendStep ==
  ASSUME WideInv, UNCHANGED <<bank, wide_sel, axi, bursts, cur>>
  PROVE  WideInv'
  <1>1. \A t \in Tiles, d \in Superbanks : sb_wide_resp_valid(t, d)' <=> sb_wide_resp_valid(t, d)
    BY Answers, AnswersNext
  <1>2. SelInv'
    BY <1>1 DEF WideInv, SelInv
  <1> QED
    BY <1>2, BanksStay, BurstsStay DEF WideInv

(* The invariant is inductive.                                             *)
LEMMA StepWideInv == WideInv /\ [Next]_vars => WideInv'
  <1> SUFFICES ASSUME WideInv, [Next]_vars
               PROVE  WideInv'
    OBVIOUS
  <1>1. CASE SendAR \/ SendAW \/ SendW \/ Arbitrate \/ BufferMeta
    BY <1>1, AxiStep
  <1>2. CASE AnyTake
    BY <1>2, TakeWordStep DEF AnyTake
  <1>3. CASE AnyDeliver
    BY <1>3, DeliverStep DEF AnyDeliver
  <1>4. ASSUME NEW p \in NarrowPorts, NarrowSend(p)
        PROVE  WideInv'
    BY <1>4, NarrowSendStep DEF NarrowSend
  <1>5. ASSUME NEW p \in NarrowPorts, NarrowAccept(p)
        PROVE  WideInv'
    BY <1>5, NarrowAcceptStep
  <1>6. ASSUME NEW t \in Tiles, NEW b \in Banks, NarrowAnswer(t, b)
        PROVE  WideInv'
    BY <1>6, NarrowAnswerStep
  <1>7. CASE UNCHANGED vars
    BY <1>7, NarrowSendStep DEF vars, interco
  <1> QED
    BY <1>1, <1>2, <1>3, <1>4, <1>5, <1>6, <1>7 DEF Next

(* Cores and DMA see one memory, whatever the number of tiles, superbanks  *)
(* and banks and whatever remaps are on: every word of a wide access that  *)
(* mempool_tcdm_bank_interco.sv routes to a bank is the word that a core's *)
(* access to the same address finds in that bank and row.                  *)
THEOREM WideIsCoherent == Spec => []WideCoherent
  <1>1. Init /\ [][Next]_vars => []WideInv
    BY InitWideInv, StepWideInv, PTL
  <1> QED
    BY <1>1, CoherentBanks, PTL DEF Spec

-------------------------------------------------------------------------------
(* The order of the answers.                                               *)

(* One beat of the DMA is as wide as a tile (512 bits and 16 banks in      *)
(* MemPool).  With more superbanks i_wide_resp_mux picks any that has an   *)
(* answer, and the answers of one tile overtake each other.                *)
OneSuperbank == NumSuperbanks = 1

Beats == [write : BOOLEAN, addr : Nat, last : BOOLEAN]

(* The tile that serves beat x, its rotation, and what bank b holds of it. *)
TileOf(x) == WideRequest(x).tile
RotOf(x) == req_rot(WideRequest(x))
WordIn(x, b) ==
  [wide |-> TRUE, row |-> WideRequest(x).row, id |-> x.addr, word |-> WordOf(b, RotOf(x))]

(* The same of a sequence of beats.                                        *)
Image(s, g) == [k \in 1 .. Len(s) |-> g[s[k]]]
TileFn == [x \in Beats |-> TileOf(x)]
RotFn == [x \in Beats |-> RotOf(x)]
WordFn(b) == [x \in Beats |-> WordIn(x, b)]

(* The wide requests among the at most two that a bank holds.              *)
Wides(s) ==
  IF Len(s) = 0 THEN <<>>
  ELSE IF Len(s) = 1 THEN IF s[1].wide THEN <<s[1]>> ELSE <<>>
  ELSE IF s[1].wide THEN IF s[2].wide THEN <<s[1], s[2]>> ELSE <<s[1]>>
  ELSE IF s[2].wide THEN <<s[2]>> ELSE <<>>

-------------------------------------------------------------------------------
(* The inductive invariant.  flight are the beats that all banks have and  *)
(* that wait for their answer, in order; lane splits them by tile, and     *)
(* beat i of flight is at position rank[i] of its lane.                    *)
Merged(flight, lane, rank) ==
  /\ flight \in Seq(Beats) /\ lane \in [Tiles -> Seq(Beats)] /\ rank \in [1 .. Len(flight) -> Nat]
  /\ \A i \in 1 .. Len(flight) :
       rank[i] \in 1 .. Len(lane[TileOf(flight[i])]) /\ lane[TileOf(flight[i])][rank[i]] = flight[i]
  /\ \A i, j \in 1 .. Len(flight) :
       i < j /\ TileOf(flight[i]) = TileOf(flight[j]) => rank[i] < rank[j]
  /\ \A t \in Tiles : \A k \in 1 .. Len(lane[t]) :
       \E i \in 1 .. Len(flight) : TileOf(flight[i]) = t /\ rank[i] = k

(* i_fork: the response buffers and the request channel take a beat in     *)
(* either order.                                                           *)
ForkInv ==
  /\ meta_done \in BOOLEAN /\ q_done \in BOOLEAN /\ ~ (meta_done /\ q_done)
  /\ cur = <<>> \/ \E x \in Beats : cur = <<x>>
  /\ meta_done \/ q_done => cur # <<>>
  /\ taken \subseteq Banks /\ taken # Banks
  /\ taken # {} => cur # <<>> /\ ~ q_done
  /\ meta_buf \in Seq(Beats)

Buffered(flight) ==
  IF meta_done THEN meta_buf = Append(flight, Head(cur))
  ELSE IF q_done THEN flight = Append(meta_buf, Head(cur))
  ELSE meta_buf = flight

(* The demultiplexer, the rotation FIFOs and the banks hold the beats of   *)
(* flight, each bank also the beat at hand if it has taken it.             *)
Remembered(flight, lane) ==
  /\ NumTiles > 1 => fwd = Image(flight, TileFn)
  /\ \A t \in Tiles : rot_fifo[<<t, 0>>] = Image(lane[t], RotFn)

Holds(t, b) == cur # <<>> /\ TileOf(Head(cur)) = t /\ b \in taken

Stored(lane) ==
  \A t \in Tiles, b \in Banks :
    /\ Len(bank[<<t, b>>]) <= 2
    /\ Wides(bank[<<t, b>>]) =
         IF Holds(t, b) THEN Append(Image(lane[t], WordFn(b)), WordIn(Head(cur), b))
                        ELSE Image(lane[t], WordFn(b))

InOrder(flight, lane, rank) ==
  Merged(flight, lane, rank) /\ Buffered(flight) /\ Remembered(flight, lane) /\ Stored(lane)

RotType == rot_fifo \in [Tiles \X Superbanks -> Seq(Nat)]

OrderInv == ForkInv /\ RotType /\ \E flight, lane, rank : InOrder(flight, lane, rank)

-------------------------------------------------------------------------------
(* The banks of the one superbank.                                         *)
LEMMA OneBanks ==
  ASSUME OneSuperbank
  PROVE  /\ Superbanks = {0} /\ Banks = SBBanks /\ NumBanksPerSB \in Nat \ {0}
         /\ \A b \in Banks : b \in Nat /\ b < NumBanksPerSB /\ Port(0, b) = b /\ b % NumBanksPerSB = b
                             /\ b \div NumBanksPerSB = 0
  <1>1. NumBanksPerTile = NumBanksPerSB
    BY Sizes DEF OneSuperbank
  <1>2. Superbanks = {0} /\ Banks = SBBanks
    BY <1>1, Sizes DEF OneSuperbank, Superbanks, Banks, SBBanks
  <1>3. ASSUME NEW b \in Banks
        PROVE  b \in Nat /\ b < NumBanksPerSB /\ Port(0, b) = b /\ b % NumBanksPerSB = b /\ b \div NumBanksPerSB = 0
    <2>1. b \in Nat /\ b < NumBanksPerSB /\ b \in 0 .. NumBanksPerSB - 1
      BY <1>1, Sizes DEF Banks
    <2>2. b = 0 * NumBanksPerSB + b
      BY <2>1, Sizes
    <2> QED
      BY <2>1, <2>2, Sizes, DivMod DEF Port
  <1> QED
    BY <1>2, <1>3, Sizes

(* Where a beat goes.                                                      *)
LEMMA BeatRoute ==
  ASSUME OneSuperbank, NEW x \in Beats
  PROVE  TileOf(x) \in Tiles /\ Superbank(WideRequest(x)) = 0 /\ RotOf(x) \in SBBanks
  <1> DEFINE a == x.addr * NumBanksPerSB
             B == NumBanksPerTile
  <1>1. a \in Nat /\ B \in Nat \ {0} /\ NumTiles \in Nat \ {0} /\ NumBanksPerSB \in Nat \ {0}
    BY Sizes DEF Beats
  <1>2. Scrambler!TileId(a) \in Nat /\ Scrambler!RowId(a) \in Nat /\ Scrambler!BankId(a) \in Nat
    <2> HIDE DEF a, B
    <2>1. a \div B \in Nat /\ a % B \in 0 .. B - 1
      BY <1>1, Division
    <2>2. (a \div B) % NumTiles \in 0 .. NumTiles - 1
      BY <1>1, <2>1, Division
    <2>3. B * NumTiles \in Nat \ {0}
      BY <1>1
    <2>4. a \div (B * NumTiles) \in Nat
      BY <1>1, <2>3, Division
    <2> QED
      BY <1>1, <2>1, <2>2, <2>4 DEF Scrambler!TileId, Scrambler!RowId, Scrambler!BankId, B
  <1>3. Scrambler!Scramble(a, FALSE) \in Int
    <2>1. Scrambler!RemapRange \in Nat \ {0}
      BY <1>1 DEF Scrambler!RemapRange
    <2> DEFINE low == Scrambler!TileId(a) % Scrambler!RemapRange
               new == (low + Scrambler!RowId(a)) % Scrambler!RemapRange
    <2>2. low \in Nat /\ new \in Nat
      BY <1>2, <2>1
    <2>3. Scrambler!SpmTileIdRemap(a) = a + (new - low) * B
      BY DEF Scrambler!SpmTileIdRemap
    <2> HIDE DEF a, B, low, new
    <2>4. a + (new - low) * B \in Int
      BY <1>1, <2>2
    <2> QED
      BY <1>1, <2>3, <2>4 DEF Scrambler!Scramble
  <1>4. TileOf(x) \in Tiles
    <2> DEFINE s == Scrambler!Scramble(a, FALSE)
    <2>1. TileOf(x) = (s \div B) % NumTiles
      BY DEF TileOf, WideRequest, Scrambler!TileId
    <2> HIDE DEF s, B, a
    <2>2. s \in Int
      BY <1>3 DEF s
    <2>3. s \div B \in Int
      BY <1>1, <2>2
    <2> QED
      BY <1>1, <2>1, <2>3 DEF Tiles
  <1>5. Superbank(WideRequest(x)) = 0
    <2>1. Scrambler!BankId(a) \div NumBanksPerSB \in Nat
      BY <1>1, <1>2
    <2> HIDE DEF a
    <2> QED
      BY <2>1 DEF Superbank, OneSuperbank, WideRequest, a
  <1>6. RotOf(x) \in SBBanks
    <2> DEFINE n == (Scrambler!BankId(a) % NumBanksPerSB)
                      + (IF SpmBankIdRemap THEN Scrambler!RowId(a) ELSE 0)
    <2>1. n \in Nat
      BY <1>1, <1>2
    <2>2. RotOf(x) = n % NumBanksPerSB
      BY DEF RotOf, req_rot, RemapLo, WideRequest
    <2> HIDE DEF n
    <2> QED
      BY <1>1, <2>1, <2>2 DEF SBBanks
  <1> QED
    BY <1>4, <1>5, <1>6

(* The sequence of two.                                                    *)
LEMMA Pair ==
  ASSUME NEW S, NEW x \in S, NEW e \in S
  PROVE  Append(<<x>>, e) = <<x, e>>
  <1>1. <<x>> \in Seq(S) /\ Len(<<x>>) = 1 /\ <<x>>[1] = x
    OBVIOUS
  <1>2. Append(<<x>>, e) \in Seq(S) /\ Len(Append(<<x>>, e)) = 2
    BY <1>1
  <1>3. Append(<<x>>, e)[1] = x /\ Append(<<x>>, e)[2] = e
    BY <1>1
  <1>4. <<x, e>> \in Seq(S) /\ Len(<<x, e>>) = 2 /\ <<x, e>>[1] = x /\ <<x, e>>[2] = e
    OBVIOUS
  <1>5. \A i \in 1 .. 2 : Append(<<x>>, e)[i] = <<x, e>>[i]
    <2>1. \A i \in 1 .. 2 : i = 1 \/ i = 2
      OBVIOUS
    <2> QED
      BY <1>3, <1>4, <2>1
  <1> QED
    BY <1>2, <1>4, <1>5, SeqEqual

(* A bank that takes a request.                                            *)
LEMMA WidesAppend ==
  ASSUME NEW S, NEW s \in Seq(S), NEW e \in S, Len(s) < 2
  PROVE  /\ Len(Append(s, e)) <= 2
         /\ e.wide => Wides(Append(s, e)) = Append(Wides(s), e)
         /\ ~ e.wide => Wides(Append(s, e)) = Wides(s)
  <1>1. CASE Len(s) = 0
    <2>1. s = <<>> /\ Append(s, e) = <<e>>
      BY <1>1
    <2> QED
      BY <2>1 DEF Wides
  <1>2. CASE Len(s) = 1
    <2>0. /\ Append(s, e) \in Seq(S) /\ Len(Append(s, e)) = Len(s) + 1
          /\ \A i \in 1 .. Len(s) : Append(s, e)[i] = s[i] /\ s[i] \in S
          /\ Append(s, e)[Len(s) + 1] = e
      OBVIOUS
    <2>1. /\ Append(s, e) \in Seq(S) /\ Len(Append(s, e)) = 2
          /\ Append(s, e)[1] = s[1] /\ Append(s, e)[2] = e /\ s[1] \in S
      BY <1>2, <2>0
    <2> DEFINE r == Append(s, e)
    <2> HIDE DEF r
    <2>2. CASE s[1].wide
      <3>1. Wides(s) = <<s[1]>>
        BY <1>2, <2>2 DEF Wides
      <3>2. Wides(r) = IF e.wide THEN <<s[1], e>> ELSE <<s[1]>>
        BY <2>1, <2>2 DEF Wides, r
      <3>3. Append(<<s[1]>>, e) = <<s[1], e>>
        BY <2>1, Pair
      <3> QED
        BY <2>1, <3>1, <3>2, <3>3 DEF r
    <2>3. CASE ~ s[1].wide
      <3>1. Wides(s) = <<>>
        BY <1>2, <2>3 DEF Wides
      <3>2. Wides(r) = IF e.wide THEN <<e>> ELSE <<>>
        BY <2>1, <2>3 DEF Wides, r
      <3>3. Append(<<>>, e) = <<e>>
        OBVIOUS
      <3> QED
        BY <2>1, <3>1, <3>2, <3>3 DEF r
    <2> QED
      BY <2>2, <2>3
  <1>3. Len(s) = 0 \/ Len(s) = 1
    <2> DEFINE n == Len(s)
    <2>1. n \in Nat /\ n < 2
      OBVIOUS
    <2> HIDE DEF n
    <2>2. n = 0 \/ n = 1
      BY <2>1
    <2> QED
      BY <2>2 DEF n
  <1> QED
    BY <1>1, <1>2, <1>3

(* A bank that gives up its head.                                          *)
LEMMA WidesTail ==
  ASSUME NEW S, NEW s \in Seq(S), s # <<>>, Len(s) <= 2
  PROVE  /\ Len(Tail(s)) <= 2
         /\ Head(s).wide => /\ Wides(s) # <<>> /\ Wides(s)[1] = Head(s)
                            /\ Wides(Tail(s)) = Tail(Wides(s))
         /\ ~ Head(s).wide => Wides(Tail(s)) = Wides(s)
  <1>1. CASE Len(s) = 1
    <2>1. Tail(s) = <<>> /\ Head(s) = s[1]
      <3>1. Tail(s) \in Seq(S) /\ Len(Tail(s)) = Len(s) - 1
        OBVIOUS
      <3>2. Len(Tail(s)) = 0
        BY <1>1, <3>1
      <3>3. Tail(s) = <<>>
        BY <3>1, <3>2, EmptySeq
      <3> QED
        BY <3>3
    <2>2. Wides(Tail(s)) = <<>> /\ Len(Tail(s)) = 0
      BY <2>1 DEF Wides
    <2>3. Wides(s) = IF s[1].wide THEN <<s[1]>> ELSE <<>>
      BY <1>1 DEF Wides
    <2> QED
      BY <2>1, <2>2, <2>3
  <1>2. CASE Len(s) = 2
    <2>1. Len(Tail(s)) = 1 /\ Tail(s)[1] = s[2] /\ Head(s) = s[1]
      BY <1>2
    <2>2. Wides(Tail(s)) = IF s[2].wide THEN <<s[2]>> ELSE <<>>
      BY <2>1 DEF Wides
    <2>3. Wides(s) = IF s[1].wide THEN IF s[2].wide THEN <<s[1], s[2]>> ELSE <<s[1]>>
                     ELSE IF s[2].wide THEN <<s[2]>> ELSE <<>>
      BY <1>2 DEF Wides
    <2>4. Tail(<<s[1], s[2]>>) = <<s[2]>> /\ Tail(<<s[1]>>) = <<>>
      OBVIOUS
    <2> QED
      BY <2>1, <2>2, <2>3, <2>4
  <1>3. Len(s) = 1 \/ Len(s) = 2
    <2> DEFINE n == Len(s)
    <2>1. n \in Nat /\ n # 0 /\ n <= 2
      OBVIOUS
    <2> HIDE DEF n
    <2>2. n = 1 \/ n = 2
      BY <2>1
    <2> QED
      BY <2>2 DEF n
  <1> QED
    BY <1>1, <1>2, <1>3
-------------------------------------------------------------------------------
(* Sequences of beats, mapped by a function.                               *)
LEMMA ImageSteps ==
  ASSUME NEW S, NEW g \in [Beats -> S], NEW s \in Seq(Beats)
  PROVE  /\ Image(s, g) \in Seq(S) /\ Len(Image(s, g)) = Len(s)
         /\ \A x \in Beats : Image(Append(s, x), g) = Append(Image(s, g), g[x])
         /\ s # <<>> => /\ Image(s, g) # <<>> /\ Image(s, g)[1] = g[s[1]]
                        /\ Image(Tail(s), g) = Tail(Image(s, g))
  <1>1. ASSUME NEW r \in Seq(Beats)
        PROVE  /\ Image(r, g) \in Seq(S) /\ Len(Image(r, g)) = Len(r)
               /\ \A k \in 1 .. Len(r) : Image(r, g)[k] = g[r[k]] /\ r[k] \in Beats
    <2>1. Len(r) \in Nat /\ \A k \in 1 .. Len(r) : r[k] \in Beats
      BY LenProperties
    <2>2. \A k \in 1 .. Len(r) : g[r[k]] \in S
      BY <2>1
    <2> QED
      BY <2>1, <2>2 DEF Image
  <1>2. ASSUME NEW x \in Beats
        PROVE  Image(Append(s, x), g) = Append(Image(s, g), g[x])
    <2> DEFINE u == Image(Append(s, x), g)
               v == Append(Image(s, g), g[x])
    <2>1. /\ Append(s, x) \in Seq(Beats) /\ Len(Append(s, x)) = Len(s) + 1 /\ Len(s) \in Nat
          /\ \A k \in 1 .. Len(s) : Append(s, x)[k] = s[k]
          /\ Append(s, x)[Len(s) + 1] = x
      BY AppendProperties, LenProperties
    <2>2. g[x] \in S
      OBVIOUS
    <2>3. /\ v \in Seq(S) /\ Len(v) = Len(s) + 1
          /\ \A k \in 1 .. Len(s) : v[k] = Image(s, g)[k]
          /\ v[Len(s) + 1] = g[x]
      BY <1>1, <2>2, AppendProperties
    <2>4. u \in Seq(S) /\ Len(u) = Len(s) + 1 /\ \A k \in 1 .. Len(s) + 1 : u[k] = g[Append(s, x)[k]]
      BY <1>1, <2>1
    <2> HIDE DEF u, v
    <2>5. \A k \in 1 .. Len(s) + 1 : u[k] = v[k]
      <3> SUFFICES ASSUME NEW k \in 1 .. Len(s) + 1
                   PROVE  u[k] = v[k]
        OBVIOUS
      <3>1. k \in 1 .. Len(s) \/ k = Len(s) + 1
        BY <2>1
      <3> QED
        BY <1>1, <2>1, <2>3, <2>4, <3>1
    <2>6. u = v
      BY <2>3, <2>4, <2>5, SeqEqual
    <2> QED
      BY <2>6 DEF u, v
  <1>3. ASSUME s # <<>>
        PROVE  /\ Image(s, g) # <<>> /\ Image(s, g)[1] = g[s[1]]
               /\ Image(Tail(s), g) = Tail(Image(s, g))
    <2> DEFINE u == Image(Tail(s), g)
               v == Tail(Image(s, g))
    <2>1. Len(s) \in Nat \ {0}
      BY <1>3, EmptySeq
    <2>2. Image(s, g) # <<>> /\ Image(s, g)[1] = g[s[1]]
      <3>1. 1 \in 1 .. Len(s)
        BY <2>1
      <3> QED
        BY <1>1, <2>1, <3>1, EmptySeq
    <2>3. /\ Tail(s) \in Seq(Beats) /\ Len(Tail(s)) = Len(s) - 1
          /\ \A k \in 1 .. Len(s) - 1 : Tail(s)[k] = s[k + 1]
      BY <1>3, HeadTailProperties
    <2>4. u \in Seq(S) /\ Len(u) = Len(s) - 1 /\ \A k \in 1 .. Len(s) - 1 : u[k] = g[s[k + 1]]
      <3>1. /\ u \in Seq(S) /\ Len(u) = Len(Tail(s))
            /\ \A k \in 1 .. Len(Tail(s)) : u[k] = g[Tail(s)[k]]
        BY <1>1, <2>3
      <3> HIDE DEF u
      <3> QED
        BY <2>3, <3>1
    <2>5. v \in Seq(S) /\ Len(v) = Len(s) - 1 /\ \A k \in 1 .. Len(s) - 1 : v[k] = Image(s, g)[k + 1]
      BY <1>1, <2>2, HeadTailProperties
    <2> HIDE DEF u, v
    <2>6. \A k \in 1 .. Len(s) - 1 : u[k] = v[k]
      <3> SUFFICES ASSUME NEW k \in 1 .. Len(s) - 1
                   PROVE  u[k] = v[k]
        OBVIOUS
      <3>1. k + 1 \in 1 .. Len(s)
        BY <2>1
      <3> QED
        BY <1>1, <2>4, <2>5, <3>1
    <2>7. u = v
      BY <2>4, <2>5, <2>6, SeqEqual
    <2> QED
      BY <2>2, <2>7 DEF u, v
  <1> QED
    BY <1>1, <1>2, <1>3

(* The beat at the head of flight is the oldest of its lane, and leaves    *)
(* both.                                                                   *)
LEMMA MergedTail ==
  ASSUME OneSuperbank, NEW flight, NEW lane, NEW rank, Merged(flight, lane, rank),
         NEW t \in Tiles, flight # <<>>, TileOf(flight[1]) = t
  PROVE  /\ lane[t] # <<>> /\ lane[t][1] = flight[1]
         /\ \E r : Merged(Tail(flight), [lane EXCEPT ![t] = Tail(@)], r)
  <1> DEFINE n == Len(flight)
             T(i) == TileOf(flight[i])
             ln == [lane EXCEPT ![t] = Tail(@)]
             f == Tail(flight)
             r == [i \in 1 .. n - 1 |-> IF T(i + 1) = t THEN rank[i + 1] - 1 ELSE rank[i + 1]]
  <1>0. flight \in Seq(Beats) /\ lane \in [Tiles -> Seq(Beats)] /\ rank \in [1 .. n -> Nat]
    BY DEF Merged
  <1>1. n \in Nat \ {0} /\ 1 \in 1 .. n
    <2>1. n \in Nat \ {0}
      BY <1>0, EmptySeq
    <2> QED
      BY <2>1
  <1>2. /\ \A i \in 1 .. n : rank[i] \in 1 .. Len(lane[T(i)]) /\ lane[T(i)][rank[i]] = flight[i]
        /\ \A i, j \in 1 .. n : i < j /\ T(i) = T(j) => rank[i] < rank[j]
        /\ \A u \in Tiles : \A k \in 1 .. Len(lane[u]) : \E i \in 1 .. n : T(i) = u /\ rank[i] = k
    BY DEF Merged
  <1>3. \A i \in 1 .. n : flight[i] \in Beats /\ T(i) \in Tiles
    BY <1>0, LenProperties, BeatRoute
  <1>4. \A u \in Tiles : lane[u] \in Seq(Beats) /\ Len(lane[u]) \in Nat
    BY <1>0, LenProperties
  <1>5. lane[t] # <<>> /\ 1 \in 1 .. Len(lane[t])
    <2>1. rank[1] \in 1 .. Len(lane[t])
      BY <1>1, <1>2
    <2> QED
      BY <1>4, <2>1, EmptySeq
  <1>6. rank[1] = 1
    <2>1. PICK i \in 1 .. n : T(i) = t /\ rank[i] = 1
      BY <1>2, <1>5
    <2>2. rank[1] \in Nat /\ rank[1] >= 1
      BY <1>1, <1>2, <1>4
    <2>3. i = 1 \/ 1 < i
      BY <1>1
    <2> QED
      BY <1>1, <1>2, <2>1, <2>2, <2>3
  <1>7. lane[t][1] = flight[1]
    BY <1>1, <1>2, <1>6
  <1>8. /\ f \in Seq(Beats) /\ Len(f) = n - 1 /\ \A i \in 1 .. n - 1 : f[i] = flight[i + 1] /\ i + 1 \in 1 .. n
    BY <1>0, <1>1, HeadTailProperties
  <1>9. /\ Tail(lane[t]) \in Seq(Beats) /\ Len(Tail(lane[t])) = Len(lane[t]) - 1
        /\ \A k \in 1 .. Len(lane[t]) - 1 : Tail(lane[t])[k] = lane[t][k + 1]
    BY <1>4, <1>5, HeadTailProperties
  <1>10. /\ ln \in [Tiles -> Seq(Beats)] /\ ln[t] = Tail(lane[t])
         /\ \A u \in Tiles \ {t} : ln[u] = lane[u]
    BY <1>0, <1>9
  <1>11. \A i \in 1 .. n - 1 :
           /\ T(i + 1) = t => r[i] = rank[i + 1] - 1 /\ rank[i + 1] \in 2 .. Len(lane[t])
           /\ T(i + 1) # t => r[i] = rank[i + 1]
           /\ rank[i + 1] \in Nat
    <2> SUFFICES ASSUME NEW i \in 1 .. n - 1
                 PROVE  /\ T(i + 1) = t => r[i] = rank[i + 1] - 1 /\ rank[i + 1] \in 2 .. Len(lane[t])
                        /\ T(i + 1) # t => r[i] = rank[i + 1]
                        /\ rank[i + 1] \in Nat
      OBVIOUS
    <2>1. i + 1 \in 1 .. n /\ 1 < i + 1
      BY <1>1
    <2>2. rank[i + 1] \in Nat /\ rank[i + 1] \in 1 .. Len(lane[T(i + 1)])
      BY <1>0, <1>2, <2>1
    <2>3. T(i + 1) = t => 1 < rank[i + 1]
      BY <1>1, <1>2, <1>6, <2>1
    <2> QED
      BY <1>4, <2>1, <2>2, <2>3
  <1> HIDE DEF r, f, ln, n
  <1>12. r \in [1 .. Len(f) -> Nat]
    <2>1. DOMAIN r = 1 .. Len(f) /\ r = [i \in 1 .. Len(f) |-> r[i]]
      BY <1>8 DEF r
    <2>2. \A i \in 1 .. Len(f) : r[i] \in Nat
      BY <1>4, <1>8, <1>11
    <2> QED
      BY <2>1, <2>2
  <1>13. \A i \in 1 .. Len(f) : r[i] \in 1 .. Len(ln[TileOf(f[i])]) /\ ln[TileOf(f[i])][r[i]] = f[i]
    <2> SUFFICES ASSUME NEW i \in 1 .. n - 1
                 PROVE  r[i] \in 1 .. Len(ln[TileOf(f[i])]) /\ ln[TileOf(f[i])][r[i]] = f[i]
      BY <1>8
    <2>1. i + 1 \in 1 .. n /\ f[i] = flight[i + 1] /\ T(i + 1) \in Tiles
      BY <1>3, <1>8
    <2>2. rank[i + 1] \in 1 .. Len(lane[T(i + 1)]) /\ lane[T(i + 1)][rank[i + 1]] = flight[i + 1]
      BY <1>2, <2>1
    <2>3. CASE T(i + 1) = t
      <3>1. rank[i + 1] \in 2 .. Len(lane[t]) /\ r[i] = rank[i + 1] - 1 /\ Len(lane[t]) \in Nat
        BY <1>4, <1>11, <2>3
      <3>2. r[i] \in 1 .. Len(lane[t]) - 1 /\ r[i] + 1 = rank[i + 1]
        BY <3>1
      <3> QED
        BY <1>9, <1>10, <2>1, <2>2, <2>3, <3>2
    <2>4. CASE T(i + 1) # t
      BY <1>10, <1>11, <2>1, <2>2, <2>4
    <2> QED
      BY <2>3, <2>4
  <1>14. \A i, j \in 1 .. Len(f) : i < j /\ TileOf(f[i]) = TileOf(f[j]) => r[i] < r[j]
    <2> SUFFICES ASSUME NEW i \in 1 .. n - 1, NEW j \in 1 .. n - 1, i < j, TileOf(f[i]) = TileOf(f[j])
                 PROVE  r[i] < r[j]
      BY <1>8
    <2>1. /\ i + 1 \in 1 .. n /\ j + 1 \in 1 .. n /\ i + 1 < j + 1
          /\ f[i] = flight[i + 1] /\ f[j] = flight[j + 1]
      BY <1>1, <1>8
    <2>2. rank[i + 1] < rank[j + 1] /\ T(i + 1) = T(j + 1)
      BY <1>2, <2>1
    <2>3. rank[i + 1] \in Nat /\ rank[j + 1] \in Nat
      BY <1>11
    <2> QED
      BY <1>11, <2>2, <2>3
  <1>15. \A u \in Tiles : \A k \in 1 .. Len(ln[u]) : \E i \in 1 .. Len(f) : TileOf(f[i]) = u /\ r[i] = k
    <2> SUFFICES ASSUME NEW u \in Tiles, NEW k \in 1 .. Len(ln[u])
                 PROVE  \E i \in 1 .. n - 1 : TileOf(f[i]) = u /\ r[i] = k
      BY <1>8
    <2> DEFINE m == IF u = t THEN k + 1 ELSE k
    <2>1. m \in 1 .. Len(lane[u]) /\ (u = t => m > 1)
      BY <1>4, <1>9, <1>10
    <2>2. PICK i \in 1 .. n : T(i) = u /\ rank[i] = m
      BY <1>2, <2>1
    <2>3. i # 1
      BY <1>6, <2>1, <2>2
    <2>4. i - 1 \in 1 .. n - 1 /\ (i - 1) + 1 = i
      BY <1>1, <2>3
    <2>5. TileOf(f[i - 1]) = u
      BY <1>8, <2>2, <2>4
    <2>6. r[i - 1] = k
      BY <1>4, <1>11, <2>1, <2>2, <2>4
    <2> QED
      BY <2>4, <2>5, <2>6
  <1>16. Merged(f, ln, r)
    BY <1>8, <1>10, <1>12, <1>13, <1>14, <1>15 DEF Merged
  <1> QED
    BY <1>5, <1>7, <1>16 DEF f, ln
(* A beat joins flight and its lane.                                       *)
LEMMA MergedAppend ==
  ASSUME OneSuperbank, NEW flight, NEW lane, NEW rank, Merged(flight, lane, rank),
         NEW x \in Beats
  PROVE  \E r : Merged(Append(flight, x), [lane EXCEPT ![TileOf(x)] = Append(@, x)], r)
  <1> DEFINE n == Len(flight)
             t == TileOf(x)
             ln == [lane EXCEPT ![t] = Append(@, x)]
             f == Append(flight, x)
             m == Len(lane[t])
             r == [i \in 1 .. n + 1 |-> IF i = n + 1 THEN m + 1 ELSE rank[i]]
  <1>0. /\ flight \in Seq(Beats) /\ lane \in [Tiles -> Seq(Beats)] /\ rank \in [1 .. n -> Nat]
        /\ n \in Nat /\ t \in Tiles
    BY LenProperties, BeatRoute DEF Merged
  <1>1. lane[t] \in Seq(Beats) /\ m \in Nat /\ \A u \in Tiles : Len(lane[u]) \in Nat
    BY <1>0, LenProperties
  <1>2. /\ \A i \in 1 .. n : /\ rank[i] \in 1 .. Len(lane[TileOf(flight[i])])
                             /\ lane[TileOf(flight[i])][rank[i]] = flight[i]
        /\ \A i, j \in 1 .. n : i < j /\ TileOf(flight[i]) = TileOf(flight[j]) => rank[i] < rank[j]
        /\ \A u \in Tiles : \A k \in 1 .. Len(lane[u]) :
             \E i \in 1 .. n : TileOf(flight[i]) = u /\ rank[i] = k
    BY DEF Merged
  <1>3. \A i \in 1 .. n : flight[i] \in Beats /\ TileOf(flight[i]) \in Tiles
    BY <1>0, LenProperties, BeatRoute
  <1>4. f \in Seq(Beats) /\ Len(f) = n + 1 /\ f[n + 1] = x /\ \A i \in 1 .. n : f[i] = flight[i]
    BY <1>0, AppendProperties
  <1>5. /\ Append(lane[t], x) \in Seq(Beats) /\ Len(Append(lane[t], x)) = m + 1
        /\ Append(lane[t], x)[m + 1] = x /\ \A k \in 1 .. m : Append(lane[t], x)[k] = lane[t][k]
    BY <1>1, AppendProperties
  <1>6. /\ ln \in [Tiles -> Seq(Beats)] /\ ln[t] = Append(lane[t], x)
        /\ \A u \in Tiles \ {t} : ln[u] = lane[u]
    BY <1>0, <1>5
  <1>7. r \in [1 .. Len(f) -> Nat] /\ r[n + 1] = m + 1 /\ \A i \in 1 .. n : r[i] = rank[i]
    BY <1>0, <1>1, <1>4
  <1>8. \A i \in 1 .. n + 1 : i \in 1 .. n \/ i = n + 1
    BY <1>0
  <1> HIDE DEF r, f, ln, n, m, t
  <1>9. \A i \in 1 .. Len(f) : r[i] \in 1 .. Len(ln[TileOf(f[i])]) /\ ln[TileOf(f[i])][r[i]] = f[i]
    <2> SUFFICES ASSUME NEW i \in 1 .. n + 1
                 PROVE  r[i] \in 1 .. Len(ln[TileOf(f[i])]) /\ ln[TileOf(f[i])][r[i]] = f[i]
      BY <1>4
    <2>1. CASE i = n + 1
      <3>1. r[i] = m + 1 /\ f[i] = x /\ m + 1 \in 1 .. m + 1
        BY <1>1, <1>4, <1>7, <2>1
      <3> QED
        BY <1>5, <1>6, <3>1 DEF t
    <2>2. CASE i \in 1 .. n
      <3>1. r[i] = rank[i] /\ f[i] = flight[i] /\ TileOf(f[i]) \in Tiles
        BY <1>3, <1>4, <1>7, <2>2
      <3>2. rank[i] \in 1 .. Len(lane[TileOf(f[i])]) /\ lane[TileOf(f[i])][rank[i]] = f[i]
        BY <1>2, <2>2, <3>1
      <3>3. CASE TileOf(f[i]) = t
        <4>1. rank[i] \in 1 .. m
          BY <3>2, <3>3 DEF m
        <4>2. rank[i] \in 1 .. m + 1
          BY <1>1, <4>1
        <4> QED
          BY <1>5, <1>6, <3>1, <3>2, <3>3, <4>1, <4>2
      <3>4. CASE TileOf(f[i]) # t
        BY <1>6, <3>1, <3>2, <3>4
      <3> QED
        BY <3>3, <3>4
    <2> QED
      BY <1>8, <2>1, <2>2
  <1>10. \A i, j \in 1 .. Len(f) : i < j /\ TileOf(f[i]) = TileOf(f[j]) => r[i] < r[j]
    <2> SUFFICES ASSUME NEW i \in 1 .. n + 1, NEW j \in 1 .. n + 1, i < j, TileOf(f[i]) = TileOf(f[j])
                 PROVE  r[i] < r[j]
      BY <1>4
    <2>1. i \in 1 .. n
      BY <1>0, <1>8
    <2>2. CASE j \in 1 .. n
      BY <1>2, <1>4, <1>7, <2>1, <2>2
    <2>3. CASE j = n + 1
      <3>1. TileOf(flight[i]) = t /\ r[j] = m + 1 /\ r[i] = rank[i]
        BY <1>4, <1>7, <2>1, <2>3 DEF t
      <3>2. rank[i] \in 1 .. m
        BY <1>2, <2>1, <3>1 DEF m
      <3> QED
        BY <1>1, <3>1, <3>2
    <2> QED
      BY <1>8, <2>2, <2>3
  <1>11. \A u \in Tiles : \A k \in 1 .. Len(ln[u]) : \E i \in 1 .. Len(f) : TileOf(f[i]) = u /\ r[i] = k
    <2> SUFFICES ASSUME NEW u \in Tiles, NEW k \in 1 .. Len(ln[u])
                 PROVE  \E i \in 1 .. n + 1 : TileOf(f[i]) = u /\ r[i] = k
      BY <1>4
    <2>1. CASE u = t /\ k = m + 1
      <3>1. n + 1 \in 1 .. n + 1
        BY <1>0
      <3> QED
        BY <1>4, <1>7, <2>1, <3>1 DEF t
    <2>2. CASE k \in 1 .. Len(lane[u])
      <3>1. PICK i \in 1 .. n : TileOf(flight[i]) = u /\ rank[i] = k
        BY <1>2, <2>2
      <3>2. i \in 1 .. n + 1
        BY <1>0
      <3> QED
        BY <1>4, <1>7, <3>1, <3>2
    <2>3. (u = t /\ k = m + 1) \/ k \in 1 .. Len(lane[u])
      <3>1. CASE u = t
        <4>1. k \in 1 .. m + 1
          BY <1>5, <1>6, <3>1
        <4> QED
          BY <1>1, <3>1, <4>1 DEF m
      <3>2. CASE u # t
        BY <1>6, <3>2
      <3> QED
        BY <3>1, <3>2
    <2> QED
      BY <2>1, <2>2, <2>3
  <1>12. Merged(f, ln, r)
    BY <1>4, <1>6, <1>7, <1>9, <1>10, <1>11 DEF Merged
  <1> QED
    BY <1>12 DEF f, ln, t
-------------------------------------------------------------------------------
(* The functions that Image maps by.                                       *)
LEMMA ImageFunctions ==
  ASSUME OneSuperbank, NEW b \in Banks
  PROVE  /\ TileFn \in [Beats -> Tiles] /\ RotFn \in [Beats -> SBBanks]
         /\ WordFn(b) \in [Beats -> {WordIn(x, b) : x \in Beats}]
         /\ \A x \in Beats : TileFn[x] = TileOf(x) /\ RotFn[x] = RotOf(x) /\ WordFn(b)[x] = WordIn(x, b)
  BY BeatRoute DEF TileFn, RotFn, WordFn

(* What they give when the oldest beat of a sequence leaves.               *)
LEMMA ImageTails ==
  ASSUME OneSuperbank, NEW s \in Seq(Beats), s # <<>>, NEW b \in Banks
  PROVE  /\ Image(s, TileFn) # <<>> /\ Image(Tail(s), TileFn) = Tail(Image(s, TileFn))
         /\ Image(s, RotFn) # <<>> /\ Image(Tail(s), RotFn) = Tail(Image(s, RotFn))
         /\ Image(s, WordFn(b)) # <<>> /\ Image(Tail(s), WordFn(b)) = Tail(Image(s, WordFn(b)))
         /\ Image(s, WordFn(b)) \in Seq({WordIn(x, b) : x \in Beats})
  <1>1. /\ TileFn \in [Beats -> Tiles] /\ RotFn \in [Beats -> SBBanks]
        /\ WordFn(b) \in [Beats -> {WordIn(x, b) : x \in Beats}]
    BY ImageFunctions
  <1>2. Image(s, TileFn) # <<>> /\ Image(Tail(s), TileFn) = Tail(Image(s, TileFn))
    BY <1>1, ImageSteps
  <1>3. Image(s, RotFn) # <<>> /\ Image(Tail(s), RotFn) = Tail(Image(s, RotFn))
    BY <1>1, ImageSteps
  <1>4. /\ Image(s, WordFn(b)) # <<>> /\ Image(Tail(s), WordFn(b)) = Tail(Image(s, WordFn(b)))
        /\ Image(s, WordFn(b)) \in Seq({WordIn(x, b) : x \in Beats})
    BY <1>1, ImageSteps
  <1> QED
    BY <1>2, <1>3, <1>4

(* The invariant of the next state, part by part.                          *)
LEMMA Rebuild ==
  ASSUME NEW flight, NEW lane, NEW rank, Merged(flight, lane, rank),
         ForkInv', RotType', Buffered(flight)', Remembered(flight, lane)', Stored(lane)'
  PROVE  OrderInv'
  BY DEF OrderInv, InOrder, Merged

(* The invariant holds at reset.                                           *)
LEMMA InitOrder ==
  ASSUME OneSuperbank, Init
  PROVE  OrderInv
  <1> DEFINE none == [i \in 1 .. 0 |-> 0]
             lane == [t \in Tiles |-> <<>>]
  <1>1. ForkInv
    <2>1. 0 \in Banks
      BY OneBanks DEF SBBanks
    <2>2. taken = {} /\ cur = <<>> /\ meta_done = FALSE /\ q_done = FALSE /\ meta_buf = <<>>
      BY DEF Init, IntercoInit
    <2>3. meta_buf \in Seq(Beats)
      BY <2>2
    <2>4. taken \subseteq Banks /\ taken # Banks
      BY <2>1, <2>2
    <2> QED
      BY <2>2, <2>3, <2>4, Zenon DEF ForkInv
  <1>2. RotType
    <2>1. rot_fifo = [x \in Tiles \X Superbanks |-> <<>>]
      BY DEF Init, IntercoInit
    <2> QED
      BY <2>1 DEF RotType
  <1>3. Merged(<<>>, lane, none)
    BY DEF Merged
  <1>4. Buffered(<<>>)
    BY DEF Buffered, Init
  <1>5. \A g : Image(<<>>, g) = <<>>
    <2> SUFFICES ASSUME NEW g PROVE Image(<<>>, g) = <<>>
      OBVIOUS
    <2>1. Image(<<>>, g) = [k \in 1 .. 0 |-> g[(<<>>)[k]]]
      BY DEF Image
    <2>2. 1 .. 0 = {}
      OBVIOUS
    <2> QED
      BY <2>1, <2>2
  <1>6. Remembered(<<>>, lane)
    <2>1. fwd = <<>> /\ rot_fifo = [x \in Tiles \X Superbanks |-> <<>>] /\ 0 \in Superbanks
      BY OneBanks DEF Init, IntercoInit
    <2> QED
      BY <1>5, <2>1 DEF Remembered
  <1>7. Stored(lane)
    <2>1. bank = [x \in Tiles \X Banks |-> <<>>] /\ taken = {}
      BY DEF Init, IntercoInit
    <2>2. Wides(<<>>) = <<>> /\ Len(<<>>) = 0
      BY DEF Wides
    <2> QED
      BY <1>5, <2>1, <2>2 DEF Stored, Holds
  <1> QED
    BY <1>1, <1>2, <1>3, <1>4, <1>6, <1>7 DEF OrderInv, InOrder

(* A beat stays in the banks when the beat at hand is of no account.       *)
LEMMA StoredStays ==
  ASSUME NEW lane, Stored(lane), BankInv, BankInv',
         \A t \in Tiles, b \in Banks :
           /\ Len(bank'[<<t, b>>]) <= 2 /\ Wides(bank'[<<t, b>>]) = Wides(bank[<<t, b>>])
           /\ Holds(t, b)' <=> Holds(t, b)
           /\ Holds(t, b) => Head(cur)' = Head(cur)
  PROVE  Stored(lane)'
  <1> SUFFICES ASSUME NEW t \in Tiles, NEW b \in Banks
               PROVE  /\ Len(bank'[<<t, b>>]) <= 2
                      /\ Wides(bank'[<<t, b>>]) =
                           IF Holds(t, b)' THEN Append(Image(lane[t], WordFn(b)), WordIn(Head(cur)', b))
                                           ELSE Image(lane[t], WordFn(b))
    BY DEF Stored, Wides, WordIn, Image, WordFn
  <1>1. Wides(bank[<<t, b>>]) =
          IF Holds(t, b) THEN Append(Image(lane[t], WordFn(b)), WordIn(Head(cur), b))
                         ELSE Image(lane[t], WordFn(b))
    BY DEF Stored
  <1> QED
    BY <1>1

(* Steps that leave the wide path alone.                                   *)
LEMMA OrderStays ==
  ASSUME OrderInv, UNCHANGED <<bank, rot_fifo, taken, cur, meta_done, q_done, meta_buf, fwd>>
  PROVE  OrderInv'
  <1>1. PICK flight, lane, rank : InOrder(flight, lane, rank)
    BY DEF OrderInv
  <1>2. ForkInv' /\ RotType'
    BY DEF OrderInv, ForkInv, RotType
  <1>3. Buffered(flight)' /\ Remembered(flight, lane)' /\ Stored(lane)'
    BY <1>1 DEF InOrder, Buffered, Remembered, Stored, Holds
  <1> QED
    BY <1>1, <1>2, <1>3, Rebuild DEF InOrder
(* A step that changes no bank and accepts nothing of the beat at hand.    *)
LEMMA BanksAlone ==
  ASSUME NEW flight, NEW lane, NEW rank, InOrder(flight, lane, rank), RotType, taken = {} \/ cur' = cur,
         UNCHANGED <<bank, rot_fifo, taken, fwd>>
  PROVE  RotType' /\ Remembered(flight, lane)' /\ Stored(lane)'
  <1>1. RotType' /\ Remembered(flight, lane)'
    BY DEF InOrder, RotType, Remembered
  <1>2. CASE cur' = cur
    BY <1>1, <1>2 DEF InOrder, Stored, Holds
  <1>3. CASE taken = {}
    BY <1>1, <1>3 DEF InOrder, Stored, Holds
  <1> QED
    BY <1>1, <1>2, <1>3

(* The arbiter picks the next beat.                                        *)
LEMMA ArbitrateOrder ==
  ASSUME WideInv, OrderInv, Arbitrate
  PROVE  OrderInv'
  <1>1. PICK flight, lane, rank : InOrder(flight, lane, rank)
    BY DEF OrderInv
  <1>2. /\ cur = <<>> /\ UNCHANGED <<bank, rot_fifo, taken, meta_done, q_done, meta_buf, fwd>>
        /\ cur' = <<IF meta_sel THEN wr_meta ELSE rd_meta>>
    BY DEF Arbitrate, interco
  <1>3. taken = {} /\ ~ meta_done /\ ~ q_done
    BY <1>2 DEF OrderInv, ForkInv
  <1>4. meta_sel => wr_meta \in Beats
    <2> SUFFICES ASSUME meta_sel PROVE wr_meta \in Beats
      OBVIOUS
    <2>1. wr_valid
      BY DEF Arbitrate, meta_sel
    <2>2. NextBeat(w_cnt_q, wr_addr, aw, wr_meta.addr) /\ BurstOK(w_cnt_q, wr_addr, aw)
      BY <2>1 DEF wr_valid, wr_meta, NextBeat, WideInv, BurstInv
    <2>3. wr_meta.addr \in Nat
      BY <2>2, NextBeatInRange DEF DmaAddr
    <2> QED
      BY <2>3 DEF wr_meta, Beats
  <1>5. ~ meta_sel => rd_meta \in Beats
    <2> SUFFICES ASSUME ~ meta_sel PROVE rd_meta \in Beats
      OBVIOUS
    <2>1. rd_valid
      BY DEF Arbitrate, meta_sel
    <2>2. NextBeat(r_cnt_q, rd_addr, ar, rd_meta.addr) /\ BurstOK(r_cnt_q, rd_addr, ar)
      BY <2>1 DEF rd_valid, rd_meta, NextBeat, WideInv, BurstInv
    <2>3. rd_meta.addr \in Nat
      BY <2>2, NextBeatInRange DEF DmaAddr
    <2> QED
      BY <2>3 DEF rd_meta, Beats
  <1>6. \E x \in Beats : cur' = <<x>>
    BY <1>2, <1>4, <1>5
  <1>7. ForkInv'
    BY <1>2, <1>3, <1>6 DEF OrderInv, ForkInv
  <1>8. Buffered(flight)'
    BY <1>1, <1>2, <1>3 DEF InOrder, Buffered
  <1> QED
    BY <1>1, <1>2, <1>3, <1>7, <1>8, BanksAlone, Rebuild DEF OrderInv, InOrder

(* The response buffers take the beat at hand.                             *)
LEMMA BufferMetaOrder ==
  ASSUME OrderInv, BufferMeta
  PROVE  OrderInv'
  <1>1. PICK flight, lane, rank : InOrder(flight, lane, rank)
    BY DEF OrderInv
  <1>2. /\ cur # <<>> /\ ~ meta_done /\ meta_buf' = Append(meta_buf, Head(cur))
        /\ UNCHANGED <<bank, rot_fifo, taken, fwd>>
    BY DEF BufferMeta, interco
  <1>3. PICK x \in Beats : cur = <<x>>
    BY <1>2 DEF OrderInv, ForkInv
  <1>4. Head(cur) = x /\ meta_buf \in Seq(Beats) /\ meta_buf' \in Seq(Beats)
    BY <1>2, <1>3 DEF OrderInv, ForkInv
  <1>5. CASE q_done
    <2>1. cur' = <<>> /\ meta_done' = FALSE /\ q_done' = FALSE
      BY <1>5 DEF BufferMeta, Accepted
    <2>2. taken = {}
      BY <1>5 DEF OrderInv, ForkInv
    <2>3. ForkInv'
      BY <1>2, <1>4, <2>1, <2>2 DEF OrderInv, ForkInv
    <2>4. Buffered(flight)'
      BY <1>1, <1>2, <1>5, <2>1 DEF InOrder, Buffered
    <2> QED
      BY <1>1, <1>2, <2>2, <2>3, <2>4, BanksAlone, Rebuild DEF OrderInv, InOrder
  <1>6. CASE ~ q_done
    <2>1. meta_done' = TRUE /\ cur' = cur /\ q_done' = q_done
      BY <1>6 DEF BufferMeta
    <2>2. ForkInv'
      BY <1>2, <1>4, <1>6, <2>1 DEF OrderInv, ForkInv
    <2>3. Buffered(flight)'
      BY <1>1, <1>2, <1>6, <2>1 DEF InOrder, Buffered
    <2> QED
      BY <1>1, <1>2, <2>1, <2>2, <2>3, BanksAlone, Rebuild DEF OrderInv, InOrder
  <1> QED
    BY <1>5, <1>6

(* A bank takes or answers a narrow request.                               *)
LEMMA NarrowOrder ==
  ASSUME WideInv, WideInv', OrderInv,
         UNCHANGED <<rot_fifo, taken, cur, meta_done, q_done, meta_buf, fwd>>,
         \A x \in Tiles \X Banks : Len(bank'[x]) <= 2 /\ Wides(bank'[x]) = Wides(bank[x])
  PROVE  OrderInv'
  <1>1. PICK flight, lane, rank : InOrder(flight, lane, rank)
    BY DEF OrderInv
  <1>2. ForkInv' /\ RotType' /\ Buffered(flight)' /\ Remembered(flight, lane)'
    BY <1>1 DEF OrderInv, ForkInv, RotType, InOrder, Buffered, Remembered
  <1>3. Stored(lane)'
    <2>1. \A t \in Tiles, b \in Banks : <<t, b>> \in Tiles \X Banks
      OBVIOUS
    <2>2. \A t \in Tiles, b \in Banks : Holds(t, b)' <=> Holds(t, b)
      BY DEF Holds
    <2> QED
      BY <1>1, <2>1, <2>2, StoredStays DEF InOrder, WideInv
  <1> QED
    BY <1>1, <1>2, <1>3, Rebuild DEF InOrder

(* A bank takes a narrow request.                                          *)
LEMMA NarrowAcceptOrder ==
  ASSUME WideInv, WideInv', OrderInv, NEW p \in NarrowPorts, NarrowAccept(p)
  PROVE  OrderInv'
  <1> DEFINE n == Head(narrow[p])
             x0 == <<n.tile, narrow_sel(n.bank_id, n.row)>>
             e == [wide |-> FALSE, port |-> p]
             D == Tiles \X Banks
  <1>1. /\ bank' = [bank EXCEPT ![x0] = Append(@, e)] /\ Len(bank[x0]) < 2
        /\ UNCHANGED <<rot_fifo, taken, cur, meta_done, q_done, meta_buf, fwd>>
    BY DEF NarrowAccept, NarrowTake, BankDepth
  <1>2. e \in Entry /\ ~ e.wide /\ bank \in [D -> Seq(Entry)]
    BY DEF Entry, WideInv, BankInv
  <1>3. \A x \in D : Len(bank[x]) <= 2
    <2>1. PICK flight, lane, rank : InOrder(flight, lane, rank)
      BY DEF OrderInv
    <2>2. \A t \in Tiles, b \in Banks : Len(bank[<<t, b>>]) <= 2
      BY <2>1 DEF InOrder, Stored
    <2> QED
      BY <2>2
  <1> HIDE DEF x0, e, D
  <1>4. \A x \in D : Len(bank'[x]) <= 2 /\ Wides(bank'[x]) = Wides(bank[x])
    <2> SUFFICES ASSUME NEW x \in D
                 PROVE  Len(bank'[x]) <= 2 /\ Wides(bank'[x]) = Wides(bank[x])
      OBVIOUS
    <2>1. CASE x = x0
      <3>1. bank'[x] = Append(bank[x], e) /\ bank[x] \in Seq(Entry) /\ Len(bank[x]) < 2
        BY <1>1, <1>2, <2>1
      <3> QED
        BY <1>2, <3>1, WidesAppend
    <2>2. CASE x # x0
      BY <1>1, <1>2, <1>3, <2>2
    <2> QED
      BY <2>1, <2>2
  <1> QED
    BY <1>1, <1>4, NarrowOrder DEF D

(* A bank answers a narrow request.                                        *)
LEMMA NarrowAnswerOrder ==
  ASSUME WideInv, WideInv', OrderInv, NEW t \in Tiles, NEW b \in Banks, NarrowAnswer(t, b)
  PROVE  OrderInv'
  <1> DEFINE x0 == <<t, b>>
             D == Tiles \X Banks
  <1>1. /\ bank' = [bank EXCEPT ![x0] = Tail(@)] /\ bank[x0] # <<>> /\ ~ Head(bank[x0]).wide
        /\ UNCHANGED <<rot_fifo, taken, cur, meta_done, q_done, meta_buf, fwd>>
    BY DEF NarrowAnswer, NarrowRespond
  <1>2. bank \in [D -> Seq(Entry)]
    BY DEF WideInv, BankInv
  <1>3. \A x \in D : Len(bank[x]) <= 2
    <2>1. PICK flight, lane, rank : InOrder(flight, lane, rank)
      BY DEF OrderInv
    <2>2. \A u \in Tiles, c \in Banks : Len(bank[<<u, c>>]) <= 2
      BY <2>1 DEF InOrder, Stored
    <2> QED
      BY <2>2
  <1> HIDE DEF x0, D
  <1>4. \A x \in D : Len(bank'[x]) <= 2 /\ Wides(bank'[x]) = Wides(bank[x])
    <2> SUFFICES ASSUME NEW x \in D
                 PROVE  Len(bank'[x]) <= 2 /\ Wides(bank'[x]) = Wides(bank[x])
      OBVIOUS
    <2>1. CASE x = x0
      <3>1. bank'[x] = Tail(bank[x]) /\ bank[x] \in Seq(Entry) /\ Len(bank[x]) <= 2 /\ bank[x] # <<>>
        BY <1>1, <1>2, <1>3, <2>1
      <3> QED
        BY <1>1, <2>1, <3>1, WidesTail
    <2>2. CASE x # x0
      BY <1>1, <1>2, <1>3, <2>2
    <2> QED
      BY <2>1, <2>2
  <1> QED
    BY <1>1, <1>4, NarrowOrder DEF D
(* A bank takes its word of the beat at hand, and with the last one the    *)
(* beat joins flight.                                                      *)
LEMMA TakeWordOrder ==
  ASSUME OneSuperbank, WideInv, WideInv', OrderInv, NEW b \in Banks, TakeWord(b)
  PROVE  OrderInv'
  <1>1. PICK flight, lane, rank : InOrder(flight, lane, rank)
    BY DEF OrderInv
  <1>2. cur # <<>> /\ ~ q_done
    BY DEF TakeWord, WidePresented
  <1>3. PICK x \in Beats : cur = <<x>>
    BY <1>2 DEF OrderInv, ForkInv
  <1> DEFINE w == WideRequest(Head(cur))
             t == TileOf(x)
             e == WordIn(x, b)
             D == Tiles \X Banks
  <1>4. Head(cur) = x /\ w = WideRequest(x)
    BY <1>3
  <1>5. t \in Tiles /\ Superbank(w) = 0 /\ RotOf(x) \in SBBanks /\ w.tile = t /\ req_rot(w) = RotOf(x)
    BY <1>4, BeatRoute DEF TileOf, RotOf
  <1>6. LastTaken(w, b) <=> taken \cup {b} = Banks
    <2>1. {Port(Superbank(w), i) : i \in SBBanks} = Banks
      BY <1>5, OneBanks
    <2> HIDE DEF w
    <2> QED
      BY <2>1 DEF LastTaken
  <1>7. /\ b \notin taken /\ Len(bank[<<t, b>>]) < 2
        /\ bank' = [bank EXCEPT ![<<t, b>>] = Append(@, e)]
    <2>1. WideTake(w, b)
      BY DEF TakeWord
    <2>2. b \notin taken
      BY <2>1 DEF WideTake, wide_fork_valid
    <2>3. w.id = x.addr /\ b % NumBanksPerSB = b
      BY <1>4, OneBanks DEF WideRequest
    <2>4. e = [wide |-> TRUE, row |-> w.row, id |-> w.id, word |-> WordOf(b % NumBanksPerSB, req_rot(w))]
      BY <1>4, <1>5, <2>3 DEF WordIn
    <2>5. /\ Len(bank[<<w.tile, b>>]) < BankDepth
          /\ bank' = [bank EXCEPT ![<<w.tile, b>>] = Append(@,
               [wide |-> TRUE, row |-> w.row, id |-> w.id, word |-> WordOf(b % NumBanksPerSB, req_rot(w))])]
      BY <2>1 DEF WideTake
    <2> HIDE DEF w, e, t
    <2> QED
      BY <1>5, <2>2, <2>4, <2>5 DEF BankDepth
  <1>8. e \in Entry /\ e.wide
    <2>1. DmaAddr(x.addr)
      BY <1>2, <1>4, NextBeatInRange DEF WideInv, BurstInv
    <2>2. b \div NumBanksPerSB = Superbank(WideRequest(x)) /\ b % NumBanksPerSB = b
      BY <1>4, <1>5, OneBanks
    <2>3. /\ WideRequest(x).row \in Nat /\ WordOf(b, RotOf(x)) \in SBBanks
      BY <2>1, <2>2, RoutedRight DEF RotOf
    <2>4. x.addr \in Nat
      BY DEF Beats
    <2> QED
      BY <2>3, <2>4 DEF WordIn, Entry
  <1>9. bank \in [D -> Seq(Entry)]
    BY DEF WideInv, BankInv
  <1>10. \A u \in Tiles, c \in Banks :
           /\ Len(bank[<<u, c>>]) <= 2
           /\ Wides(bank[<<u, c>>]) = IF u = t /\ c \in taken
                                       THEN Append(Image(lane[u], WordFn(c)), WordIn(x, c))
                                       ELSE Image(lane[u], WordFn(c))
    BY <1>1, <1>2, <1>4 DEF InOrder, Stored, Holds
  <1>11. \A u \in Tiles, c \in Banks :
           /\ Len(bank'[<<u, c>>]) <= 2
           /\ Wides(bank'[<<u, c>>]) = IF u = t /\ c \in taken \cup {b}
                                        THEN Append(Image(lane[u], WordFn(c)), WordIn(x, c))
                                        ELSE Image(lane[u], WordFn(c))
    <2> SUFFICES ASSUME NEW u \in Tiles, NEW c \in Banks
                 PROVE  /\ Len(bank'[<<u, c>>]) <= 2
                        /\ Wides(bank'[<<u, c>>]) = IF u = t /\ c \in taken \cup {b}
                                                     THEN Append(Image(lane[u], WordFn(c)), WordIn(x, c))
                                                     ELSE Image(lane[u], WordFn(c))
      OBVIOUS
    <2> DEFINE y == <<u, c>>
               y0 == <<t, b>>
    <2>0. y \in D /\ (y = y0 <=> u = t /\ c = b)
      OBVIOUS
    <2>1. CASE u = t /\ c = b
      <3> HIDE DEF D, y, y0, t, e
      <3>1. bank'[y] = Append(bank[y], e) /\ bank[y] \in Seq(Entry) /\ Len(bank[y]) < 2
        BY <1>7, <1>9, <2>0, <2>1 DEF y0
      <3>2. Len(bank'[y]) <= 2 /\ Wides(bank'[y]) = Append(Wides(bank[y]), e)
        BY <1>8, <3>1, WidesAppend
      <3>3. Wides(bank[y]) = Image(lane[u], WordFn(c))
        BY <1>7, <1>10, <2>1 DEF y
      <3> QED
        BY <2>1, <3>2, <3>3 DEF y, e
    <2>2. CASE ~ (u = t /\ c = b)
      <3> HIDE DEF D, y, y0, t, e
      <3>1. bank'[y] = bank[y]
        BY <1>7, <1>9, <2>0, <2>2 DEF y0
      <3> QED
        BY <1>10, <2>2, <3>1 DEF y
    <2> QED
      BY <2>1, <2>2
  <1>12. meta_buf' = meta_buf /\ meta_done \in BOOLEAN /\ taken \subseteq Banks /\ meta_buf \in Seq(Beats)
    BY DEF TakeWord, OrderInv, ForkInv
  <1>13. RotType
    BY DEF OrderInv
  <1>14. CASE ~ LastTaken(w, b)
    <2>1. /\ UNCHANGED <<fwd, cur, meta_done, q_done, rot_fifo>> /\ taken' = taken \cup {b}
      BY <1>14 DEF TakeWord, WideTake
    <2>2. ForkInv'
      BY <1>2, <1>6, <1>12, <1>14, <2>1 DEF OrderInv, ForkInv
    <2>3. RotType' /\ Buffered(flight)' /\ Remembered(flight, lane)'
      BY <1>1, <1>12, <1>13, <2>1 DEF RotType, InOrder, Buffered, Remembered
    <2>4. Stored(lane)'
      BY <1>2, <1>4, <1>11, <2>1 DEF Stored, Holds
    <2> QED
      BY <1>1, <2>2, <2>3, <2>4, Rebuild DEF InOrder
  <1>15. CASE LastTaken(w, b)
    <2> DEFINE f == Append(flight, x)
               ln == [lane EXCEPT ![t] = Append(@, x)]
    <2>1. PICK r : Merged(f, ln, r)
      BY <1>1, MergedAppend DEF InOrder
    <2>2. /\ taken' = {} /\ fwd' = IF NumTiles > 1 THEN Append(fwd, t) ELSE fwd
          /\ rot_fifo' = [rot_fifo EXCEPT ![<<t, 0>>] = Append(@, RotOf(x))]
      BY <1>5, <1>15 DEF TakeWord, WideTake
    <2>3. IF meta_done THEN cur' = <<>> /\ meta_done' = FALSE /\ q_done' = FALSE
                       ELSE cur' = cur /\ meta_done' = FALSE /\ q_done' = TRUE
      <3>1. IF meta_done THEN Accepted ELSE q_done' = TRUE /\ UNCHANGED <<cur, meta_done, axi, bursts>>
        BY <1>15 DEF TakeWord
      <3> QED
        BY <1>12, <3>1 DEF Accepted
    <2>4. /\ flight \in Seq(Beats) /\ lane \in [Tiles -> Seq(Beats)]
          /\ ln[t] = Append(lane[t], x) /\ \A u \in Tiles \ {t} : ln[u] = lane[u]
      BY <1>1, <1>5 DEF InOrder, Merged
    <2>5. ForkInv'
      <3>1. taken' \subseteq Banks /\ taken' # Banks
        BY <2>2
      <3>2. /\ meta_done' \in BOOLEAN /\ q_done' \in BOOLEAN /\ ~ (meta_done' /\ q_done')
            /\ cur' = <<>> \/ \E y \in Beats : cur' = <<y>>
            /\ meta_done' \/ q_done' => cur' # <<>>
        BY <1>2, <1>3, <2>3
      <3> QED
        BY <1>12, <2>2, <3>1, <3>2 DEF ForkInv
    <2>6. Buffered(f)'
      <3>1. CASE meta_done
        <4>1. meta_buf = f
          BY <1>1, <1>4, <3>1 DEF InOrder, Buffered
        <4> QED
          BY <1>12, <2>3, <3>1, <4>1 DEF Buffered
      <3>2. CASE ~ meta_done
        <4>1. meta_buf = flight
          BY <1>1, <1>2, <3>2 DEF InOrder, Buffered
        <4> QED
          BY <1>4, <1>12, <2>3, <3>2, <4>1 DEF Buffered
      <3> QED
        BY <3>1, <3>2
    <2>7. RotType' /\ Remembered(f, ln)'
      <3> DEFINE E == Tiles \X Superbanks
      <3>1. RotOf(x) \in Nat /\ <<t, 0>> \in E /\ \A u \in Tiles : <<u, 0>> \in E
        BY <1>5, OneBanks DEF SBBanks
      <3>2. rot_fifo \in [E -> Seq(Nat)]
        BY <1>13 DEF RotType
      <3>3. /\ rot_fifo'[<<t, 0>>] = Append(rot_fifo[<<t, 0>>], RotOf(x))
            /\ \A u \in Tiles \ {t} : rot_fifo'[<<u, 0>>] = rot_fifo[<<u, 0>>]
            /\ rot_fifo' \in [E -> Seq(Nat)]
        <4> HIDE DEF E
        <4>1. \A u \in Tiles \ {t} : <<u, 0>> # <<t, 0>>
          OBVIOUS
        <4> DEFINE x0 == <<t, 0>>
        <4>2. rot_fifo' = [rot_fifo EXCEPT ![x0] = Append(@, RotOf(x))] /\ x0 \in E
          BY <2>2, <3>1
        <4> HIDE DEF x0
        <4>3. /\ rot_fifo'[x0] = Append(rot_fifo[x0], RotOf(x)) /\ rot_fifo' \in [E -> Seq(Nat)]
              /\ \A z \in E : z # x0 => rot_fifo'[z] = rot_fifo[z]
          BY <3>1, <3>2, <4>2
        <4> QED
          BY <3>1, <4>1, <4>3 DEF x0
      <3>4. \A u \in Tiles : rot_fifo'[<<u, 0>>] = Image(ln[u], RotFn)
        <4>1. \A u \in Tiles : rot_fifo[<<u, 0>>] = Image(lane[u], RotFn)
          BY <1>1 DEF InOrder, Remembered
        <4>2. Image(Append(lane[t], x), RotFn) = Append(Image(lane[t], RotFn), RotOf(x))
          <5>1. RotFn \in [Beats -> SBBanks] /\ RotFn[x] = RotOf(x) /\ lane[t] \in Seq(Beats)
            BY <1>5, <2>4, ImageFunctions
          <5> QED
            BY <5>1, ImageSteps
        <4> HIDE DEF ln, t
        <4> QED
          BY <1>5, <2>4, <3>3, <4>1, <4>2
      <3>5. NumTiles > 1 => fwd' = Image(f, TileFn)
        <4>1. Image(Append(flight, x), TileFn) = Append(Image(flight, TileFn), t)
          <5>1. TileFn \in [Beats -> Tiles] /\ TileFn[x] = t
            BY ImageFunctions
          <5> HIDE DEF t
          <5> QED
            BY <2>4, <5>1, ImageSteps, ZenonT(30)
        <4> QED
          BY <1>1, <2>2, <4>1 DEF InOrder, Remembered
      <3> QED
        BY <3>3, <3>4, <3>5 DEF RotType, Remembered
    <2>8. Stored(ln)'
      <3> SUFFICES ASSUME NEW u \in Tiles, NEW c \in Banks
                   PROVE  Len(bank'[<<u, c>>]) <= 2 /\ Wides(bank'[<<u, c>>]) = Image(ln[u], WordFn(c))
        BY <2>2 DEF Stored, Holds
      <3>1. c \in taken \cup {b}
        BY <1>6, <1>15
      <3>2. CASE u = t
        <4>1. Image(Append(lane[t], x), WordFn(c)) = Append(Image(lane[t], WordFn(c)), WordIn(x, c))
          <5>1. /\ WordFn(c) \in [Beats -> {WordIn(y, c) : y \in Beats}]
                /\ WordFn(c)[x] = WordIn(x, c) /\ lane[t] \in Seq(Beats)
            BY <1>5, <2>4, ImageFunctions
          <5> QED
            BY <5>1, ImageSteps
        <4> HIDE DEF ln, t
        <4> QED
          BY <1>11, <2>4, <3>1, <3>2, <4>1
      <3>3. CASE u # t
        <4> HIDE DEF ln, t
        <4> QED
          BY <1>11, <2>4, <3>3
      <3> QED
        BY <3>2, <3>3
    <2> HIDE DEF f, ln
    <2> QED
      BY <2>1, <2>5, <2>6, <2>7, <2>8, Rebuild
  <1> QED
    BY <1>14, <1>15
(* A tile whose answer the demultiplexer sees is that of the oldest beat,  *)
(* and has that beat at the head of its banks.                             *)
LEMMA Oldest ==
  ASSUME OneSuperbank, WideInv, ForkInv, NEW flight, NEW lane, NEW rank, InOrder(flight, lane, rank),
         NEW t \in Tiles, p_valid(t, 0)
  PROVE  /\ flight # <<>> /\ flight[1] \in Beats /\ TileOf(flight[1]) = t
         /\ lane[t] # <<>> /\ lane[t][1] = flight[1] /\ lane[t] \in Seq(Beats)
         /\ \A b \in Banks : /\ bank[<<t, b>>] \in Seq(Entry) /\ bank[<<t, b>>] # <<>>
                               /\ Head(bank[<<t, b>>]).wide
                               /\ Head(bank[<<t, b>>]) = WordIn(flight[1], b)
  <1>0. Merged(flight, lane, rank) /\ flight \in Seq(Beats) /\ lane[t] \in Seq(Beats)
    BY DEF InOrder, Merged
  <1>1. 0 \in wide_sel[t] /\ 0 \in Superbanks /\ (NumTiles > 1 => fwd # <<>> /\ Head(fwd) = t)
    BY OneBanks DEF p_valid
  <1>2. \A b \in Banks : bank[<<t, b>>] # <<>> /\ Head(bank[<<t, b>>]).wide
    <2>1. sb_wide_resp_valid(t, 0)
      BY <1>1 DEF WideInv, SelInv
    <2> QED
      BY <1>1, <2>1, Answers, OneBanks
  <1>3. \A b \in Banks : bank[<<t, b>>] \in Seq(Entry) /\ Len(bank[<<t, b>>]) <= 2
    <2>1. \A b \in Banks : <<t, b>> \in Tiles \X Banks /\ Len(bank[<<t, b>>]) <= 2
      BY DEF InOrder, Stored
    <2> QED
      BY <2>1 DEF WideInv, BankInv
  <1>4. \A b \in Banks : Wides(bank[<<t, b>>]) # <<>> /\ Wides(bank[<<t, b>>])[1] = Head(bank[<<t, b>>])
    BY <1>2, <1>3, WidesTail
  <1>5. \A b \in Banks : Wides(bank[<<t, b>>]) =
          IF Holds(t, b) THEN Append(Image(lane[t], WordFn(b)), WordIn(Head(cur), b))
                         ELSE Image(lane[t], WordFn(b))
    BY DEF InOrder, Stored
  <1>6. PICK b0 \in Banks : b0 \notin taken
    BY DEF ForkInv
  <1>7. \A b \in Banks : /\ WordFn(b) \in [Beats -> {WordIn(x, b) : x \in Beats}]
                          /\ \A x \in Beats : WordFn(b)[x] = WordIn(x, b)
    BY ImageFunctions
  <1>8. lane[t] # <<>>
    <2>1. Image(lane[t], WordFn(b0)) # <<>>
      BY <1>4, <1>5, <1>6 DEF Holds
    <2>2. Len(Image(lane[t], WordFn(b0))) = Len(lane[t]) /\ \E S : Image(lane[t], WordFn(b0)) \in Seq(S)
      BY <1>0, <1>7, ImageSteps, ZenonT(30)
    <2>3. Len(lane[t]) \in Nat \ {0}
      BY <2>1, <2>2, EmptySeq
    <2> QED
      BY <2>3, EmptySeq
  <1>9. flight # <<>>
    <2>1. 1 \in 1 .. Len(lane[t])
      BY <1>0, <1>8, EmptySeq
    <2>2. \E i \in 1 .. Len(flight) : TileOf(flight[i]) = t
      BY <1>0, <2>1 DEF Merged
    <2> QED
      BY <2>2
  <1>10. flight[1] \in Beats
    BY <1>0, <1>9
  <1>11. TileOf(flight[1]) = t
    <2>1. CASE NumTiles > 1
      <3>1. fwd = Image(flight, TileFn)
        BY <2>1 DEF InOrder, Remembered
      <3>2. TileFn \in [Beats -> Tiles] /\ TileFn[flight[1]] = TileOf(flight[1])
        BY <1>6, <1>10, ImageFunctions
      <3>3. Image(flight, TileFn) \in Seq(Tiles) /\ Image(flight, TileFn)[1] = TileFn[flight[1]]
        BY <1>0, <1>9, <3>2, ImageSteps
      <3>4. Head(fwd) = fwd[1]
        BY <3>1, <3>3
      <3> QED
        BY <1>1, <2>1, <3>1, <3>2, <3>3, <3>4
    <2>2. CASE ~ (NumTiles > 1)
      <3>1. NumTiles = 1
        BY <2>2, Sizes
      <3> QED
        BY <1>10, <3>1, BeatRoute DEF Tiles
    <2> QED
      BY <2>1, <2>2
  <1>12. lane[t][1] = flight[1]
    BY <1>0, <1>9, <1>11, MergedTail
  <1>13. ASSUME NEW b \in Banks
         PROVE  Head(bank[<<t, b>>]) = WordIn(flight[1], b)
    <2> DEFINE S == {WordIn(x, b) : x \in Beats}
               im == Image(lane[t], WordFn(b))
    <2>1. WordFn(b) \in [Beats -> S] /\ WordFn(b)[flight[1]] = WordIn(flight[1], b)
      BY <1>7, <1>10
    <2> HIDE DEF S
    <2>2. im \in Seq(S) /\ im # <<>> /\ im[1] = WordIn(flight[1], b)
      BY <1>0, <1>8, <1>12, <2>1, ImageSteps
    <2>3. CASE Holds(t, b)
      <3>1. Head(cur) \in Beats
        BY <2>3 DEF Holds, ForkInv
      <3>2. WordIn(Head(cur), b) \in S
        BY <3>1 DEF S
      <3> HIDE DEF im
      <3>3. Append(im, WordIn(Head(cur), b))[1] = im[1]
        BY <2>2, <3>2
      <3> QED
        BY <1>4, <1>5, <2>2, <2>3, <3>3 DEF im
    <2>4. CASE ~ Holds(t, b)
      BY <1>4, <1>5, <2>2, <2>4
    <2> QED
      BY <2>3, <2>4
  <1> QED
    BY <1>0, <1>2, <1>3, <1>8, <1>9, <1>10, <1>11, <1>12, <1>13

(* The oldest beat is also the head of the response buffers, if those hold *)
(* one.                                                                    *)
LEMMA OldestBuffered ==
  ASSUME ForkInv, NEW flight \in Seq(Beats), Buffered(flight), flight # <<>>, meta_buf # <<>>
  PROVE  /\ Head(meta_buf) = flight[1]
         /\ IF meta_done THEN Tail(meta_buf) = Append(Tail(flight), Head(cur))
            ELSE IF q_done THEN Tail(flight) = Append(Tail(meta_buf), Head(cur))
            ELSE Tail(meta_buf) = Tail(flight)
  <1>1. meta_buf \in Seq(Beats) /\ Head(meta_buf) = meta_buf[1] /\ Head(flight) = flight[1]
    BY DEF ForkInv
  <1>2. CASE meta_done
    <2>1. meta_buf = Append(flight, Head(cur))
      BY <1>2 DEF Buffered
    <2> QED
      BY <1>1, <1>2, <2>1, HeadTailAppend
  <1>3. CASE ~ meta_done /\ q_done
    <2>1. flight = Append(meta_buf, Head(cur))
      BY <1>3 DEF Buffered
    <2> QED
      BY <1>1, <1>3, <2>1, HeadTailAppend
  <1>4. CASE ~ meta_done /\ ~ q_done
    BY <1>1, <1>4 DEF Buffered
  <1> QED
    BY <1>2, <1>3, <1>4

(* Every word of an answer is that of the oldest beat.                     *)
LEMMA OrderedAnswers ==
  ASSUME OneSuperbank, WideInv, OrderInv
  PROVE  WideInOrder
  <1> SUFFICES ASSUME NEW t \in Tiles, NEW d \in Superbanks, meta_buf # <<>>, p_valid(t, d)
               PROVE  /\ rot_fifo[<<t, d>>] # <<>>
                      /\ sb_wide_resp(t, d) =
                           [j \in SBBanks |-> CoreLocation(Head(meta_buf).addr * NumBanksPerSB + j)]
    BY Zenon DEF WideInOrder
  <1>1. PICK flight, lane, rank : InOrder(flight, lane, rank)
    BY DEF OrderInv
  <1>2. d = 0
    BY OneBanks
  <1> DEFINE x == flight[1]
             R == RotOf(x)
             P == NumBanksPerSB
  <1>3. /\ flight # <<>> /\ x \in Beats /\ TileOf(x) = t
        /\ lane[t] # <<>> /\ lane[t][1] = x /\ lane[t] \in Seq(Beats)
        /\ \A b \in Banks : /\ bank[<<t, b>>] \in Seq(Entry) /\ bank[<<t, b>>] # <<>>
                              /\ Head(bank[<<t, b>>]).wide
                              /\ Head(bank[<<t, b>>]) = WordIn(x, b)
    BY <1>1, <1>2, Oldest DEF OrderInv
  <1>4. Head(meta_buf) = x
    BY <1>1, <1>3, OldestBuffered DEF OrderInv, InOrder, Merged
  <1>5. R \in SBBanks /\ P \in Nat \ {0} /\ SBBanks = 0 .. P - 1 /\ Banks = SBBanks
    BY <1>3, BeatRoute, OneBanks DEF SBBanks
  <1>6. rot_fifo[<<t, d>>] # <<>> /\ Head(rot_fifo[<<t, d>>]) = R
    <2>1. rot_fifo[<<t, 0>>] = Image(lane[t], RotFn)
      BY <1>1 DEF InOrder, Remembered
    <2>2. RotFn \in [Beats -> SBBanks] /\ RotFn[x] = R
      <3>1. 0 \in Banks
        BY <1>5
      <3> QED
        BY <1>3, <3>1, ImageFunctions
    <2> HIDE DEF R, x
    <2>3. /\ Image(lane[t], RotFn) \in Seq(SBBanks) /\ Image(lane[t], RotFn) # <<>>
          /\ Image(lane[t], RotFn)[1] = RotFn[lane[t][1]]
      BY <1>3, <2>2, ImageSteps
    <2>4. RotFn[lane[t][1]] = R
      BY <1>3, <2>2
    <2> QED
      BY <1>2, <2>1, <2>3, <2>4
  <1> DEFINE B(j) == CHOOSE i \in SBBanks : WordOf(i, R) = j
  <1>7. ASSUME NEW j \in SBBanks
        PROVE  B(j) \in SBBanks /\ WordOf(B(j), R) = j
    <2> HIDE DEF R
    <2> DEFINE i == IF j + R < P THEN j + R ELSE j + R - P
    <2>1. i \in SBBanks /\ j \in 0 .. P - 1 /\ R \in Nat
      BY <1>5
    <2>2. i + P - R = 1 * P + j \/ i + P - R = 0 * P + j
      BY <1>5, <2>1
    <2>3. i + P - R \in Int
      BY <1>5, <2>1
    <2> HIDE DEF i, P
    <2>4. (i + P - R) % P = j
      BY <1>5, <2>1, <2>2, <2>3, DivMod
    <2>5. WordOf(i, R) = j
      BY <2>4 DEF WordOf, P
    <2> QED
      BY <2>1, <2>5
  <1>8. ASSUME NEW j \in SBBanks
        PROVE  <<t, Port(d, B(j)), Head(bank[<<t, Port(d, B(j))>>]).row>> = CoreLocation(x.addr * P + j)
    <2> DEFINE b == B(j)
    <2>1. b \in Banks /\ WordOf(b, R) = j /\ Port(d, b) = b
      BY <1>2, <1>5, <1>7, OneBanks
    <2> HIDE DEF b
    <2> DEFINE h == Head(bank[<<t, b>>])
    <2>2. h.wide /\ h.id = x.addr /\ h.word = j
      <3>1. h = WordIn(x, b)
        BY <1>3, <2>1
      <3> HIDE DEF h, x
      <3>2. h.wide = TRUE /\ h.id = x.addr /\ h.word = WordOf(b, R)
        BY <3>1 DEF WordIn
      <3> QED
        BY <2>1, <3>2
    <2>3. h \in {e \in Entry : Coherent(t, b, e)}
      <3>1. bank[<<t, b>>] \in Seq({e \in Entry : Coherent(t, b, e)})
        BY <2>1 DEF WideInv, BankInv
      <3>2. bank[<<t, b>>] # <<>>
        BY <1>3, <2>1
      <3> QED
        BY <3>1, <3>2
    <2>4. <<t, b, h.row>> = CoreLocation(x.addr * P + j)
      BY <2>2, <2>3 DEF Coherent
    <2> QED
      BY <2>1, <2>4 DEF b
  <1>9. sb_wide_resp(t, d) =
          [j \in SBBanks |->
             LET b == CHOOSE i \in SBBanks : WordOf(i, Head(rot_fifo[<<t, d>>])) = j
             IN  <<t, Port(d, b), Head(bank[<<t, Port(d, b)>>]).row>>]
    BY Zenon DEF sb_wide_resp
  <1>10. sb_wide_resp(t, d) =
           [j \in SBBanks |-> <<t, Port(d, B(j)), Head(bank[<<t, Port(d, B(j))>>]).row>>]
    BY <1>6, <1>9
  <1> HIDE DEF B, x, R
  <1> QED
    BY <1>4, <1>6, <1>8, <1>10
(* The oldest answer leaves.                                               *)
LEMMA DeliverOrder ==
  ASSUME OneSuperbank, WideInv, WideInv', OrderInv, NEW t \in Tiles, NEW d \in Superbanks, Deliver(t, d)
  PROVE  OrderInv'
  <1>1. PICK flight, lane, rank : InOrder(flight, lane, rank)
    BY DEF OrderInv
  <1>2. d = 0 /\ 0 \in Superbanks
    BY OneBanks
  <1>3. /\ meta_buf # <<>> /\ p_valid(t, 0) /\ WidePop(t, 0) /\ meta_buf' = Tail(meta_buf)
        /\ fwd' = IF NumTiles > 1 THEN Tail(fwd) ELSE fwd
        /\ UNCHANGED <<taken, cur, meta_done, q_done>>
    BY <1>2 DEF Deliver
  <1>4. /\ flight # <<>> /\ flight[1] \in Beats /\ TileOf(flight[1]) = t
        /\ lane[t] # <<>> /\ lane[t][1] = flight[1] /\ lane[t] \in Seq(Beats)
        /\ \A b \in Banks : /\ bank[<<t, b>>] \in Seq(Entry) /\ bank[<<t, b>>] # <<>>
                              /\ Head(bank[<<t, b>>]).wide
    BY <1>1, <1>3, Oldest DEF OrderInv
  <1>5. flight \in Seq(Beats) /\ lane \in [Tiles -> Seq(Beats)] /\ Merged(flight, lane, rank)
    BY <1>1 DEF InOrder, Merged
  <1> DEFINE f == Tail(flight)
             ln == [lane EXCEPT ![t] = Tail(@)]
  <1>6. PICK r : Merged(f, ln, r)
    BY <1>4, <1>5, MergedTail
  <1>7. ln[t] = Tail(lane[t]) /\ \A u \in Tiles \ {t} : ln[u] = lane[u]
    BY <1>5
  <1>8. ForkInv'
    <2>1. meta_buf' \in Seq(Beats)
      BY <1>3 DEF OrderInv, ForkInv
    <2> QED
      BY <1>3, <2>1 DEF OrderInv, ForkInv
  <1>9. Buffered(f)'
    <2>1. IF meta_done THEN Tail(meta_buf) = Append(f, Head(cur))
          ELSE IF q_done THEN f = Append(Tail(meta_buf), Head(cur))
          ELSE Tail(meta_buf) = f
      BY <1>1, <1>3, <1>4, <1>5, OldestBuffered DEF OrderInv, InOrder
    <2> HIDE DEF f
    <2> QED
      BY <1>3, <2>1 DEF Buffered
  <1>10. RotType' /\ Remembered(f, ln)'
    <2> DEFINE E == Tiles \X Superbanks
               x0 == <<t, 0>>
    <2>1. x0 \in E /\ \A u \in Tiles : <<u, 0>> \in E /\ (u # t => <<u, 0>> # x0)
      BY <1>2
    <2>2. rot_fifo \in [E -> Seq(Nat)] /\ rot_fifo' = [rot_fifo EXCEPT ![x0] = Tail(@)]
      BY <1>3 DEF OrderInv, RotType, WidePop
    <2>3. \A u \in Tiles : rot_fifo[<<u, 0>>] = Image(lane[u], RotFn)
      BY <1>1 DEF InOrder, Remembered
    <2>4. /\ Image(lane[t], RotFn) # <<>>
          /\ Image(Tail(lane[t]), RotFn) = Tail(Image(lane[t], RotFn))
      <3>1. 0 \in Banks
        BY OneBanks DEF SBBanks
      <3>2. lane[t] \in Seq(Beats) /\ lane[t] # <<>>
        BY <1>4
      <3> QED
        BY <3>1, <3>2, ImageTails
    <2>5. rot_fifo[x0] \in Seq(Nat) /\ rot_fifo[x0] # <<>>
      BY <2>1, <2>2, <2>3, <2>4
    <2> HIDE DEF E, x0
    <2>6. Tail(rot_fifo[x0]) \in Seq(Nat)
      BY <2>5
    <2>7. /\ rot_fifo'[x0] = Tail(rot_fifo[x0]) /\ rot_fifo' \in [E -> Seq(Nat)]
          /\ \A z \in E : z # x0 => rot_fifo'[z] = rot_fifo[z]
      BY <2>1, <2>2, <2>6
    <2>8. \A u \in Tiles : rot_fifo'[<<u, 0>>] = Image(ln[u], RotFn)
      <3> HIDE DEF ln
      <3> QED
        BY <1>7, <2>1, <2>3, <2>4, <2>7 DEF x0
    <2>9. NumTiles > 1 => fwd' = Image(f, TileFn)
      <3>1. 0 \in Banks
        BY OneBanks DEF SBBanks
      <3>2. flight \in Seq(Beats) /\ flight # <<>>
        BY <1>4, <1>5
      <3>3. Image(f, TileFn) = Tail(Image(flight, TileFn))
        BY <3>1, <3>2, ImageTails
      <3> QED
        BY <1>1, <1>3, <3>3 DEF InOrder, Remembered
    <2> QED
      BY <2>7, <2>8, <2>9 DEF RotType, Remembered, E
  <1>11. Stored(ln)'
    <2>1. \A u \in Tiles, b \in Banks :
            /\ Len(bank[<<u, b>>]) <= 2
            /\ Wides(bank[<<u, b>>]) =
                 IF Holds(u, b) THEN Append(Image(lane[u], WordFn(b)), WordIn(Head(cur), b))
                                ELSE Image(lane[u], WordFn(b))
      BY <1>1 DEF InOrder, Stored
    <2>2. \A u \in Tiles, b \in Banks :
            bank'[<<u, b>>] = IF u = t THEN Tail(bank[<<u, b>>]) ELSE bank[<<u, b>>]
      <3>1. \A b \in Banks : b \div NumBanksPerSB = 0
        BY OneBanks
      <3> QED
        BY <1>3, <3>1 DEF WidePop
    <2>3. ASSUME NEW u \in Tiles, NEW b \in Banks
          PROVE  /\ Len(bank'[<<u, b>>]) <= 2
                 /\ Wides(bank'[<<u, b>>]) =
                      IF Holds(u, b) THEN Append(Image(ln[u], WordFn(b)), WordIn(Head(cur), b))
                                     ELSE Image(ln[u], WordFn(b))
      <3> DEFINE im == Image(lane[t], WordFn(b))
      <3>1. CASE u = t
        <4>1. /\ Len(bank'[<<u, b>>]) <= 2
              /\ Wides(bank'[<<u, b>>]) = Tail(Wides(bank[<<u, b>>]))
          BY <1>4, <2>1, <2>2, <3>1, WidesTail, ZenonT(30)
        <4>2. /\ \E S : im \in Seq(S)
              /\ im # <<>> /\ Image(Tail(lane[t]), WordFn(b)) = Tail(im)
          <5>1. lane[t] \in Seq(Beats) /\ lane[t] # <<>>
            BY <1>4
          <5> QED
            BY <5>1, ImageTails
        <4>3. Tail(Append(im, WordIn(Head(cur), b))) = Append(Tail(im), WordIn(Head(cur), b))
          BY <4>2, HeadTailAppend
        <4> HIDE DEF ln, im
        <4>4. Wides(bank[<<u, b>>]) = IF Holds(u, b) THEN Append(im, WordIn(Head(cur), b)) ELSE im
          BY <2>1, <3>1 DEF im
        <4>5. Image(ln[u], WordFn(b)) = Tail(im)
          BY <1>7, <3>1, <4>2
        <4> QED
          BY <4>1, <4>3, <4>4, <4>5
      <3>2. CASE u # t
        <4> HIDE DEF ln
        <4> QED
          BY <1>7, <2>1, <2>2, <3>2
      <3> QED
        BY <3>1, <3>2
    <2>4. \A u \in Tiles, b \in Banks : Holds(u, b)' <=> Holds(u, b)
      BY <1>3 DEF Holds
    <2> HIDE DEF ln
    <2> QED
      BY <1>3, <2>3, <2>4 DEF Stored
  <1> HIDE DEF f, ln
  <1> QED
    BY <1>6, <1>8, <1>9, <1>10, <1>11, Rebuild

(* The invariant is inductive.                                             *)
LEMMA StepOrder ==
  ASSUME OneSuperbank, WideInv, WideInv', OrderInv, [Next]_vars
  PROVE  OrderInv'
  <1>1. CASE SendAR \/ SendAW \/ SendW \/ UNCHANGED vars
    <2>1. UNCHANGED <<bank, rot_fifo, taken, cur, meta_done, q_done, meta_buf, fwd>>
      BY <1>1 DEF SendAR, SendAW, SendW, vars, interco
    <2> QED
      BY <2>1, OrderStays
  <1>2. CASE Arbitrate
    BY <1>2, ArbitrateOrder
  <1>3. CASE BufferMeta
    BY <1>3, BufferMetaOrder
  <1>4. CASE AnyTake
    BY <1>4, TakeWordOrder DEF AnyTake
  <1>5. CASE AnyDeliver
    BY <1>5, DeliverOrder DEF AnyDeliver
  <1>6. ASSUME NEW p \in NarrowPorts, NarrowSend(p)
        PROVE  OrderInv'
    BY <1>6, OrderStays DEF NarrowSend
  <1>7. ASSUME NEW p \in NarrowPorts, NarrowAccept(p)
        PROVE  OrderInv'
    BY <1>7, NarrowAcceptOrder
  <1>8. ASSUME NEW t \in Tiles, NEW b \in Banks, NarrowAnswer(t, b)
        PROVE  OrderInv'
    BY <1>8, NarrowAnswerOrder
  <1> QED
    BY <1>1, <1>2, <1>3, <1>4, <1>5, <1>6, <1>7, <1>8 DEF Next

(* When a tile is one superbank, every answer that leaves the banks meets  *)
(* its own beat in the buffers of axi_to_reqrsp, and its own rotation,     *)
(* although beats go to different tiles, reads and writes take turns and   *)
(* each bank has narrow requests of the cores in between.                  *)
THEOREM WideAnswersInOrder ==
  ASSUME OneSuperbank
  PROVE  Spec => []WideInOrder
  <1>1. Init /\ [][Next]_vars => []WideInv
    BY InitWideInv, StepWideInv, PTL
  <1>2. Init => OrderInv
    BY InitOrder
  <1>3. WideInv /\ WideInv' /\ OrderInv /\ [Next]_vars => OrderInv'
    BY StepOrder
  <1>4. Init /\ [][Next]_vars => []OrderInv
    BY <1>1, <1>2, <1>3, PTL
  <1>5. WideInv /\ OrderInv => WideInOrder
    BY OrderedAnswers
  <1> QED
    BY <1>1, <1>4, <1>5, PTL DEF Spec
===============================================================================
