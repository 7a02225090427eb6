------------------------------- MODULE DmaProofs -------------------------------
(***************************************************************************)
(* Proofs about Dma, for every number of groups, every region width, any   *)
(* set of copies and any speed of the engines: the pieces are exact, and   *)
(* done means done, when software waits for a copy before it asks for the  *)
(* next.                                                                   *)
(***************************************************************************)
EXTENDS Dma, FiniteSetTheorems, TLAPS

(* Software waits for every copy (run dma_overlap shows what happens if it *)
(* does not), and the completion FIFOs hold three entries: with fewer a    *)
(* copy can run out of pieces under way before its last one is taken.  The *)
(* code gives them sixteen.                                                *)
OneCopy == Overlap = 1 /\ TransFifoDepth >= 3

(* A piece, the end of its L1 side, and what makes it one: one side is in  *)
(* the L1, all of it.                                                      *)
Piece == [src : Nat, dst : Nat, n : Nat \ {0}]
L1End(t) == L1Addr(t) + t.n
Proper(t) == t \in Piece /\ (InL1(t.src) <=> ~ InL1(t.dst)) /\ L1End(t) <= L1Size

(* The L1 side of a unit copy and the port whose group has an L1 address.  *)
L1Side(u) == IF InL1(u[1]) THEN u[1] ELSE u[2]
Home(a) == (a % FullWidth) \div Width

(* The registers that hold more than a bit keep their types.               *)
Typed ==
  /\ waiting \in BOOLEAN /\ done_q \in BOOLEAN /\ dma_meta \in BOOLEAN
  /\ launched \in 0 .. 1
  /\ num_trans_q \in Nat
  /\ forked \in SUBSET Ports /\ tie_off \in SUBSET Ports
  /\ fifo \in [Ports -> 0 .. TransFifoDepth]
  /\ port \in [Ports -> Seq(Piece)]

(* No piece of a copy is anywhere.                                         *)
Empty ==
  /\ req_q = <<>> /\ num_trans_q = 0 /\ forked = {} /\ tie_off = {}
  /\ \A i \in Ports : fifo[i] = 0 /\ port[i] = <<>>

Quiet == spill = <<>> /\ Empty /\ owed = {}

(* Port i owes a completion for every piece accepted and not completed by  *)
(* all, and for the one presented if it has taken that; completions may be *)
(* lost but none is made up.                                               *)
Counted ==
  \A i \in Ports :
    Len(port[i]) + (IF i \in tie_off THEN 1 ELSE 0) + fifo[i]
      <= num_trans_q + (IF i \in forked THEN 1 ELSE 0)

(* What is left of a split copy starts where a row does.                   *)
RestAligned ==
  \/ req_q = <<>> /\ forked = {}
  \/ /\ req_q = <<req_q[1]>> /\ forked # Ports
     /\ Proper(req_q[1]) /\ L1Addr(req_q[1]) % FullWidth = 0

(* The pieces of a port lie in the region of its group, one after the      *)
(* other, before what is left of the copy, or in the row of the piece      *)
(* presented.                                                              *)
Ordered ==
  \A i \in Ports :
    /\ Len(port[i]) <= PortDepth
    /\ \A k \in DOMAIN port[i] :
         /\ Proper(port[i][k])
         /\ \A u \in Units(port[i][k]) : Home(L1Side(u)) = i
         /\ \A l \in DOMAIN port[i] : k < l => L1End(port[i][k]) <= L1Addr(port[i][l])
         /\ req_q # <<>> =>
              L1End(port[i][k]) <= L1Addr(req_q[1]) + (IF i \in forked THEN FullWidth ELSE 0)

(* The unit u is in what is left of the copy, and no port has taken it.    *)
Unsent(u) ==
  /\ req_q # <<>> /\ u \in Units(req_q[1])
  /\ \A i \in forked : Involved(burst_req[1], i) => u \notin Units(Slice(burst_req[1], i))

Sent(u) == \E i \in Ports : \E k \in DOMAIN port[i] : u \in Units(port[i][k])

(* The units owed are those unsent and those at a port.                    *)
Exact ==
  /\ \A u \in owed : Unsent(u) \/ Sent(u)
  /\ \A i \in Ports : \A k \in DOMAIN port[i] : Units(port[i][k]) \subseteq owed
  /\ req_q # <<>> => \A u \in Units(req_q[1]) : Unsent(u) => u \in owed

(* The states of a copy: not launched, in the register, under way, and     *)
(* complete.                                                               *)
Resting == launched = 0 /\ ~ waiting /\ ~ dma_meta /\ Quiet
Fresh ==
  /\ launched = 1 /\ ~ done_q /\ ~ dma_meta /\ Empty
  /\ \E t \in Transfers : spill = <<t>> /\ owed = Units(t)
Working ==
  /\ launched = 1 /\ ~ done_q /\ ~ dma_meta /\ spill = <<>> /\ num_trans_q > 0
  /\ Counted /\ RestAligned /\ Ordered /\ Exact
Complete == launched = 1 /\ dma_meta # done_q /\ Quiet

DmaInv == Typed /\ (Resting \/ Fresh \/ Working \/ Complete)

-------------------------------------------------------------------------------
(* Arithmetic of regions.                                                  *)

(* A quotient and a remainder in range are the ones \div and % return.     *)
LEMMA DivMod ==
  ASSUME NEW x \in Int, NEW d \in Nat \ {0}, NEW q \in Int, NEW r \in 0 .. d - 1,
         x = q * d + r
  PROVE  x \div d = q /\ x % d = r
  OBVIOUS

(* What the division of a number returns.                                  *)
LEMMA Division ==
  ASSUME NEW x \in Nat, NEW d \in Nat \ {0}
  PROVE  x \div d \in Nat /\ x % d \in 0 .. d - 1 /\ x = (x \div d) * d + (x % d)
  OBVIOUS

(* The sizes are positive.                                                 *)
LEMMA Sizes ==
  /\ NoMstPorts \in Nat \ {0} /\ Width \in Nat \ {0} /\ FullWidth \in Nat \ {0}
  /\ L1Size \in Nat \ {0} /\ PortDepth \in Nat \ {0} /\ TransFifoDepth \in Nat \ {0}
  <1>1. /\ NoMstPorts \in Nat \ {0} /\ Width \in Nat \ {0}
        /\ L1Size \in Nat \ {0} /\ PortDepth \in Nat \ {0} /\ TransFifoDepth \in Nat \ {0}
    BY Configuration
  <1>2. NoMstPorts * Width \in Nat \ {0}
    BY <1>1
  <1> QED
    BY <1>1, <1>2 DEF FullWidth

(* The region of port i within a row.                                      *)
LEMMA Regions ==
  ASSUME NEW i \in Ports
  PROVE  /\ i \in Nat /\ i * Width \in Nat
         /\ (i + 1) * Width = i * Width + Width
         /\ (i + 1) * Width <= FullWidth
  <1>1. i \in Nat /\ i + 1 <= NoMstPorts
    BY Sizes DEF Ports
  <1>2. (i + 1) * Width <= NoMstPorts * Width
    BY <1>1, Sizes
  <1>3. i * Width \in Nat /\ (i + 1) * Width = i * Width + Width
    BY <1>1, Sizes
  <1> QED
    BY <1>1, <1>2, <1>3 DEF FullWidth

(* An offset in a row is in the region of port i iff i is its quotient.    *)
LEMMA InRegion ==
  ASSUME NEW i \in Ports, NEW x \in Nat
  PROVE  /\ i * Width <= x /\ x < (i + 1) * Width <=> x \div Width = i
         /\ x \div Width = i => x % Width = x - i * Width
  <1> DEFINE q == x \div Width
             r == x % Width
  <1>1. q \in Nat /\ r \in 0 .. Width - 1 /\ x = q * Width + r
    BY Division, Sizes
  <1>2. i * Width <= x /\ x < (i + 1) * Width => q = i
    <2>1. ASSUME i * Width <= x, x < (i + 1) * Width
          PROVE  x \div Width = i
      <3>1. x - i * Width \in 0 .. Width - 1 /\ x = i * Width + (x - i * Width)
        BY <2>1, Regions, Sizes
      <3>2. i \in Int /\ x \in Int
        BY Regions
      <3> QED
        BY <3>1, <3>2, DivMod, Sizes
    <2> QED
      BY <2>1
  <1> HIDE DEF q, r
  <1>3. q = i => i * Width <= x /\ x < (i + 1) * Width /\ r = x - i * Width
    BY <1>1, Regions, Sizes
  <1> QED
    BY <1>2, <1>3 DEF q, r

(* Every offset of a row is in the region of a port.                       *)
LEMMA SomeRegion ==
  ASSUME NEW x \in Nat, x < FullWidth
  PROVE  x \div Width \in Ports
  <1> DEFINE q == x \div Width
             r == x % Width
  <1>1. q \in Nat /\ r \in 0 .. Width - 1 /\ x = q * Width + r
    BY Division, Sizes
  <1> HIDE DEF q, r
  <1>2. ASSUME q >= NoMstPorts PROVE FALSE
    <2>1. q * Width >= NoMstPorts * Width
      BY <1>1, <1>2, Sizes
    <2>2. q * Width \in Nat
      BY <1>1, Sizes
    <2> QED
      BY <1>1, <2>1, <2>2, Sizes DEF FullWidth
  <1> QED
    BY <1>1, <1>2, Sizes DEF Ports, q

(* The offset in its row of an address that starts no new row.             *)
LEMMA SameRow ==
  ASSUME NEW a \in Nat, NEW x \in Nat, (a % FullWidth) + x < FullWidth
  PROVE  (a + x) % FullWidth = (a % FullWidth) + x
  <1> DEFINE q == a \div FullWidth
             r == a % FullWidth
  <1>1. q \in Nat /\ r \in 0 .. FullWidth - 1 /\ a = q * FullWidth + r
    BY Division, Sizes
  <1>2. r + x < FullWidth
    OBVIOUS
  <1> HIDE DEF q, r
  <1>3. a + x = q * FullWidth + (r + x) /\ r + x \in 0 .. FullWidth - 1
    BY <1>1, <1>2, Sizes
  <1>4. q \in Int /\ a + x \in Int
    BY <1>1
  <1> QED
    BY <1>3, <1>4, DivMod, Sizes DEF r

(* The address a row further on.                                           *)
LEMMA NextRow ==
  ASSUME NEW a \in Nat
  PROVE  /\ (a + FullWidth - (a % FullWidth)) % FullWidth = 0
         /\ a % FullWidth \in 0 .. FullWidth - 1
  <1> DEFINE q == a \div FullWidth
             r == a % FullWidth
  <1>1. q \in Nat /\ r \in 0 .. FullWidth - 1 /\ a = q * FullWidth + r
    BY Division, Sizes
  <1> HIDE DEF q, r
  <1>2. a + FullWidth - r = (q + 1) * FullWidth + 0 /\ 0 \in 0 .. FullWidth - 1
    BY <1>1, Sizes
  <1>3. q + 1 \in Int /\ a + FullWidth - r \in Int
    BY <1>1, Sizes
  <1> QED
    BY <1>1, <1>2, <1>3, DivMod, Sizes DEF r

-------------------------------------------------------------------------------
(* Pieces and slices.                                                      *)

(* A copy that software may ask for is a proper piece.                     *)
LEMMA TransfersProper ==
  ASSUME NEW t \in Transfers
  PROVE  Proper(t)
  BY Configuration DEF Proper, Piece, L1End, L1Addr

(* The L1 side of a piece.                                                 *)
LEMMA L1AddrType ==
  ASSUME NEW t, Proper(t)
  PROVE  /\ L1Addr(t) \in Nat /\ t.n \in Nat \ {0} /\ L1End(t) \in Nat
         /\ t.src \in Nat /\ t.dst \in Nat
  BY DEF Proper, Piece, L1Addr, L1End

(* The x-th unit of a piece.                                               *)
LEMMA Sides ==
  ASSUME NEW t, Proper(t), NEW x \in 0 .. t.n - 1
  PROVE  /\ InL1(t.src + x) <=> InL1(t.src)
         /\ InL1(t.dst + x) <=> InL1(t.dst)
         /\ L1Side(<<t.src + x, t.dst + x>>) = L1Addr(t) + x
         /\ <<t.src + x, t.dst + x>> \in Units(t)
  <1>1. t.src \in Nat /\ t.dst \in Nat /\ x \in Nat /\ x < t.n /\ t.n \in Nat
    BY L1AddrType
  <1>2. InL1(t.src + x) <=> InL1(t.src)
    BY <1>1, Sizes DEF InL1, Proper, L1End, L1Addr
  <1>3. InL1(t.dst + x) <=> InL1(t.dst)
    BY <1>1, Sizes DEF InL1, Proper, L1End, L1Addr
  <1>4. L1Side(<<t.src + x, t.dst + x>>) = IF InL1(t.src + x) THEN t.src + x ELSE t.dst + x
    BY DEF L1Side
  <1>5. L1Addr(t) + x = IF InL1(t.src) THEN t.src + x ELSE t.dst + x
    BY DEF L1Addr
  <1>6. <<t.src + x, t.dst + x>> \in Units(t)
    BY DEF Units
  <1> QED
    BY <1>2, <1>3, <1>4, <1>5, <1>6

(* A unit of a piece is known by its L1 side.                              *)
LEMMA UnitSide ==
  ASSUME NEW t, Proper(t), NEW u \in Units(t)
  PROVE  /\ L1Side(u) \in Nat /\ L1Addr(t) <= L1Side(u) /\ L1Side(u) < L1End(t)
         /\ u = <<t.src + (L1Side(u) - L1Addr(t)), t.dst + (L1Side(u) - L1Addr(t))>>
         /\ (InL1(u[1]) <=> ~ InL1(u[2]))
  <1>1. PICK x \in 0 .. t.n - 1 : u = <<t.src + x, t.dst + x>>
    BY DEF Units
  <1>2. L1Side(u) = L1Addr(t) + x
    BY <1>1, Sides
  <1>3. x \in Nat /\ x < t.n
    BY L1AddrType
  <1>4. L1Side(u) - L1Addr(t) = x
    BY <1>2, <1>3, L1AddrType
  <1>5. InL1(u[1]) <=> ~ InL1(u[2])
    <2>1. u[1] = t.src + x /\ u[2] = t.dst + x
      BY <1>1
    <2> QED
      BY <2>1, Sides DEF Proper
  <1> QED
    BY <1>1, <1>2, <1>3, <1>4, <1>5, L1AddrType DEF L1End

(* A piece that idma_split_midend presents stays in its row.               *)
InRow(p) == Proper(p) /\ Start(p) + p.n <= FullWidth

(* Offsets in the row of a piece in one row.                               *)
LEMMA RowOffset ==
  ASSUME NEW p, InRow(p), NEW u \in Units(p)
  PROVE  /\ L1Side(u) % FullWidth = Start(p) + (L1Side(u) - L1Addr(p))
         /\ L1Side(u) % FullWidth \in Nat /\ L1Side(u) % FullWidth < FullWidth
         /\ Home(L1Side(u)) \in Ports
  <1>1. L1Addr(p) \in Nat /\ p.n \in Nat /\ Proper(p)
    BY L1AddrType DEF InRow
  <1>2. L1Side(u) \in Nat /\ L1Addr(p) <= L1Side(u) /\ L1Side(u) < L1Addr(p) + p.n
    BY <1>1, UnitSide DEF L1End
  <1> DEFINE x == L1Side(u) - L1Addr(p)
  <1>3. x \in Nat /\ x < p.n /\ L1Side(u) = L1Addr(p) + x
    BY <1>1, <1>2
  <1>4. Start(p) \in Nat /\ Start(p) = L1Addr(p) % FullWidth
    BY <1>1, Division, Sizes DEF Start
  <1> HIDE DEF x
  <1>5. (L1Addr(p) % FullWidth) + x < FullWidth
    BY <1>1, <1>3, <1>4, Sizes DEF InRow
  <1>6. L1Side(u) % FullWidth = Start(p) + x
    BY <1>1, <1>3, <1>4, <1>5, SameRow
  <1>7. Start(p) + x \in Nat /\ Start(p) + x < FullWidth
    BY <1>3, <1>4, <1>5
  <1> QED
    BY <1>6, <1>7, SomeRegion DEF x, Home

(* Where the slice of port i begins within the piece, and where in the row *)
(* it ends.                                                                *)
Before(p, i) == IF Start(p) >= i * Width THEN 0 ELSE i * Width - Start(p)
Upto(p, i) == IF End(p) <= (i + 1) * Width THEN End(p) ELSE (i + 1) * Width

(* The sizes and offsets of idma_distributed_midend are those of the       *)
(* intersection of the piece with the region of port i.                    *)
LEMMA SliceIs ==
  ASSUME NEW p, InRow(p), NEW i \in Ports, Involved(p, i)
  PROVE  /\ Slice(p, i) = [src |-> p.src + Before(p, i), dst |-> p.dst + Before(p, i),
                           n |-> Upto(p, i) - Start(p) - Before(p, i)]
         /\ Before(p, i) \in Nat
         /\ Upto(p, i) - Start(p) - Before(p, i) \in Nat \ {0}
         /\ Upto(p, i) - Start(p) <= p.n
  <1> DEFINE lo == i * Width
             hi == (i + 1) * Width
             s == Start(p)
             e == End(p)
  <1>1. lo \in Nat /\ hi = lo + Width /\ hi <= FullWidth /\ Width \in Nat \ {0}
    BY Regions, Sizes
  <1>2. L1Addr(p) \in Nat /\ p.n \in Nat \ {0} /\ Proper(p) /\ p \in Piece
    BY L1AddrType DEF InRow, Proper
  <1>3. s \in Nat /\ e = s + p.n /\ s = L1Addr(p) % FullWidth
    BY <1>2, Division, Sizes DEF Start, End
  <1>4. s < hi /\ e > lo
    BY DEF Involved
  <1>5. s >= lo => s % Width = s - lo
    BY <1>3, <1>4, InRegion
  <1>6. e < hi => e % Width = e - lo
    <2>1. e \in Nat
      BY <1>2, <1>3
    <2> QED
      BY <2>1, <1>1, <1>4, InRegion
  <1>7. SliceSize(p, i) = Upto(p, i) - s - Before(p, i)
    <2> HIDE DEF lo, hi, s, e
    <2>1. SliceSize(p, i) = IF s >= lo THEN IF e <= hi THEN p.n ELSE Width - (s % Width)
                            ELSE IF e >= hi THEN Width ELSE e % Width
      BY DEF SliceSize, lo, hi, s, e
    <2>2. Upto(p, i) = (IF e <= hi THEN e ELSE hi) /\ Before(p, i) = (IF s >= lo THEN 0 ELSE lo - s)
      BY DEF Upto, Before, lo, hi, s, e
    <2>3. CASE s >= lo
      BY <2>1, <2>2, <2>3, <1>1, <1>2, <1>3, <1>4, <1>5
    <2>4. CASE ~ (s >= lo)
      BY <2>1, <2>2, <2>4, <1>1, <1>2, <1>3, <1>4, <1>6
    <2> QED
      BY <2>3, <2>4
  <1>8. /\ Before(p, i) \in Nat /\ Upto(p, i) - s - Before(p, i) \in Nat \ {0}
        /\ Upto(p, i) - s <= p.n
    <2> HIDE DEF lo, hi, s, e
    <2>1. Upto(p, i) = (IF e <= hi THEN e ELSE hi) /\ Before(p, i) = (IF s >= lo THEN 0 ELSE lo - s)
      BY DEF Upto, Before, lo, hi, s, e
    <2> QED
      BY <2>1, <1>1, <1>2, <1>3, <1>4
  <1>9. p.src \in Nat /\ p.dst \in Nat /\ (InL1(p.src) <=> ~ InL1(p.dst))
    BY <1>2 DEF Piece, Proper
  <1>10. CASE s >= lo
    <2>1. Slice(p, i) = [p EXCEPT !.n = SliceSize(p, i)]
      BY <1>10 DEF Slice
    <2>2. Before(p, i) = 0
      BY <1>10 DEF Before
    <2> QED
      BY <2>1, <2>2, <1>2, <1>7, <1>8, <1>9 DEF Piece
  <1>11. CASE ~ (s >= lo)
    <2>1. Before(p, i) = lo - s
      BY <1>11 DEF Before
    <2>2. CASE InL1(p.src)
      <3>1. Slice(p, i) = [src |-> p.src - (p.src % FullWidth) + lo, dst |-> p.dst + lo - s,
                           n |-> SliceSize(p, i)]
        BY <1>11, <2>2 DEF Slice
      <3>2. p.src % FullWidth = s
        BY <1>3, <2>2 DEF L1Addr
      <3>3. p.src - s + lo = p.src + (lo - s) /\ p.dst + lo - s = p.dst + (lo - s)
        <4> HIDE DEF lo, s
        <4> QED
          BY <1>1, <1>3, <1>9
      <3> QED
        BY <3>1, <3>2, <3>3, <2>1, <1>7, <1>8
    <2>3. CASE ~ InL1(p.src)
      <3>1. Slice(p, i) = [src |-> p.src + lo - s, dst |-> p.dst - (p.dst % FullWidth) + lo,
                           n |-> SliceSize(p, i)]
        BY <1>11, <2>3 DEF Slice
      <3>2. p.dst % FullWidth = s
        BY <1>3, <2>3 DEF L1Addr
      <3>3. p.dst - s + lo = p.dst + (lo - s) /\ p.src + lo - s = p.src + (lo - s)
        <4> HIDE DEF lo, s
        <4> QED
          BY <1>1, <1>3, <1>9
      <3> QED
        BY <3>1, <3>2, <3>3, <2>1, <1>7, <1>8
    <2> QED
      BY <2>2, <2>3
  <1> QED
    BY <1>8, <1>10, <1>11

(* A slice is a proper piece within its own.                               *)
LEMMA SliceProper ==
  ASSUME NEW p, InRow(p), NEW i \in Ports, Involved(p, i)
  PROVE  /\ Proper(Slice(p, i)) /\ Slice(p, i) \in Piece
         /\ Slice(p, i).src = p.src + Before(p, i) /\ Slice(p, i).dst = p.dst + Before(p, i)
         /\ Slice(p, i).n = Upto(p, i) - Start(p) - Before(p, i)
         /\ L1Addr(Slice(p, i)) = L1Addr(p) + Before(p, i)
         /\ L1Addr(p) <= L1Addr(Slice(p, i)) /\ L1End(Slice(p, i)) <= L1End(p)
  <1> DEFINE s == Slice(p, i)
             b == Before(p, i)
             m == Upto(p, i) - Start(p) - Before(p, i)
  <1>1. s = [src |-> p.src + b, dst |-> p.dst + b, n |-> m]
    BY SliceIs
  <1>2. b \in Nat /\ m \in Nat \ {0} /\ b + m <= p.n
    <2>1. Start(p) \in Nat /\ Upto(p, i) \in Int
      <3>1. L1Addr(p) \in Nat /\ p.n \in Nat
        BY L1AddrType DEF InRow
      <3>2. Start(p) \in Nat
        BY <3>1, Division, Sizes DEF Start
      <3>3. (i + 1) * Width \in Nat
        BY Regions, Sizes
      <3> QED
        BY <3>1, <3>2, <3>3 DEF Upto, End
    <2> QED
      BY <2>1, SliceIs
  <1> HIDE DEF m, b
  <1>3. p.src \in Nat /\ p.dst \in Nat /\ p.n \in Nat /\ L1Addr(p) \in Nat /\ Proper(p)
    BY L1AddrType DEF InRow
  <1>4. b \in 0 .. p.n - 1
    BY <1>2, <1>3
  <1>5. (InL1(p.src + b) <=> InL1(p.src)) /\ (InL1(p.dst + b) <=> InL1(p.dst))
    BY <1>3, <1>4, Sides
  <1>6. s \in Piece /\ s.src = p.src + b /\ s.dst = p.dst + b /\ s.n = m
    BY <1>1, <1>2, <1>3 DEF Piece
  <1>7. L1Addr(s) = L1Addr(p) + b
    BY <1>5, <1>6 DEF L1Addr
  <1>8. L1End(s) <= L1End(p)
    BY <1>2, <1>3, <1>6, <1>7 DEF L1End
  <1>9. L1End(s) <= L1Size
    BY <1>2, <1>3, <1>6, <1>7, <1>8, Sizes DEF L1End, Proper
  <1> QED
    BY <1>2, <1>3, <1>5, <1>6, <1>7, <1>8, <1>9 DEF Proper, m, b

(* The units of a slice are those whose home is the port: no unit is in    *)
(* two slices.                                                             *)
LEMMA SliceUnits ==
  ASSUME NEW p, InRow(p), NEW i \in Ports, Involved(p, i), NEW u
  PROVE  u \in Units(Slice(p, i)) <=> u \in Units(p) /\ Home(L1Side(u)) = i
  <1> DEFINE s == Slice(p, i)
             b == Before(p, i)
             m == Upto(p, i) - Start(p) - Before(p, i)
             lo == i * Width
             hi == (i + 1) * Width
             st == Start(p)
  <1>1. Proper(s) /\ s.src = p.src + b /\ s.dst = p.dst + b /\ s.n = m
    BY SliceProper
  <1>2. b \in Nat /\ m \in Nat \ {0} /\ Upto(p, i) - st <= p.n
    BY SliceIs
  <1>3. p.src \in Nat /\ p.dst \in Nat /\ p.n \in Nat \ {0} /\ L1Addr(p) \in Nat /\ Proper(p)
    BY L1AddrType DEF InRow
  <1>4. st \in Nat /\ lo \in Nat /\ hi = lo + Width /\ Width \in Nat \ {0}
    <2>1. Start(p) \in Nat
      BY <1>3, Division, Sizes DEF Start
    <2> QED
      BY <2>1, Sizes, Regions
  <1>5. /\ Upto(p, i) = (IF st + p.n <= hi THEN st + p.n ELSE hi)
        /\ b = (IF st >= lo THEN 0 ELSE lo - st)
    BY DEF Upto, Before, End
  <1>6. ASSUME NEW x \in 0 .. p.n - 1
        PROVE  x \in b .. b + m - 1 <=> lo <= st + x /\ st + x < hi
    <2> DEFINE up == Upto(p, i)
    <2>1. m = up - st - b /\ up = (IF st + p.n <= hi THEN st + p.n ELSE hi)
      BY <1>5
    <2> HIDE DEF m, b, lo, hi, st, up
    <2>2. up \in Int /\ b + m = up - st
      BY <1>2, <1>3, <1>4, <2>1
    <2> QED
      BY <1>2, <1>3, <1>4, <1>5, <2>1, <2>2
  <1>7. ASSUME NEW x \in 0 .. p.n - 1, u = <<p.src + x, p.dst + x>>
        PROVE  Home(L1Side(u)) = i <=> x \in b .. b + m - 1
    <2>1. u \in Units(p) /\ L1Side(u) = L1Addr(p) + x
      BY <1>3, <1>7, Sides
    <2>2. L1Side(u) % FullWidth = st + x
      BY <2>1, <1>3, RowOffset
    <2>3. st + x \in Nat
      BY <1>3, <1>4
    <2>4. (st + x) \div Width = i <=> lo <= st + x /\ st + x < hi
      BY <2>3, InRegion
    <2> QED
      BY <2>2, <2>4, <1>6 DEF Home
  <1>8. ASSUME u \in Units(s)
        PROVE  u \in Units(p) /\ Home(L1Side(u)) = i
    <2>1. PICK y \in 0 .. s.n - 1 : u = <<s.src + y, s.dst + y>>
      BY <1>8 DEF Units
    <2> HIDE DEF m, b, s
    <2>2. y \in Nat /\ y < m
      BY <1>1, <1>2
    <2>3. u = <<p.src + (b + y), p.dst + (b + y)>>
      BY <1>1, <1>2, <1>3, <2>1, <2>2
    <2>4. b + m <= p.n
      <3>1. m = Upto(p, i) - st - b
        BY DEF m, b
      <3>2. Upto(p, i) \in Int
        BY <1>3, <1>4, <1>5
      <3> HIDE DEF st, lo, hi
      <3> QED
        BY <1>2, <1>3, <1>4, <3>1, <3>2
    <2>5. b + y \in 0 .. p.n - 1 /\ b + y \in b .. b + m - 1
      BY <1>2, <1>3, <2>2, <2>4
    <2>6. u \in Units(p)
      BY <2>3, <2>5 DEF Units
    <2> QED
      BY <2>3, <2>5, <2>6, <1>7
  <1>9. ASSUME u \in Units(p), Home(L1Side(u)) = i
        PROVE  u \in Units(s)
    <2>1. PICK x \in 0 .. p.n - 1 : u = <<p.src + x, p.dst + x>>
      BY <1>9 DEF Units
    <2>2. x \in b .. b + m - 1
      BY <2>1, <1>7, <1>9
    <2> HIDE DEF m, b, s
    <2>3. x - b \in 0 .. s.n - 1
      BY <2>2, <1>1, <1>2
    <2>4. u = <<s.src + (x - b), s.dst + (x - b)>>
      BY <2>1, <2>2, <1>1, <1>2, <1>3
    <2> QED
      BY <2>3, <2>4 DEF Units
  <1> QED
    BY <1>8, <1>9

(* A port that is not involved is the home of no unit of the piece: no     *)
(* unit is in no slice.                                                    *)
LEMMA HomeInvolved ==
  ASSUME NEW p, InRow(p), NEW u \in Units(p)
  PROVE  Involved(p, Home(L1Side(u)))
  <1> DEFINE i == Home(L1Side(u))
             x == L1Side(u) - L1Addr(p)
  <1>1. p.n \in Nat \ {0} /\ L1Addr(p) \in Nat /\ Proper(p)
    BY L1AddrType DEF InRow
  <1>2. x \in Nat /\ x < p.n
    BY <1>1, UnitSide DEF L1End
  <1>3. Start(p) \in Nat
    BY <1>1, Division, Sizes DEF Start
  <1>4. i \in Ports /\ L1Side(u) % FullWidth = Start(p) + x
    BY RowOffset
  <1>5. (Start(p) + x) \div Width = i
    BY <1>4 DEF Home
  <1> HIDE DEF i, x
  <1>6. i * Width <= Start(p) + x /\ Start(p) + x < (i + 1) * Width
    BY <1>2, <1>3, <1>4, <1>5, InRegion
  <1>7. i * Width \in Nat /\ (i + 1) * Width \in Nat
    BY <1>4, Regions, Sizes
  <1>8. Involved(p, i)
    BY <1>1, <1>2, <1>3, <1>6, <1>7 DEF Involved, End
  <1> QED
    BY <1>8 DEF i

(* The first m units of a piece.                                           *)
LEMMA FrontFacts ==
  ASSUME NEW t, Proper(t), NEW m \in Nat \ {0}, m <= t.n
  PROVE  LET p == [t EXCEPT !.n = m]
         IN  /\ Proper(p) /\ p.n = m /\ L1Addr(p) = L1Addr(t) /\ L1End(p) = L1Addr(t) + m
             /\ \A u : u \in Units(p) <=> u \in Units(t) /\ L1Side(u) < L1Addr(t) + m
  <1> DEFINE p == [t EXCEPT !.n = m]
  <1>1. t.src \in Nat /\ t.dst \in Nat /\ t.n \in Nat /\ L1Addr(t) \in Nat /\ t \in Piece
    BY L1AddrType DEF Proper
  <1>2. p \in Piece /\ p.src = t.src /\ p.dst = t.dst /\ p.n = m
    BY <1>1 DEF Piece
  <1> HIDE DEF p
  <1>3. L1Addr(p) = L1Addr(t) /\ L1End(p) = L1Addr(t) + m
    BY <1>2 DEF L1Addr, L1End
  <1>4. Proper(p)
    BY <1>1, <1>2, <1>3, Sizes DEF Proper, L1End
  <1>5. ASSUME NEW u \in Units(p)
        PROVE  u \in Units(t) /\ L1Side(u) < L1Addr(t) + m
    <2>1. PICK x \in 0 .. p.n - 1 : u = <<p.src + x, p.dst + x>>
      BY DEF Units
    <2>2. x \in 0 .. t.n - 1 /\ u = <<t.src + x, t.dst + x>>
      BY <2>1, <1>1, <1>2
    <2> QED
      BY <2>2, <1>3, <1>4, UnitSide DEF Units
  <1>6. ASSUME NEW u \in Units(t), L1Side(u) < L1Addr(t) + m
        PROVE  u \in Units(p)
    <2> DEFINE x == L1Side(u) - L1Addr(t)
    <2>1. x \in Nat /\ x < m /\ u = <<t.src + x, t.dst + x>>
      BY <1>1, <1>6, UnitSide
    <2>2. x \in 0 .. p.n - 1 /\ u = <<p.src + x, p.dst + x>>
      BY <2>1, <1>2
    <2> HIDE DEF x
    <2> QED
      BY <2>2 DEF Units
  <1> QED
    BY <1>2, <1>3, <1>4, <1>5, <1>6 DEF p

(* What is left of a piece after its first m units.                        *)
LEMMA AdvanceFacts ==
  ASSUME NEW t, Proper(t), NEW m \in Nat, m < t.n
  PROVE  LET p == Advance(t, m)
         IN  /\ Proper(p) /\ p \in Piece /\ L1Addr(p) = L1Addr(t) + m
             /\ \A u : u \in Units(p) <=> u \in Units(t) /\ L1Side(u) >= L1Addr(t) + m
  <1> DEFINE p == Advance(t, m)
  <1>1. t.src \in Nat /\ t.dst \in Nat /\ t.n \in Nat /\ L1Addr(t) \in Nat /\ t \in Piece
    BY L1AddrType DEF Proper
  <1>2. p \in Piece /\ p.src = t.src + m /\ p.dst = t.dst + m /\ p.n = t.n - m
    BY <1>1 DEF Piece, Advance
  <1> HIDE DEF p
  <1>3. m \in 0 .. t.n - 1
    BY <1>1
  <1>4. (InL1(p.src) <=> InL1(t.src)) /\ (InL1(p.dst) <=> InL1(t.dst))
    BY <1>2, <1>3, Sides
  <1>5. L1Addr(p) = L1Addr(t) + m /\ L1End(p) = L1End(t)
    <2>1. L1Addr(p) = L1Addr(t) + m
      BY <1>2, <1>4 DEF L1Addr
    <2> QED
      BY <2>1, <1>1, <1>2 DEF L1End
  <1>6. Proper(p)
    BY <1>2, <1>4, <1>5 DEF Proper
  <1>7. ASSUME NEW u \in Units(p)
        PROVE  u \in Units(t) /\ L1Side(u) >= L1Addr(t) + m
    <2>1. PICK x \in 0 .. p.n - 1 : u = <<p.src + x, p.dst + x>>
      BY DEF Units
    <2>2. m + x \in 0 .. t.n - 1 /\ u = <<t.src + (m + x), t.dst + (m + x)>>
      BY <2>1, <1>1, <1>2
    <2>3. L1Side(u) >= L1Addr(p)
      BY <1>6, UnitSide, L1AddrType
    <2> QED
      BY <2>2, <2>3, <1>5 DEF Units
  <1>8. ASSUME NEW u \in Units(t), L1Side(u) >= L1Addr(t) + m
        PROVE  u \in Units(p)
    <2> DEFINE x == L1Side(u) - L1Addr(t)
    <2>1. /\ L1Side(u) \in Nat /\ L1Side(u) < L1Addr(t) + t.n
          /\ u = <<t.src + x, t.dst + x>>
      BY UnitSide DEF L1End
    <2>2. x - m \in 0 .. p.n - 1 /\ x \in Nat
      BY <2>1, <1>1, <1>2, <1>8
    <2> HIDE DEF x
    <2>3. u = <<p.src + (x - m), p.dst + (x - m)>>
      BY <2>1, <2>2, <1>1, <1>2
    <2> QED
      BY <2>2, <2>3 DEF Units
  <1> QED
    BY <1>2, <1>5, <1>6, <1>7, <1>8 DEF p

(* Pieces one after the other have no unit in common.                      *)
LEMMA ApartUnits ==
  ASSUME NEW t, NEW r, Proper(t), Proper(r), L1End(t) <= L1Addr(r),
         NEW u \in Units(t), u \in Units(r)
  PROVE  FALSE
  BY UnitSide, L1AddrType

-------------------------------------------------------------------------------
(* Queues.                                                                 *)

(* What \o returns.                                                        *)
LEMMA Concatenation ==
  ASSUME NEW S, NEW a \in Seq(S), NEW b \in Seq(S)
  PROVE  /\ a \o b \in Seq(S) /\ Len(a \o b) = Len(a) + Len(b)
         /\ \A k \in 1 .. Len(a) : (a \o b)[k] = a[k]
         /\ \A k \in 1 .. Len(b) : (a \o b)[Len(a) + k] = b[k]
  OBVIOUS

(* The queue of a port after a cycle: its head is gone if h is 1, and x    *)
(* was added if g is 1.                                                    *)
Queue(q, h, g, x) == (IF h = 1 THEN Tail(q) ELSE q) \o (IF g = 1 THEN <<x>> ELSE <<>>)

-------------------------------------------------------------------------------
(* A cycle.                                                                *)

(* Port i takes its slice of the piece presented, and the head of its      *)
(* queue is finished: 1 or 0.                                              *)
Took(i) == i \in fork_taken /\ Involved(burst_req[1], i)
Taking(i) == IF Took(i) THEN 1 ELSE 0
Popping(finished, i) == IF i \in finished THEN 1 ELSE 0

(* The assignments of a cycle.  Every piece has a unit, so that every      *)
(* piece that is finished completes.                                       *)
LEMMA CycleFacts ==
  ASSUME Typed, NEW launch, NEW finished \in SUBSET Finishing, Cycle(launch, finished)
  PROVE  /\ num_trans_q' = num_trans_q + (IF accepted_i THEN 1 ELSE 0)
                                       - (IF dist_trans_complete THEN 1 ELSE 0)
         /\ dma_meta' = (num_trans_q = 1 /\ num_trans_q' = 0)
         /\ forked' = IF accepted_i THEN {} ELSE forked \cup fork_taken
         /\ tie_off' = (tie_off \cap finished)
                         \cup {i \in fork_valid : ~ Involved(burst_req[1], i)}
         /\ fifo' = fifo_d(finished)
         /\ port' = [i \in Ports |->
                       Queue(port[i], Popping(finished, i), Taking(i), Slice(burst_req[1], i))]
         /\ owed' = (owed \ UNION {Units(port[i][1]) : i \in finished})
                      \cup UNION {Units(t) : t \in launch}
         /\ req_q' = split(accepted_i)
         /\ spill' = spill_d(launch, IF split_ready(accepted_i) THEN Tail(spill) ELSE spill)
         /\ done_q' = trans_complete_d(launch)
         /\ finished \subseteq Ports /\ \A i \in finished : port[i] # <<>>
  <1>1. finished \subseteq Ports /\ \A i \in finished : port[i] # <<>>
    BY DEF Finishing
  <1>2. {i \in finished : port[i][1].n > 0} = finished
    <2>1. ASSUME NEW i \in finished PROVE port[i][1].n > 0
      <3>1. port[i] \in Seq(Piece) /\ port[i] # <<>>
        BY <1>1 DEF Typed
      <3>2. port[i][1] \in Piece
        BY <3>1
      <3> QED
        BY <3>2 DEF Piece
    <2> QED
      BY <2>1
  <1>3. port' = [i \in Ports |->
                   Queue(port[i], Popping(finished, i), Taking(i), Slice(burst_req[1], i))]
    <2>1. port' = [i \in Ports |->
                     (IF i \in finished THEN Tail(port[i]) ELSE port[i])
                       \o (IF Took(i) THEN <<Slice(burst_req[1], i)>> ELSE <<>>)]
      BY DEF Cycle, Took
    <2>2. \A i \in Ports :
            (IF i \in finished THEN Tail(port[i]) ELSE port[i])
                \o (IF Took(i) THEN <<Slice(burst_req[1], i)>> ELSE <<>>)
              = Queue(port[i], Popping(finished, i), Taking(i), Slice(burst_req[1], i))
      <3> TAKE i \in Ports
      <3>1. (Popping(finished, i) = 1 <=> i \in finished) /\ (Taking(i) = 1 <=> Took(i))
        BY DEF Taking, Popping
      <3> QED
        BY <3>1 DEF Queue
    <2> QED
      BY <2>1, <2>2, Zenon
  <1> QED
    BY <1>1, <1>2, <1>3 DEF Cycle, split_trans_complete, tie_off_d

(* What a port takes or is offered.                                        *)
LEMMA ForkFacts ==
  ASSUME Typed
  PROVE  /\ fork_valid \subseteq Ports \ forked /\ fork_taken \subseteq fork_valid
         /\ \A i \in fork_valid : ~ Involved(burst_req[1], i) => i \in fork_taken
         /\ accepted_i => forked \cup fork_taken = Ports
         /\ accepted_i \in BOOLEAN
         /\ \A i \in fork_taken : Involved(burst_req[1], i) => Len(port[i]) < PortDepth
  BY DEF fork_valid, fork_taken, accepted_i

(* The queue of port i after a cycle.                                      *)
LEMMA PortAfter ==
  ASSUME Typed, NEW launch, NEW finished \in SUBSET Finishing, Cycle(launch, finished),
         NEW i \in Ports, Took(i) => Slice(burst_req[1], i) \in Piece
  PROVE  LET h == Popping(finished, i)
             len == Len(port[i]) - h
         IN  /\ port'[i] \in Seq(Piece) /\ len \in Nat
             /\ Len(port'[i]) = len + Taking(i)
             /\ \A k \in 1 .. len : k + h \in DOMAIN port[i] /\ port'[i][k] = port[i][k + h]
             /\ Took(i) => port'[i][len + 1] = Slice(burst_req[1], i)
  <1> DEFINE h == Popping(finished, i)
             g == Taking(i)
             x == Slice(burst_req[1], i)
             q == port[i]
  <1>1. port'[i] = Queue(q, h, g, x)
    BY CycleFacts
  <1>2. q \in Seq(Piece) /\ (h = 1 => q # <<>>) /\ h \in 0 .. 1
    BY CycleFacts, SMTT(30) DEF Typed, Popping
  <1>3. g \in 0 .. 1 /\ (g = 1 <=> Took(i)) /\ (g = 1 => x \in Piece)
    BY DEF Taking
  <1> DEFINE b == IF h = 1 THEN Tail(q) ELSE q
             t == IF g = 1 THEN <<x>> ELSE <<>>
             len == Len(q) - h
  <1> HIDE DEF h, g, x, q
  <1>4. b \in Seq(Piece) /\ Len(b) = len /\ len \in Nat
    BY <1>2 DEF b
  <1>5. \A k \in 1 .. len : k + h \in DOMAIN q /\ b[k] = q[k + h]
    <2>1. CASE h = 1
      BY <2>1, <1>2
    <2>2. CASE h = 0
      BY <2>2, <1>2
    <2> QED
      BY <2>1, <2>2, <1>2
  <1>6. t \in Seq(Piece) /\ Len(t) = g /\ (g = 1 => t[1] = x)
    BY <1>3
  <1>7. port'[i] = b \o t
    BY <1>1 DEF Queue, b, t
  <1> HIDE DEF b, t, len
  <1>8. b \o t \in Seq(Piece) /\ Len(b \o t) = len + g
    BY <1>4, <1>6, Concatenation
  <1>9. \A k \in 1 .. len : (b \o t)[k] = b[k]
    BY <1>4, <1>6, Concatenation
  <1>10. g = 1 => (b \o t)[len + 1] = t[1]
    <2>1. \A k \in 1 .. Len(t) : (b \o t)[Len(b) + k] = t[k]
      BY <1>4, <1>6, Concatenation
    <2>2. g = 1 => 1 \in 1 .. Len(t)
      BY <1>6
    <2>3. 1 \in 1 .. Len(t) => (b \o t)[Len(b) + 1] = t[1]
      BY <2>1, Zenon
    <2> QED
      BY <2>2, <2>3, <1>4
  <1>11. /\ port'[i] \in Seq(Piece) /\ len \in Nat /\ Len(port'[i]) = len + g
         /\ \A k \in 1 .. len : k + h \in DOMAIN q /\ port'[i][k] = q[k + h]
         /\ Took(i) => port'[i][len + 1] = x
    BY <1>3, <1>4, <1>5, <1>6, <1>7, <1>8, <1>9, <1>10
  <1> QED
    BY <1>11 DEF h, g, x, q, len

(* Completions are counted right in every cycle.                           *)
LEMMA CycleCounted ==
  ASSUME Typed, Counted, NEW launch, NEW finished \in SUBSET Finishing, Cycle(launch, finished),
         \A i \in Ports : Took(i) => Slice(burst_req[1], i) \in Piece
  PROVE  /\ Counted'
         /\ fifo' \in [Ports -> 0 .. TransFifoDepth]
         /\ port' \in [Ports -> Seq(Piece)]
         /\ forked' \in SUBSET Ports /\ tie_off' \in SUBSET Ports
         /\ num_trans_q' \in Int
  <1>1. forked' \in SUBSET Ports /\ tie_off' \in SUBSET Ports
    <2>1. fork_taken \subseteq Ports /\ fork_valid \subseteq Ports
      BY ForkFacts
    <2> QED
      BY <2>1, CycleFacts DEF Typed
  <1>2. port' \in [Ports -> Seq(Piece)]
    <2>1. \A i \in Ports : port'[i] \in Seq(Piece)
      BY PortAfter
    <2> QED
      BY <2>1, CycleFacts
  <1>3. num_trans_q' \in Int
    BY CycleFacts DEF Typed
  <1>4. ASSUME NEW i \in Ports
        PROVE  /\ fifo'[i] \in 0 .. TransFifoDepth
               /\ Len(port'[i]) + (IF i \in tie_off' THEN 1 ELSE 0) + fifo'[i]
                    <= num_trans_q' + (IF i \in forked' THEN 1 ELSE 0)
    <2> DEFINE fin == IF i \in finished THEN 1 ELSE 0
               dist == IF dist_trans_complete THEN 1 ELSE 0
               acc == IF accepted_i THEN 1 ELSE 0
               tie == IF i \in tie_off THEN 1 ELSE 0
               tie2 == IF i \in tie_off' THEN 1 ELSE 0
               frk == IF i \in forked THEN 1 ELSE 0
               frk2 == IF i \in forked' THEN 1 ELSE 0
               took == IF Took(i) THEN 1 ELSE 0
               none == IF i \in fork_valid /\ ~ Involved(burst_req[1], i) THEN 1 ELSE 0
               push == IF i \in finished \cup tie_off /\ fifo[i] < TransFifoDepth THEN 1 ELSE 0
    <2>1. /\ fin \in 0 .. 1 /\ dist \in 0 .. 1 /\ acc \in 0 .. 1 /\ tie \in 0 .. 1 /\ frk \in 0 .. 1
          /\ took \in 0 .. 1 /\ none \in 0 .. 1 /\ push \in 0 .. 1 /\ tie2 \in 0 .. 1 /\ frk2 \in 0 .. 1
      OBVIOUS
    <2>2. fifo[i] \in 0 .. TransFifoDepth /\ Len(port[i]) \in Nat /\ num_trans_q \in Nat
      BY DEF Typed
    <2>3. fifo'[i] = fifo[i] - dist + push
      BY CycleFacts DEF fifo_d
    <2>4. dist = 1 => fifo[i] > 0
      BY DEF dist_trans_complete
    <2>5. push = 1 => fifo[i] < TransFifoDepth
      OBVIOUS
    <2>6. fin = 0 /\ tie = 0 => push = 0
      OBVIOUS
    <2>7. tie2 <= none + (IF tie = 1 /\ fin = 1 THEN 1 ELSE 0)
      <3>1. i \in tie_off' <=> (i \in tie_off /\ i \in finished)
                                 \/ (i \in fork_valid /\ ~ Involved(burst_req[1], i))
        BY CycleFacts
      <3> QED
        BY <3>1
    <2>8. Len(port'[i]) = Len(port[i]) - fin + took
      BY PortAfter DEF Popping, Taking
    <2>9. num_trans_q' = num_trans_q + acc - dist
      BY CycleFacts
    <2>10. took + none = 1 \/ (took = 0 /\ none = 0)
      BY ForkFacts DEF Took
    <2>11. frk + took + none <= acc + frk2
      <3>1. took + none = 1 => i \in fork_taken /\ i \notin forked
        BY ForkFacts DEF Took
      <3>2. accepted_i => i \in forked \/ i \in fork_taken
        BY ForkFacts
      <3>3. ~ accepted_i => (i \in forked' <=> i \in forked \/ i \in fork_taken)
        BY CycleFacts
      <3>4. CASE accepted_i
        BY <3>1, <3>4, <2>10
      <3>5. CASE ~ accepted_i
        BY <3>1, <3>3, <3>5, <2>10
      <3> QED
        BY <3>4, <3>5
    <2>12. Len(port[i]) + tie + fifo[i] <= num_trans_q + frk
      BY DEF Counted
    <2> HIDE DEF fin, dist, acc, tie, tie2, frk, frk2, took, none, push
    <2>13. fifo'[i] \in 0 .. TransFifoDepth
      BY <2>1, <2>2, <2>3, <2>4, <2>5, Sizes
    <2>14. tie2 + push - fin <= tie + none
      BY <2>1, <2>6, <2>7
    <2>15. Len(port'[i]) + tie2 + fifo'[i] <= num_trans_q' + frk2
      BY <2>1, <2>2, <2>3, <2>8, <2>9, <2>11, <2>12, <2>14
    <2> QED
      BY <2>13, <2>15 DEF tie2, frk2
  <1>5. fifo' \in [Ports -> 0 .. TransFifoDepth]
    <2>1. fifo' = [i \in Ports |-> fifo'[i]]
      BY CycleFacts DEF fifo_d
    <2> QED
      BY <2>1, <1>4
  <1> QED
    BY <1>1, <1>2, <1>3, <1>4, <1>5 DEF Counted

-------------------------------------------------------------------------------
(* A copy under way.                                                       *)

(* Some port exists.                                                       *)
LEMMA PortZero == 0 \in Ports /\ Ports # {}
  BY Sizes DEF Ports

(* The piece presented while a copy is split: a row, or what is left.      *)
LEMMA RestFacts ==
  ASSUME Working, req_q # <<>>
  PROVE  LET r == req_q[1]
             p == burst_req[1]
         IN  /\ req_q = <<r>> /\ Proper(r) /\ L1Addr(r) \in Nat /\ r.n \in Nat \ {0}
             /\ L1Addr(r) % FullWidth = 0 /\ forked # Ports
             /\ burst_req # <<>> /\ InRow(p) /\ L1Addr(p) = L1Addr(r)
             /\ L1End(p) <= L1Addr(r) + FullWidth
             /\ \A u : u \in Units(p) <=> u \in Units(r) /\ L1Side(u) < L1Addr(r) + FullWidth
  <1> DEFINE r == req_q[1]
             m == IF r.n <= FullWidth THEN r.n ELSE FullWidth
             p == [r EXCEPT !.n = m]
  <1>1. req_q = <<r>> /\ Proper(r) /\ L1Addr(r) % FullWidth = 0 /\ forked # Ports
    BY DEF Working, RestAligned
  <1>2. r \in Piece /\ r.n \in Nat \ {0} /\ L1Addr(r) \in Nat
    BY <1>1, L1AddrType DEF Proper
  <1>3. burst_req = <<p>>
    BY <1>2 DEF burst_req, Piece
  <1>4. m \in Nat \ {0} /\ m <= r.n /\ m <= FullWidth /\ (m < FullWidth => m = r.n)
    BY <1>2, Sizes
  <1> HIDE DEF m
  <1>5. /\ Proper(p) /\ p.n = m /\ L1Addr(p) = L1Addr(r) /\ L1End(p) = L1Addr(r) + m
        /\ \A u : u \in Units(p) <=> u \in Units(r) /\ L1Side(u) < L1Addr(r) + m
    BY <1>1, <1>4, FrontFacts
  <1> HIDE DEF p
  <1>6. Start(p) = 0
    BY <1>1, <1>5 DEF Start
  <1>7. InRow(p)
    BY <1>4, <1>5, <1>6, Sizes DEF InRow
  <1>8. ASSUME NEW u
        PROVE  u \in Units(p) <=> u \in Units(r) /\ L1Side(u) < L1Addr(r) + FullWidth
    <2>1. u \in Units(r) => L1Side(u) \in Nat /\ L1Side(u) < L1Addr(r) + r.n
      BY <1>1, UnitSide DEF L1End
    <2> QED
      BY <2>1, <1>2, <1>4, <1>5, Sizes
  <1>9. burst_req[1] = p /\ burst_req # <<>>
    BY <1>3
  <1> QED
    BY <1>1, <1>2, <1>4, <1>5, <1>7, <1>8, <1>9, Sizes

(* Nothing is presented when the whole copy has been handed out.           *)
LEMMA NothingPresented ==
  ASSUME spill = <<>>, req_q = <<>>
  PROVE  /\ burst_req = <<>> /\ fork_valid = {} /\ fork_taken = {} /\ ~ accepted_i
         /\ split(accepted_i) = <<>> /\ ~ split_ready(accepted_i)
         /\ \A i : ~ Took(i)
  BY DEF burst_req, fork_valid, fork_taken, accepted_i, split, split_ready, Took

(* The slices that the ports take are pieces.                              *)
LEMMA TakenSlices ==
  ASSUME Typed, Working, NEW i \in Ports, Took(i)
  PROVE  /\ req_q # <<>> /\ i \notin forked /\ Involved(burst_req[1], i)
         /\ Proper(Slice(burst_req[1], i)) /\ Slice(burst_req[1], i) \in Piece
         /\ L1Addr(req_q[1]) <= L1Addr(Slice(burst_req[1], i))
         /\ L1End(Slice(burst_req[1], i)) <= L1Addr(req_q[1]) + FullWidth
         /\ \A u : u \in Units(Slice(burst_req[1], i))
                     <=> u \in Units(burst_req[1]) /\ Home(L1Side(u)) = i
  <1>1. req_q # <<>>
    BY NothingPresented DEF Working
  <1>2. i \notin forked /\ Involved(burst_req[1], i)
    BY ForkFacts DEF Took
  <1>3. /\ InRow(burst_req[1]) /\ L1Addr(burst_req[1]) = L1Addr(req_q[1])
        /\ L1End(burst_req[1]) <= L1Addr(req_q[1]) + FullWidth /\ L1Addr(req_q[1]) \in Nat
    BY <1>1, RestFacts
  <1>4. /\ Proper(Slice(burst_req[1], i)) /\ Slice(burst_req[1], i) \in Piece
        /\ L1Addr(burst_req[1]) <= L1Addr(Slice(burst_req[1], i))
        /\ L1End(Slice(burst_req[1], i)) <= L1End(burst_req[1])
    BY <1>2, <1>3, SliceProper
  <1>5. L1End(Slice(burst_req[1], i)) \in Nat /\ L1End(burst_req[1]) \in Nat
    BY <1>3, <1>4, L1AddrType DEF InRow
  <1>6. \A u : u \in Units(Slice(burst_req[1], i))
                  <=> u \in Units(burst_req[1]) /\ Home(L1Side(u)) = i
    BY <1>2, <1>3, SliceUnits
  <1> QED
    BY <1>1, <1>2, <1>3, <1>4, <1>5, <1>6, Sizes

(* A copy that is not handed out has a piece under way: the count of       *)
(* idma_split_midend does not reach 0 between two pieces.                  *)
LEMMA NotYetDone ==
  ASSUME OneCopy, Typed, Working, req_q # <<>>, ~ accepted_i, dist_trans_complete
  PROVE  num_trans_q >= 2
  <1>1. forked # Ports /\ burst_req # <<>>
    BY RestFacts
  <1>2. \A i \in Ports : fifo[i] \in Nat /\ fifo[i] > 0 /\ Len(port[i]) \in Nat
    BY Sizes DEF Typed, dist_trans_complete
  <1>3. \A i \in Ports : Len(port[i]) + fifo[i] <= num_trans_q + (IF i \in forked THEN 1 ELSE 0)
    <2> TAKE i \in Ports
    <2>1. Len(port[i]) + (IF i \in tie_off THEN 1 ELSE 0) + fifo[i]
            <= num_trans_q + (IF i \in forked THEN 1 ELSE 0)
      BY DEF Working, Counted
    <2> QED
      BY <2>1, <1>2 DEF Typed
  <1>4. CASE fifo_ready
    <2>1. fork_valid = Ports \ forked
      BY <1>1, <1>4 DEF fork_valid
    <2>2. PICK i \in Ports \ forked : i \notin fork_taken
      <3>1. forked \subseteq Ports /\ fork_taken \subseteq Ports \ forked
        BY ForkFacts DEF Typed
      <3>2. fork_valid # {}
        BY <1>1, <2>1, <3>1
      <3>3. forked \cup fork_taken # Ports
        BY <3>2 DEF accepted_i
      <3> QED
        BY <3>1, <3>3
    <2>3. ~ (Len(port[i]) < PortDepth)
      BY <2>1, <2>2 DEF fork_taken
    <2> QED
      BY <2>2, <2>3, <1>2, <1>3, Sizes DEF Typed
  <1>5. CASE ~ fifo_ready
    <2>1. PICK i \in Ports : ~ (fifo[i] < TransFifoDepth)
      BY <1>5 DEF fifo_ready
    <2> QED
      BY <2>1, <1>2, <1>3, Sizes DEF Typed, OneCopy
  <1> QED
    BY <1>4, <1>5

(* The step of what is left: a row is taken from it, or it stays.          *)
LEMMA RestStep ==
  ASSUME Typed, Working, NEW finished \in SUBSET Finishing, Cycle({}, finished)
  PROVE  /\ RestAligned'
         /\ spill' = <<>>
         /\ req_q = <<>> => req_q' = <<>>
         /\ req_q' # <<>> /\ ~ accepted_i => req_q' = req_q /\ forked' = forked \cup fork_taken
         /\ req_q' # <<>> /\ accepted_i =>
              /\ forked' = {} /\ L1Addr(req_q'[1]) = L1Addr(req_q[1]) + FullWidth
              /\ \A u : u \in Units(req_q'[1])
                          <=> u \in Units(req_q[1]) /\ L1Side(u) >= L1Addr(req_q[1]) + FullWidth
         /\ req_q # <<>> /\ req_q' = <<>> =>
              accepted_i /\ \A u \in Units(req_q[1]) : u \in Units(burst_req[1])
  <1> DEFINE r == req_q[1]
  <1>1. spill = <<>> /\ ~ split_ready(accepted_i)
    BY DEF Working, split_ready
  <1>2. spill' = <<>>
    BY <1>1, CycleFacts DEF spill_d
  <1>3. req_q' = split(accepted_i) /\ forked' = IF accepted_i THEN {} ELSE forked \cup fork_taken
    BY CycleFacts
  <1>4. CASE req_q = <<>>
    <2>1. req_q' = <<>>
      BY <1>1, <1>3, <1>4, NothingPresented
    <2>2. forked' = {}
      BY <1>1, <1>3, <1>4, NothingPresented DEF Working, RestAligned
    <2> QED
      BY <2>1, <2>2, <1>2, <1>4 DEF RestAligned
  <1>5. CASE req_q # <<>> /\ ~ accepted_i
    <2>1. req_q' = req_q
      BY <1>3, <1>5 DEF split
    <2>2. forked' = forked \cup fork_taken
      BY <1>3, <1>5
    <2>3. forked # Ports /\ forked \subseteq Ports /\ fork_taken \subseteq fork_valid
      BY <1>5, RestFacts, ForkFacts DEF Typed
    <2>4. forked \cup fork_taken # Ports
      BY <2>3, <1>5 DEF accepted_i
    <2>5. RestAligned'
      BY <2>1, <2>2, <2>4, <1>5 DEF Working, RestAligned, Proper, L1Addr, L1End, InL1
    <2> QED
      BY <2>1, <2>2, <2>5, <1>2, <1>5
  <1>6. CASE req_q # <<>> /\ accepted_i
    <2>1. /\ req_q = <<r>> /\ Proper(r) /\ L1Addr(r) \in Nat /\ r.n \in Nat \ {0}
          /\ L1Addr(r) % FullWidth = 0
          /\ \A u : u \in Units(burst_req[1]) <=> u \in Units(r) /\ L1Side(u) < L1Addr(r) + FullWidth
      BY <1>6, RestFacts
    <2>2. forked' = {}
      BY <1>3, <1>6
    <2>3. CASE r.n <= FullWidth
      <3>1. req_q' = <<>>
        BY <2>3, <1>3, <1>6 DEF split
      <3>2. \A u \in Units(r) : u \in Units(burst_req[1])
        <4> TAKE u \in Units(r)
        <4>1. L1Side(u) \in Nat /\ L1Side(u) < L1Addr(r) + r.n
          BY <2>1, UnitSide DEF L1End
        <4> QED
          BY <4>1, <2>1, <2>3, Sizes
      <3> QED
        BY <3>1, <3>2, <2>2, <1>2, <1>6 DEF RestAligned
    <2>4. CASE ~ (r.n <= FullWidth)
      <3> DEFINE a == Advance(r, FullWidth)
      <3>1. req_q' = <<a>>
        BY <2>4, <1>3, <1>6 DEF split
      <3>2. FullWidth \in Nat /\ FullWidth < r.n
        BY <2>1, <2>4, Sizes
      <3>3. /\ Proper(a) /\ L1Addr(a) = L1Addr(r) + FullWidth
            /\ \A u : u \in Units(a) <=> u \in Units(r) /\ L1Side(u) >= L1Addr(r) + FullWidth
        BY <2>1, <3>2, AdvanceFacts
      <3>4. L1Addr(a) % FullWidth = 0
        <4>1. (L1Addr(r) + FullWidth - 0) % FullWidth = 0
          BY <2>1, NextRow
        <4> QED
          BY <4>1, <3>3, <2>1, Sizes
      <3> HIDE DEF a
      <3>5. req_q' # <<>> /\ req_q'[1] = a
        BY <3>1
      <3>6. RestAligned'
        BY <3>1, <3>3, <3>4, <3>5, <2>2, PortZero DEF RestAligned, Proper, L1Addr, L1End, InL1
      <3> QED
        BY <3>3, <3>5, <3>6, <2>2, <1>2, <1>6
    <2> QED
      BY <2>3, <2>4
  <1> QED
    BY <1>4, <1>5, <1>6

(* An element of a queue after the cycle was there before or is the slice  *)
(* taken; one before the cycle is there, or was the head of a piece        *)
(* finished.                                                               *)
LEMMA PortElements ==
  ASSUME Typed, Working, NEW finished \in SUBSET Finishing, Cycle({}, finished), NEW i \in Ports
  PROVE  LET h == Popping(finished, i)
             len == Len(port[i]) - h
         IN  /\ h \in 0 .. 1 /\ (h = 1 <=> i \in finished) /\ len \in Nat
             /\ Len(port'[i]) = len + Taking(i)
             /\ \A k \in DOMAIN port'[i] :
                  \/ k <= len /\ k + h \in DOMAIN port[i] /\ port'[i][k] = port[i][k + h]
                  \/ k = len + 1 /\ Took(i) /\ port'[i][k] = Slice(burst_req[1], i)
             /\ \A k \in DOMAIN port[i] :
                  (k = 1 /\ i \in finished) \/ (k - h \in DOMAIN port'[i] /\ port'[i][k - h] = port[i][k])
             /\ Took(i) => len + 1 \in DOMAIN port'[i] /\ port'[i][len + 1] = Slice(burst_req[1], i)
  <1> DEFINE h == Popping(finished, i)
             len == Len(port[i]) - h
  <1>1. Took(i) => Slice(burst_req[1], i) \in Piece
    BY TakenSlices
  <1>2. /\ port'[i] \in Seq(Piece) /\ len \in Nat
        /\ Len(port'[i]) = len + Taking(i)
        /\ \A k \in 1 .. len : k + h \in DOMAIN port[i] /\ port'[i][k] = port[i][k + h]
        /\ Took(i) => port'[i][len + 1] = Slice(burst_req[1], i)
    BY <1>1, PortAfter
  <1>3. h \in 0 .. 1 /\ (h = 1 <=> i \in finished) /\ (h = 0 <=> i \notin finished)
    BY DEF Popping
  <1>4. Taking(i) = (IF Took(i) THEN 1 ELSE 0)
    BY DEF Taking
  <1>5. port[i] \in Seq(Piece)
    BY DEF Typed
  <1>6. DOMAIN port'[i] = 1 .. Len(port'[i]) /\ DOMAIN port[i] = 1 .. Len(port[i]) /\ Len(port[i]) \in Nat
    BY <1>2, <1>5
  <1>7. len = Len(port[i]) - h
    OBVIOUS
  <1> HIDE DEF h, len
  <1>8. \A k \in DOMAIN port'[i] :
          \/ k <= len /\ k + h \in DOMAIN port[i] /\ port'[i][k] = port[i][k + h]
          \/ k = len + 1 /\ Took(i) /\ port'[i][k] = Slice(burst_req[1], i)
    <2> TAKE k \in DOMAIN port'[i]
    <2>1. k \in 1 .. len \/ (k = len + 1 /\ Took(i))
      BY <1>2, <1>4, <1>6
    <2> QED
      BY <2>1, <1>2
  <1>9. \A k \in DOMAIN port[i] :
          (k = 1 /\ i \in finished) \/ (k - h \in DOMAIN port'[i] /\ port'[i][k - h] = port[i][k])
    <2> TAKE k \in DOMAIN port[i]
    <2>1. (k = 1 /\ i \in finished) \/ k - h \in 1 .. len
      BY <1>3, <1>6, <1>7
    <2>2. ASSUME k - h \in 1 .. len
          PROVE  k - h \in DOMAIN port'[i] /\ port'[i][k - h] = port[i][k]
      <3>1. port'[i][k - h] = port[i][(k - h) + h]
        BY <1>2, <2>2, Zenon
      <3>2. (k - h) + h = k
        BY <1>3, <1>6
      <3>3. k - h \in DOMAIN port'[i]
        BY <1>2, <1>4, <1>6, <2>2
      <3> QED
        BY <3>1, <3>2, <3>3
    <2> QED
      BY <2>1, <2>2
  <1>10. Took(i) => len + 1 \in DOMAIN port'[i]
    BY <1>2, <1>4, <1>6
  <1> QED
    BY <1>2, <1>3, <1>7, <1>8, <1>9, <1>10 DEF h, len

(* No unit is in two pieces.                                               *)
LEMMA PortsApart ==
  ASSUME Typed, Ordered, NEW i \in Ports, NEW j \in Ports,
         NEW k \in DOMAIN port[i], NEW l \in DOMAIN port[j], i # j \/ k # l,
         NEW u \in Units(port[i][k])
  PROVE  u \notin Units(port[j][l])
  <1>1. Proper(port[i][k]) /\ Proper(port[j][l]) /\ Home(L1Side(u)) = i
    BY DEF Ordered
  <1>2. u \in Units(port[j][l]) => Home(L1Side(u)) = j
    BY DEF Ordered
  <1>3. port[i] \in Seq(Piece) /\ port[j] \in Seq(Piece)
    BY DEF Typed
  <1>4. k \in Nat /\ l \in Nat
    BY <1>3
  <1>5. CASE i = j /\ k < l
    <2>1. L1End(port[i][k]) <= L1Addr(port[j][l])
      BY <1>5 DEF Ordered
    <2> QED
      BY <2>1, <1>1, ApartUnits
  <1>6. CASE i = j /\ l < k
    <2>1. L1End(port[j][l]) <= L1Addr(port[i][k])
      BY <1>6 DEF Ordered
    <2> QED
      BY <2>1, <1>1, ApartUnits
  <1> QED
    BY <1>1, <1>2, <1>4, <1>5, <1>6

(* No unit at a port is unsent.                                            *)
LEMMA UnsentNotSent ==
  ASSUME Typed, Working, NEW u, Unsent(u), NEW i \in Ports, NEW k \in DOMAIN port[i]
  PROVE  u \notin Units(port[i][k])
  <1> SUFFICES ASSUME u \in Units(port[i][k]) PROVE FALSE
    OBVIOUS
  <1> DEFINE r == req_q[1]
             p == burst_req[1]
  <1>1. req_q # <<>> /\ u \in Units(r)
    BY DEF Unsent
  <1>2. /\ Proper(r) /\ L1Addr(r) \in Nat /\ InRow(p)
        /\ \A v : v \in Units(p) <=> v \in Units(r) /\ L1Side(v) < L1Addr(r) + FullWidth
    BY <1>1, RestFacts
  <1>3. /\ Proper(port[i][k]) /\ Home(L1Side(u)) = i
        /\ L1End(port[i][k]) <= L1Addr(r) + (IF i \in forked THEN FullWidth ELSE 0)
    BY <1>1 DEF Working, Ordered
  <1>4. /\ L1Side(u) \in Nat /\ L1Addr(r) <= L1Side(u) /\ L1Side(u) < L1End(port[i][k])
        /\ L1End(port[i][k]) \in Nat
    BY <1>1, <1>2, <1>3, UnitSide, L1AddrType
  <1>5. i \in forked
    BY <1>2, <1>3, <1>4
  <1>6. L1Side(u) < L1Addr(r) + FullWidth
    BY <1>2, <1>3, <1>4, <1>5, Sizes
  <1>7. u \in Units(p)
    BY <1>1, <1>2, <1>6
  <1>8. Involved(p, i)
    BY <1>2, <1>3, <1>7, HomeInvolved
  <1>9. u \in Units(Slice(p, i))
    BY <1>2, <1>3, <1>7, <1>8, SliceUnits
  <1> QED
    BY <1>5, <1>8, <1>9 DEF Unsent

(* A slice that is taken was unsent.                                       *)
LEMMA TakenUnsent ==
  ASSUME Typed, Working, NEW i \in Ports, Took(i), NEW u \in Units(Slice(burst_req[1], i))
  PROVE  Unsent(u) /\ u \in owed
  <1>1. req_q # <<>> /\ i \notin forked /\ u \in Units(burst_req[1]) /\ Home(L1Side(u)) = i
    BY TakenSlices
  <1>2. InRow(burst_req[1]) /\ u \in Units(req_q[1])
    BY <1>1, RestFacts
  <1>3. ASSUME NEW j \in forked, Involved(burst_req[1], j)
        PROVE  u \notin Units(Slice(burst_req[1], j))
    <2>1. j \in Ports
      BY DEF Typed
    <2> QED
      BY <2>1, <1>1, <1>2, <1>3, SliceUnits
  <1>4. Unsent(u)
    BY <1>1, <1>2, <1>3 DEF Unsent
  <1> QED
    BY <1>1, <1>2, <1>4 DEF Working, Exact

(* What is unsent after the cycle was unsent before; what was unsent stays *)
(* so or is in a slice taken.                                              *)
LEMMA UnsentStep ==
  ASSUME Typed, Working, NEW finished \in SUBSET Finishing, Cycle({}, finished), NEW u
  PROVE  /\ Unsent(u)' => Unsent(u)
         /\ Unsent(u) => Unsent(u)' \/ \E i \in Ports : Took(i) /\ u \in Units(Slice(burst_req[1], i))
  <1> DEFINE r == req_q[1]
             p == burst_req[1]
  <1>1. req_q = <<>> => ~ Unsent(u) /\ ~ Unsent(u)'
    BY RestStep DEF Unsent
  <1> SUFFICES ASSUME req_q # <<>>
               PROVE  /\ Unsent(u)' => Unsent(u)
                      /\ Unsent(u) => \/ Unsent(u)'
                                      \/ \E i \in Ports : Took(i) /\ u \in Units(Slice(p, i))
    BY <1>1
  <1>2. /\ Proper(r) /\ L1Addr(r) \in Nat /\ InRow(p)
        /\ \A v : v \in Units(p) <=> v \in Units(r) /\ L1Side(v) < L1Addr(r) + FullWidth
    BY RestFacts
  <1>3. u \in Units(r) => L1Side(u) \in Nat
    BY <1>2, UnitSide
  <1>4. ASSUME u \in Units(p), Unsent(u), Home(L1Side(u)) \in forked \cup fork_taken
        PROVE  \E i \in Ports : Took(i) /\ u \in Units(Slice(p, i))
    <2> DEFINE i == Home(L1Side(u))
    <2>1. i \in Ports /\ Involved(p, i)
      BY <1>2, <1>4, RowOffset, HomeInvolved
    <2>2. u \in Units(Slice(p, i))
      BY <1>2, <1>4, <2>1, SliceUnits
    <2>3. i \notin forked
      BY <1>4, <2>1, <2>2 DEF Unsent
    <2>4. Took(i)
      BY <1>4, <2>1, <2>3 DEF Took
    <2> QED
      BY <2>1, <2>2, <2>4
  <1>5. CASE ~ accepted_i
    <2>1. req_q' = req_q /\ forked' = forked \cup fork_taken
      BY <1>5, CycleFacts DEF split
    <2>2. burst_req' = burst_req
      BY <2>1 DEF burst_req
    <2>3. Unsent(u)' <=> /\ u \in Units(r)
                         /\ \A i \in forked \cup fork_taken : Involved(p, i) => u \notin Units(Slice(p, i))
      BY <2>1, <2>2 DEF Unsent
    <2>4. Unsent(u)' => Unsent(u)
      BY <2>3 DEF Unsent
    <2>5. ASSUME Unsent(u), ~ Unsent(u)'
          PROVE  \E i \in Ports : Took(i) /\ u \in Units(Slice(p, i))
      <3>1. PICK i \in forked \cup fork_taken : Involved(p, i) /\ u \in Units(Slice(p, i))
        BY <2>3, <2>5 DEF Unsent
      <3>2. i \notin forked
        BY <2>5, <3>1 DEF Unsent
      <3>3. Took(i) /\ i \in Ports
        BY <3>1, <3>2, ForkFacts DEF Took
      <3> QED
        BY <3>1, <3>3
    <2> QED
      BY <2>4, <2>5
  <1>6. CASE accepted_i
    <2>1. forked' = {} /\ forked \cup fork_taken = Ports
      BY <1>6, CycleFacts, ForkFacts
    <2>2. Unsent(u)' <=> req_q' # <<>> /\ u \in Units(req_q'[1])
      BY <2>1 DEF Unsent
    <2>3. req_q' # <<>> => (u \in Units(req_q'[1])
                             <=> u \in Units(r) /\ L1Side(u) >= L1Addr(r) + FullWidth)
      BY <1>6, RestStep
    <2>4. Unsent(u)' => Unsent(u)
      <3> SUFFICES ASSUME Unsent(u)' PROVE Unsent(u)
        OBVIOUS
      <3>1. u \in Units(r) /\ L1Side(u) >= L1Addr(r) + FullWidth
        BY <2>2, <2>3
      <3>2. u \notin Units(p)
        BY <3>1, <1>2, <1>3, Sizes
      <3>3. \A i \in forked : Involved(p, i) => u \notin Units(Slice(p, i))
        <4> TAKE i \in forked
        <4>1. i \in Ports
          BY DEF Typed
        <4> QED
          BY <4>1, <3>2, <1>2, SliceUnits
      <3> QED
        BY <3>1, <3>3 DEF Unsent
    <2>5. ASSUME Unsent(u), ~ Unsent(u)'
          PROVE  u \in Units(p)
      <3>1. u \in Units(r) /\ L1Side(u) \in Nat
        BY <2>5, <1>3 DEF Unsent
      <3>2. CASE req_q' = <<>>
        BY <3>1, <3>2, RestStep
      <3>3. CASE req_q' # <<>>
        BY <3>1, <3>3, <2>2, <2>3, <2>5, <1>2, Sizes
      <3> QED
        BY <3>2, <3>3
    <2>6. u \in Units(p) => Home(L1Side(u)) \in forked \cup fork_taken
      BY <2>1, <1>2, RowOffset
    <2> QED
      BY <2>4, <2>5, <2>6, <1>4
  <1> QED
    BY <1>5, <1>6

(* The queues stay in order.                                               *)
LEMMA OrderedStep ==
  ASSUME Typed, Working, NEW finished \in SUBSET Finishing, Cycle({}, finished)
  PROVE  Ordered'
  <1> SUFFICES ASSUME NEW i \in Ports
               PROVE  /\ Len(port'[i]) <= PortDepth
                      /\ \A k \in DOMAIN port'[i] :
                           /\ Proper(port'[i][k])
                           /\ \A u \in Units(port'[i][k]) : Home(L1Side(u)) = i
                           /\ \A l \in DOMAIN port'[i] :
                                k < l => L1End(port'[i][k]) <= L1Addr(port'[i][l])
                           /\ req_q' # <<>> =>
                                L1End(port'[i][k])
                                  <= L1Addr(req_q'[1]) + (IF i \in forked' THEN FullWidth ELSE 0)
    BY DEF Ordered, Proper, L1Addr, L1End, InL1, Units, Home, L1Side
  <1> DEFINE h == Popping(finished, i)
             len == Len(port[i]) - h
             sl == Slice(burst_req[1], i)
             r == req_q[1]
  <1>1. /\ h \in 0 .. 1 /\ len \in Nat /\ len = Len(port[i]) - h
        /\ Len(port'[i]) = len + Taking(i)
        /\ \A k \in DOMAIN port'[i] :
             \/ k <= len /\ k + h \in DOMAIN port[i] /\ port'[i][k] = port[i][k + h]
             \/ k = len + 1 /\ Took(i) /\ port'[i][k] = sl
    BY PortElements
  <1>2. Len(port[i]) \in Nat /\ Len(port[i]) <= PortDepth
    BY DEF Typed, Working, Ordered
  <1>3. Taking(i) \in 0 .. 1 /\ (Taking(i) = 1 => Len(port[i]) < PortDepth)
    BY ForkFacts DEF Taking, Took
  <1>4. \A k \in DOMAIN port[i] :
          /\ Proper(port[i][k])
          /\ \A u \in Units(port[i][k]) : Home(L1Side(u)) = i
          /\ \A l \in DOMAIN port[i] : k < l => L1End(port[i][k]) <= L1Addr(port[i][l])
          /\ req_q # <<>> => L1End(port[i][k]) <= L1Addr(r) + (IF i \in forked THEN FullWidth ELSE 0)
    BY DEF Working, Ordered
  <1>5. Took(i) => /\ req_q # <<>> /\ i \notin forked /\ Proper(sl)
                   /\ L1Addr(r) <= L1Addr(sl) /\ L1End(sl) <= L1Addr(r) + FullWidth
                   /\ \A u \in Units(sl) : Home(L1Side(u)) = i
    BY TakenSlices
  <1>6. port'[i] \in Seq(Piece)
    BY PortAfter, TakenSlices
  <1> HIDE DEF h, len, sl, r
  <1>7. Len(port'[i]) <= PortDepth
    BY <1>1, <1>2, <1>3, Sizes
  <1>8. ASSUME NEW k \in DOMAIN port'[i]
        PROVE  Proper(port'[i][k]) /\ \A u \in Units(port'[i][k]) : Home(L1Side(u)) = i
    BY <1>1, <1>4, <1>5
  <1>9. ASSUME NEW k \in DOMAIN port'[i], NEW l \in DOMAIN port'[i], k < l
        PROVE  L1End(port'[i][k]) <= L1Addr(port'[i][l])
    <2>1. k \in Nat /\ l \in Nat /\ l <= len + 1
      BY <1>1, <1>3, <1>6
    <2>2. k <= len /\ k + h \in DOMAIN port[i] /\ port'[i][k] = port[i][k + h]
      BY <1>1, <1>9, <2>1
    <2>3. CASE l <= len
      <3>1. l + h \in DOMAIN port[i] /\ port'[i][l] = port[i][l + h]
        BY <1>1, <2>1, <2>3
      <3>2. k + h < l + h
        BY <1>1, <1>9, <2>1
      <3> QED
        BY <2>2, <3>1, <3>2, <1>4
    <2>4. CASE ~ (l <= len)
      <3>1. Took(i) /\ port'[i][l] = sl
        BY <1>1, <2>4
      <3>2. L1End(port[i][k + h]) <= L1Addr(r) + 0 /\ Proper(port[i][k + h])
        BY <2>2, <3>1, <1>4, <1>5
      <3>3. /\ L1End(port[i][k + h]) \in Nat /\ L1Addr(sl) \in Nat /\ L1Addr(r) \in Nat
        BY <3>1, <3>2, <1>5, L1AddrType, RestFacts DEF r
      <3> QED
        BY <2>2, <3>1, <3>2, <3>3, <1>5
    <2> QED
      BY <2>3, <2>4
  <1>10. ASSUME NEW k \in DOMAIN port'[i], req_q' # <<>>
         PROVE  L1End(port'[i][k]) <= L1Addr(req_q'[1]) + (IF i \in forked' THEN FullWidth ELSE 0)
    <2>1. req_q # <<>> /\ L1Addr(r) \in Nat
      BY <1>10, RestStep, RestFacts DEF r
    <2>2. L1End(port'[i][k]) \in Nat
      BY <1>8, L1AddrType
    <2>3. \/ L1End(port'[i][k]) <= L1Addr(r) + (IF i \in forked THEN FullWidth ELSE 0)
          \/ Took(i) /\ L1End(port'[i][k]) <= L1Addr(r) + FullWidth
      BY <1>1, <1>4, <1>5, <2>1
    <2>4. CASE accepted_i
      <3>1. forked' = {} /\ L1Addr(req_q'[1]) = L1Addr(r) + FullWidth
        BY <1>10, <2>4, RestStep DEF r
      <3> QED
        BY <2>1, <2>2, <2>3, <3>1, Sizes
    <2>5. CASE ~ accepted_i
      <3>1. req_q' = req_q /\ forked' = forked \cup fork_taken
        BY <1>10, <2>5, RestStep
      <3>2. Took(i) => i \in forked'
        BY <3>1 DEF Took
      <3>3. i \in forked => i \in forked'
        BY <3>1
      <3>4. L1Addr(req_q'[1]) = L1Addr(r)
        BY <3>1 DEF r
      <3> QED
        BY <2>1, <2>2, <2>3, <3>2, <3>3, <3>4, Sizes
    <2> QED
      BY <2>4, <2>5
  <1> QED
    BY <1>7, <1>8, <1>9, <1>10

(* The units owed stay the units unsent and those at a port.               *)
LEMMA ExactStep ==
  ASSUME Typed, Working, NEW finished \in SUBSET Finishing, Cycle({}, finished)
  PROVE  Exact'
  <1>1. owed' = owed \ UNION {Units(port[i][1]) : i \in finished}
    BY CycleFacts
  <1>2. finished \subseteq Ports /\ \A i \in finished : 1 \in DOMAIN port[i]
    <2>1. finished \subseteq Ports /\ \A i \in finished : port[i] # <<>>
      BY CycleFacts
    <2>2. \A i \in Ports : port[i] # <<>> => 1 \in DOMAIN port[i]
      <3> TAKE i \in Ports
      <3>1. port[i] \in Seq(Piece)
        BY DEF Typed
      <3> QED
        BY <3>1
    <2> QED
      BY <2>1, <2>2
  <1>3. Ordered
    BY DEF Working
  <1>4. ASSUME NEW u \in owed'
        PROVE  Unsent(u)' \/ Sent(u)'
    <2>1. u \in owed /\ \A i \in finished : u \notin Units(port[i][1])
      BY <1>1
    <2>2. Unsent(u) \/ Sent(u)
      BY <2>1 DEF Working, Exact
    <2>3. ASSUME NEW i \in Ports, Took(i), u \in Units(Slice(burst_req[1], i))
          PROVE  Sent(u)'
      <3>1. \E k \in DOMAIN port'[i] : u \in Units(port'[i][k])
        BY <2>3, PortElements
      <3> QED
        BY <3>1 DEF Sent, Units
    <2>4. CASE Unsent(u)
      BY <2>3, <2>4, UnsentStep
    <2>5. CASE Sent(u)
      <3>0. PICK i \in Ports : \E k \in DOMAIN port[i] : u \in Units(port[i][k])
        BY <2>5 DEF Sent
      <3>1. PICK k \in DOMAIN port[i] : u \in Units(port[i][k])
        BY <3>0
      <3>2. ~ (k = 1 /\ i \in finished)
        BY <3>1, <2>1
      <3>3. \E l \in DOMAIN port'[i] : u \in Units(port'[i][l])
        BY <3>1, <3>2, PortElements
      <3> QED
        BY <3>3 DEF Sent, Units
    <2> QED
      BY <2>2, <2>4, <2>5
  <1>5. ASSUME NEW i \in Ports, NEW k \in DOMAIN port'[i], NEW u \in Units(port'[i][k])
        PROVE  u \in owed'
    <2> DEFINE h == Popping(finished, i)
    <2>1. /\ h \in 0 .. 1 /\ (h = 1 <=> i \in finished)
          /\ \/ k + h \in DOMAIN port[i] /\ port'[i][k] = port[i][k + h]
             \/ Took(i) /\ port'[i][k] = Slice(burst_req[1], i)
      BY PortElements
    <2>2. k \in Nat \ {0}
      <3>1. port'[i] \in Seq(Piece)
        BY PortAfter, TakenSlices
      <3> QED
        BY <3>1
    <2> HIDE DEF h
    <2>3. CASE k + h \in DOMAIN port[i] /\ port'[i][k] = port[i][k + h]
      <3>1. u \in owed
        BY <2>3 DEF Working, Exact
      <3>2. ASSUME NEW j \in finished
            PROVE  u \notin Units(port[j][1])
        <4>1. i # j \/ k + h # 1
          BY <2>1, <2>2
        <4> QED
          BY <4>1, <2>3, <1>2, <1>3, PortsApart
      <3> QED
        BY <3>1, <3>2, <1>1
    <2>4. CASE Took(i) /\ port'[i][k] = Slice(burst_req[1], i)
      <3>1. Unsent(u) /\ u \in owed
        BY <2>4, TakenUnsent
      <3>2. \A j \in finished : u \notin Units(port[j][1])
        BY <3>1, <1>2, UnsentNotSent
      <3> QED
        BY <3>1, <3>2, <1>1
    <2> QED
      BY <2>1, <2>3, <2>4
  <1>6. ASSUME NEW u, Unsent(u)'
        PROVE  u \in owed'
    <2>1. Unsent(u)
      BY <1>6, UnsentStep
    <2>2. u \in owed
      BY <2>1 DEF Unsent, Working, Exact
    <2>3. \A j \in finished : u \notin Units(port[j][1])
      BY <2>1, <1>2, UnsentNotSent
    <2> QED
      BY <2>2, <2>3, <1>1
  <1> QED
    BY <1>4, <1>5, <1>6 DEF Exact, Units

(* A cycle of a copy under way: it stays so, or it is complete and the     *)
(* completion reported.                                                    *)
LEMMA WorkingStep ==
  ASSUME OneCopy, Typed, Working, NEW finished \in SUBSET Finishing, Cycle({}, finished),
         launched' = 1, waiting' \in BOOLEAN
  PROVE  Typed' /\ (Working' \/ Complete')
  <1>1. /\ Counted' /\ fifo' \in [Ports -> 0 .. TransFifoDepth] /\ port' \in [Ports -> Seq(Piece)]
        /\ forked' \in SUBSET Ports /\ tie_off' \in SUBSET Ports
    BY TakenSlices, CycleCounted DEF Working
  <1>2. /\ num_trans_q' = num_trans_q + (IF accepted_i THEN 1 ELSE 0)
                                      - (IF dist_trans_complete THEN 1 ELSE 0)
        /\ dma_meta' = (num_trans_q = 1 /\ num_trans_q' = 0)
        /\ done_q' = FALSE
    BY CycleFacts DEF trans_complete_d, Working
  <1>3. num_trans_q \in Nat /\ num_trans_q > 0
    BY DEF Typed, Working
  <1>4. dma_meta' \in BOOLEAN /\ (num_trans_q = 1 /\ num_trans_q' = 0 => dma_meta')
    BY <1>2, Zenon
  <1>5. num_trans_q' # 0 => ~ dma_meta'
    BY <1>2, Zenon
  <1>6. num_trans_q' \in Nat
    BY <1>2, <1>3
  <1>7. done_q' \in BOOLEAN
    BY <1>2, Zenon
  <1>8. Typed'
    BY <1>1, <1>4, <1>6, <1>7 DEF Typed
  <1>9. RestAligned' /\ Ordered' /\ Exact' /\ spill' = <<>>
    BY RestStep, OrderedStep, ExactStep
  <1>10. CASE num_trans_q' > 0
    <2>1. ~ dma_meta'
      BY <1>10, <1>5, <1>6
    <2> QED
      BY <2>1, <1>1, <1>2, <1>8, <1>9, <1>10 DEF Working
  <1>11. CASE ~ (num_trans_q' > 0)
    <2>1. num_trans_q' = 0 /\ num_trans_q = 1 /\ ~ accepted_i /\ dist_trans_complete
      BY <1>2, <1>3, <1>11
    <2>2. req_q = <<>>
      BY <2>1, NotYetDone
    <2>3. req_q' = <<>> /\ forked' = {}
      BY <2>2, <1>9, RestStep DEF RestAligned
    <2>4. dma_meta'
      BY <1>4, <2>1
    <2>5. ASSUME NEW i \in Ports
          PROVE  fifo'[i] = 0 /\ port'[i] = <<>> /\ i \notin tie_off'
      <3>1. Len(port'[i]) + (IF i \in tie_off' THEN 1 ELSE 0) + fifo'[i] <= 0
        BY <1>1, <2>1, <2>3 DEF Counted
      <3>2. fifo'[i] \in Nat /\ port'[i] \in Seq(Piece) /\ Len(port'[i]) \in Nat
        BY <1>1, Sizes
      <3>3. fifo'[i] = 0 /\ Len(port'[i]) = 0 /\ i \notin tie_off'
        <4>1. CASE i \in tie_off'
          BY <4>1, <3>1, <3>2
        <4>2. CASE i \notin tie_off'
          BY <4>2, <3>1, <3>2
        <4> QED
          BY <4>1, <4>2
      <3> QED
        BY <3>2, <3>3
    <2>6. tie_off' = {}
      BY <2>5, <1>1
    <2>7. owed' = {}
      <3>1. \A u \in owed' : Unsent(u)' \/ Sent(u)'
        BY <1>9 DEF Exact
      <3>2. \A u : ~ Unsent(u)' /\ ~ Sent(u)'
        BY <2>3, <2>5 DEF Unsent, Sent
      <3> QED
        BY <3>1, <3>2
    <2>8. Empty'
      BY <2>1, <2>3, <2>5, <2>6 DEF Empty
    <2> QED
      BY <2>4, <2>7, <2>8, <1>2, <1>8, <1>9 DEF Complete, Quiet
  <1> QED
    BY <1>10, <1>11

-------------------------------------------------------------------------------
(* The other states of a copy.                                             *)

(* A cycle without a piece anywhere.                                       *)
LEMMA QuietStep ==
  ASSUME Typed, Quiet, NEW launch, NEW finished \in SUBSET Finishing, Cycle(launch, finished),
         launch = {} \/ \E t \in Transfers : launch = {t}
  PROVE  /\ Empty' /\ ~ dma_meta' /\ dma_meta' \in BOOLEAN
         /\ done_q' = trans_complete_d(launch) /\ done_q' \in BOOLEAN
         /\ launch = {} => spill' = <<>> /\ owed' = {}
         /\ \A t \in Transfers : launch = {t} => spill' = <<t>> /\ owed' = Units(t)
         /\ num_trans_q' \in Nat /\ forked' \in SUBSET Ports /\ tie_off' \in SUBSET Ports
         /\ fifo' \in [Ports -> 0 .. TransFifoDepth] /\ port' \in [Ports -> Seq(Piece)]
  <1>1. /\ spill = <<>> /\ req_q = <<>> /\ num_trans_q = 0 /\ forked = {} /\ tie_off = {} /\ owed = {}
        /\ \A i \in Ports : fifo[i] = 0 /\ port[i] = <<>>
    BY DEF Quiet, Empty
  <1>2. /\ fork_valid = {} /\ fork_taken = {} /\ ~ accepted_i /\ split(accepted_i) = <<>>
        /\ ~ split_ready(accepted_i) /\ \A i : ~ Took(i)
    BY <1>1, NothingPresented
  <1>3. finished = {}
    BY <1>1 DEF Finishing
  <1>4. ~ dist_trans_complete
    BY <1>1, PortZero DEF dist_trans_complete
  <1>5. num_trans_q' = 0
    BY <1>1, <1>2, <1>4, CycleFacts
  <1>6. dma_meta' = (num_trans_q = 1 /\ num_trans_q' = 0)
    BY CycleFacts
  <1>7. ~ dma_meta' /\ dma_meta' \in BOOLEAN
    <2>1. num_trans_q # 1
      BY <1>1
    <2> QED
      BY <2>1, <1>6, Zenon
  <1>8. done_q' = trans_complete_d(launch)
    BY CycleFacts
  <1>9. done_q' \in BOOLEAN
    BY <1>8, Zenon DEF trans_complete_d
  <1>10. forked' = {} /\ tie_off' = {} /\ req_q' = <<>>
    BY <1>1, <1>2, CycleFacts
  <1>11. ASSUME NEW i \in Ports
         PROVE  fifo'[i] = 0 /\ port'[i] = <<>>
    <2>1. fifo'[i] = fifo[i] - 0 + 0
      BY <1>1, <1>3, <1>4, CycleFacts DEF fifo_d
    <2>2. port'[i] \in Seq(Piece) /\ Len(port'[i]) = 0
      <3>1. Taking(i) = 0 /\ Popping(finished, i) = 0 /\ Len(port[i]) = 0
        BY <1>1, <1>2, <1>3 DEF Taking, Popping
      <3> QED
        BY <3>1, <1>2, PortAfter
    <2> QED
      BY <2>1, <2>2, <1>1
  <1>12. fifo' \in [Ports -> 0 .. TransFifoDepth] /\ port' \in [Ports -> Seq(Piece)]
    <2>1. fifo' = [i \in Ports |-> fifo'[i]] /\ port' = [i \in Ports |-> port'[i]]
      BY CycleFacts DEF fifo_d
    <2>2. 0 \in 0 .. TransFifoDepth /\ <<>> \in Seq(Piece)
      BY Sizes
    <2> QED
      BY <2>1, <2>2, <1>11
  <1>13. spill' = spill_d(launch, <<>>)
    BY <1>1, <1>2, CycleFacts
  <1>14. owed' = UNION {Units(t) : t \in launch}
    BY <1>1, <1>3, CycleFacts
  <1>15. launch = {} => spill' = <<>> /\ owed' = {}
    BY <1>13, <1>14 DEF spill_d
  <1>16. ASSUME NEW t \in Transfers, launch = {t}
         PROVE  spill' = <<t>> /\ owed' = Units(t)
    <2>1. Len(spill) < SpillDepth
      BY <1>1 DEF SpillDepth
    <2>2. (CHOOSE x \in {t} : TRUE) = t
      OBVIOUS
    <2> QED
      BY <2>1, <2>2, <1>13, <1>14, <1>16 DEF spill_d
  <1> QED
    BY <1>5, <1>7, <1>8, <1>9, <1>10, <1>11, <1>12, <1>15, <1>16 DEF Empty

(* The first cycle of a copy: every port is idle and takes its slice.      *)
LEMMA FreshTaken ==
  ASSUME OneCopy, Typed, Fresh, NEW t \in Transfers, spill = <<t>>
  PROVE  LET m == IF t.n <= Room(t) THEN t.n ELSE Room(t)
             p == [t EXCEPT !.n = m]
         IN  /\ burst_req = <<p>> /\ InRow(p) /\ Proper(t) /\ L1End(p) = L1Addr(t) + m
             /\ m \in Nat \ {0} /\ m <= t.n /\ t.n \in Nat \ {0} /\ Room(t) \in Nat \ {0}
             /\ L1Addr(p) = L1Addr(t) /\ L1Addr(t) \in Nat
             /\ \A u : u \in Units(p) <=> u \in Units(t) /\ L1Side(u) < L1Addr(t) + m
             /\ accepted_i /\ ~ dist_trans_complete
             /\ \A i \in Ports : Took(i) <=> Involved(burst_req[1], i)
  <1> DEFINE m == IF t.n <= Room(t) THEN t.n ELSE Room(t)
             p == [t EXCEPT !.n = m]
  <1>1. Proper(t) /\ t \in Piece /\ L1Addr(t) \in Nat /\ t.n \in Nat \ {0}
    BY TransfersProper, L1AddrType DEF Proper
  <1>2. L1Addr(t) % FullWidth \in 0 .. FullWidth - 1
    BY <1>1, NextRow
  <1>3. Room(t) \in Nat \ {0} /\ Room(t) = FullWidth - (L1Addr(t) % FullWidth)
    BY <1>2, Sizes DEF Room
  <1>4. m \in Nat \ {0} /\ m <= t.n /\ m <= Room(t)
    BY <1>1, <1>3
  <1>5. req_q = <<>> /\ forked = {} /\ \A i \in Ports : fifo[i] = 0 /\ port[i] = <<>>
    BY DEF Fresh, Empty
  <1>6. burst_req = <<p>>
    BY <1>1, <1>5 DEF burst_req, Piece
  <1> HIDE DEF m
  <1>7. /\ Proper(p) /\ p.n = m /\ L1Addr(p) = L1Addr(t) /\ L1End(p) = L1Addr(t) + m
        /\ \A u : u \in Units(p) <=> u \in Units(t) /\ L1Side(u) < L1Addr(t) + m
    BY <1>1, <1>4, FrontFacts
  <1> HIDE DEF p
  <1>8. InRow(p)
    <2>1. Start(p) = L1Addr(t) % FullWidth
      BY <1>7 DEF Start
    <2> QED
      BY <2>1, <1>2, <1>3, <1>4, <1>7, Sizes DEF InRow
  <1>9. fork_valid = Ports
    BY <1>5, <1>6, Sizes DEF fork_valid, fifo_ready
  <1>10. fork_taken = Ports
    <2>1. \A i \in Ports : Len(port[i]) < PortDepth
      BY <1>5, Sizes
    <2> QED
      BY <2>1, <1>9 DEF fork_taken
  <1>11. accepted_i
    BY <1>5, <1>9, <1>10, PortZero DEF accepted_i
  <1>12. ~ dist_trans_complete
    BY <1>5, PortZero DEF dist_trans_complete
  <1>13. \A i \in Ports : Took(i) <=> Involved(burst_req[1], i)
    BY <1>10 DEF Took
  <1> QED
    BY <1>1, <1>3, <1>4, <1>6, <1>7, <1>8, <1>11, <1>12, <1>13 DEF m, p

(* After it the copy is under way: its first piece has been accepted, and  *)
(* what is left of it starts with a row.                                   *)
LEMMA FreshStep ==
  ASSUME OneCopy, Typed, Fresh, NEW finished \in SUBSET Finishing, Cycle({}, finished),
         launched' = 1, waiting' \in BOOLEAN
  PROVE  Typed' /\ Working'
  <1>1. PICK t \in Transfers : spill = <<t>> /\ owed = Units(t)
    BY DEF Fresh
  <1> DEFINE m == IF t.n <= Room(t) THEN t.n ELSE Room(t)
             p == burst_req[1]
  <1>2. /\ burst_req = <<p>> /\ InRow(p) /\ Proper(t) /\ L1End(p) = L1Addr(t) + m
        /\ m \in Nat \ {0} /\ m <= t.n /\ t.n \in Nat \ {0} /\ Room(t) \in Nat \ {0}
        /\ L1Addr(p) = L1Addr(t) /\ L1Addr(t) \in Nat
        /\ \A u : u \in Units(p) <=> u \in Units(t) /\ L1Side(u) < L1Addr(t) + m
        /\ accepted_i /\ ~ dist_trans_complete
        /\ \A i \in Ports : Took(i) <=> Involved(p, i)
    <2> DEFINE f == [t EXCEPT !.n = m]
    <2>1. /\ burst_req = <<f>> /\ InRow(f) /\ Proper(t) /\ L1End(f) = L1Addr(t) + m
          /\ m \in Nat \ {0} /\ m <= t.n /\ t.n \in Nat \ {0} /\ Room(t) \in Nat \ {0}
          /\ L1Addr(f) = L1Addr(t) /\ L1Addr(t) \in Nat
          /\ \A u : u \in Units(f) <=> u \in Units(t) /\ L1Side(u) < L1Addr(t) + m
          /\ accepted_i /\ ~ dist_trans_complete
          /\ \A i \in Ports : Took(i) <=> Involved(burst_req[1], i)
      BY <1>1, FreshTaken
    <2> HIDE DEF f, m
    <2>2. burst_req[1] = f
      BY <2>1
    <2> QED
      BY <2>1, <2>2
  <1>3. /\ req_q = <<>> /\ num_trans_q = 0 /\ forked = {} /\ tie_off = {} /\ ~ done_q /\ ~ dma_meta
        /\ \A i \in Ports : fifo[i] = 0 /\ port[i] = <<>>
    BY DEF Fresh, Empty
  <1>4. finished = {}
    BY <1>3 DEF Finishing
  <1>5. \A i \in Ports : Took(i) => /\ Slice(p, i) \in Piece /\ Proper(Slice(p, i))
                                    /\ L1End(Slice(p, i)) <= L1Addr(t) + m
    BY <1>2, SliceProper
  <1>6. \A i \in Ports : \A u :
          Took(i) => (u \in Units(Slice(p, i)) <=> u \in Units(p) /\ Home(L1Side(u)) = i)
    BY <1>2, SliceUnits
  <1>7. Counted
    BY <1>3 DEF Counted
  <1>8. /\ Counted' /\ fifo' \in [Ports -> 0 .. TransFifoDepth] /\ port' \in [Ports -> Seq(Piece)]
        /\ forked' \in SUBSET Ports /\ tie_off' \in SUBSET Ports
    BY <1>5, <1>7, CycleCounted
  <1>9. num_trans_q' = 1 /\ forked' = {} /\ owed' = Units(t)
    <2>1. owed' = (owed \ UNION {Units(port[i][1]) : i \in {}}) \cup UNION {Units(x) : x \in {}}
      BY <1>4, CycleFacts
    <2>2. num_trans_q' = 0 + 1 - 0 /\ forked' = {}
      BY <1>2, <1>3, CycleFacts
    <2> QED
      BY <2>1, <2>2, <1>1
  <1>10. dma_meta' = (num_trans_q = 1 /\ num_trans_q' = 0)
    BY CycleFacts
  <1>11. ~ dma_meta' /\ dma_meta' \in BOOLEAN
    <2>1. num_trans_q # 1
      BY <1>3
    <2> QED
      BY <2>1, <1>10, Zenon
  <1>12. done_q' = FALSE
    BY <1>3, CycleFacts DEF trans_complete_d
  <1>13. done_q' \in BOOLEAN
    BY <1>12, Zenon
  <1>14. num_trans_q' \in Nat /\ num_trans_q' > 0 /\ launched' \in 0 .. 1
    BY <1>9
  <1>15. Typed'
    BY <1>8, <1>11, <1>13, <1>14 DEF Typed
  <1>16. spill' = <<>>
    <2>1. split_ready(accepted_i)
      BY <1>1, <1>2, <1>3 DEF split_ready
    <2> QED
      BY <2>1, <1>1, CycleFacts DEF spill_d
  <1>17. req_q' = split(accepted_i)
    BY CycleFacts
  <1>18. \/ req_q' = <<>> /\ m = t.n
         \/ /\ req_q' = <<req_q'[1]>> /\ Proper(req_q'[1]) /\ L1Addr(req_q'[1]) % FullWidth = 0
            /\ L1Addr(req_q'[1]) = L1Addr(t) + m
            /\ \A u : u \in Units(req_q'[1]) <=> u \in Units(t) /\ L1Side(u) >= L1Addr(t) + m
    <2>1. CASE t.n <= Room(t)
      BY <2>1, <1>1, <1>3, <1>17 DEF split
    <2>2. CASE ~ (t.n <= Room(t))
      <3> DEFINE a == Advance(t, Room(t))
      <3>1. req_q' = <<a>> /\ m = Room(t)
        BY <2>2, <1>1, <1>2, <1>3, <1>17 DEF split
      <3>2. Room(t) \in Nat /\ Room(t) < t.n
        BY <2>2, <1>2
      <3>3. /\ Proper(a) /\ L1Addr(a) = L1Addr(t) + Room(t)
            /\ \A u : u \in Units(a) <=> u \in Units(t) /\ L1Side(u) >= L1Addr(t) + Room(t)
        BY <3>2, <1>2, AdvanceFacts
      <3>4. L1Addr(a) % FullWidth = 0
        <4>1. (L1Addr(t) + FullWidth - (L1Addr(t) % FullWidth)) % FullWidth = 0
          BY <1>2, NextRow
        <4>2. L1Addr(t) % FullWidth \in Nat
          BY <1>2, Division, Sizes
        <4>3. L1Addr(a) = L1Addr(t) + FullWidth - (L1Addr(t) % FullWidth)
          BY <3>3, <4>2, <1>2, Sizes DEF Room
        <4> QED
          BY <4>1, <4>3
      <3> HIDE DEF a
      <3>5. req_q'[1] = a
        BY <3>1
      <3> QED
        BY <3>1, <3>3, <3>4, <3>5
    <2> QED
      BY <2>1, <2>2
  <1>19. RestAligned'
    BY <1>9, <1>18, PortZero DEF RestAligned, Proper, L1Addr, L1End, InL1
  <1> HIDE DEF m, p
  <1>20. ASSUME NEW i \in Ports
         PROVE  /\ port'[i] \in Seq(Piece) /\ Len(port'[i]) = Taking(i) /\ Taking(i) \in 0 .. 1
                /\ \A k \in DOMAIN port'[i] : k = 1 /\ Took(i) /\ port'[i][k] = Slice(p, i)
                /\ Took(i) => 1 \in DOMAIN port'[i] /\ port'[i][1] = Slice(p, i)
    <2>1. Popping(finished, i) = 0 /\ Len(port[i]) = 0
      BY <1>3, <1>4 DEF Popping
    <2>2. Taking(i) = (IF Took(i) THEN 1 ELSE 0)
      BY DEF Taking
    <2>3. /\ port'[i] \in Seq(Piece) /\ Len(port'[i]) = Taking(i)
          /\ Took(i) => port'[i][1] = Slice(p, i)
      BY <2>1, <2>2, <1>5, PortAfter DEF p
    <2> QED
      BY <2>2, <2>3
  <1>21. Ordered'
    <2> SUFFICES ASSUME NEW i \in Ports
                 PROVE  /\ Len(port'[i]) <= PortDepth
                        /\ \A k \in DOMAIN port'[i] :
                             /\ Proper(port'[i][k])
                             /\ \A u \in Units(port'[i][k]) : Home(L1Side(u)) = i
                             /\ \A l \in DOMAIN port'[i] :
                                  k < l => L1End(port'[i][k]) <= L1Addr(port'[i][l])
                             /\ req_q' # <<>> =>
                                  L1End(port'[i][k])
                                    <= L1Addr(req_q'[1]) + (IF i \in forked' THEN FullWidth ELSE 0)
      BY DEF Ordered, Proper, L1Addr, L1End, InL1, Units, Home, L1Side
    <2>1. Len(port'[i]) <= PortDepth
      BY <1>20, Sizes
    <2>2. ASSUME NEW k \in DOMAIN port'[i]
          PROVE  /\ Proper(port'[i][k])
                 /\ \A u \in Units(port'[i][k]) : Home(L1Side(u)) = i
                 /\ L1End(port'[i][k]) <= L1Addr(t) + m
      BY <1>5, <1>6, <1>20
    <2>3. \A k, l \in DOMAIN port'[i] : ~ (k < l)
      BY <1>20
    <2>4. req_q' # <<>> => L1Addr(req_q'[1]) = L1Addr(t) + m
      BY <1>18
    <2>5. \A k \in DOMAIN port'[i] : req_q' # <<>> => L1End(port'[i][k]) <= L1Addr(req_q'[1]) + 0
      BY <2>2, <2>4, <1>2
    <2> QED
      BY <2>1, <2>2, <2>3, <2>5, <1>9
  <1>22. ASSUME NEW u
         PROVE  Unsent(u)' <=> req_q' # <<>> /\ u \in Units(req_q'[1])
    BY <1>9 DEF Unsent
  <1>23. Exact'
    <2>1. ASSUME NEW u \in Units(t)
          PROVE  Unsent(u)' \/ Sent(u)'
      <3>1. L1Side(u) \in Nat /\ L1Side(u) < L1Addr(t) + t.n
        BY <1>2, UnitSide DEF L1End
      <3>2. CASE u \in Units(p)
        <4> DEFINE i == Home(L1Side(u))
        <4>1. i \in Ports /\ Took(i)
          BY <3>2, <1>2, RowOffset, HomeInvolved
        <4>2. u \in Units(port'[i][1]) /\ 1 \in DOMAIN port'[i]
          BY <4>1, <3>2, <1>6, <1>20
        <4> QED
          BY <4>1, <4>2 DEF Sent, Units
      <3>3. CASE u \notin Units(p)
        <4>1. L1Side(u) >= L1Addr(t) + m
          BY <3>1, <3>3, <1>2
        <4>2. m # t.n
          BY <3>1, <4>1, <1>2
        <4> QED
          BY <4>1, <4>2, <1>18, <1>22
      <3> QED
        BY <3>2, <3>3
    <2>2. ASSUME NEW i \in Ports, NEW k \in DOMAIN port'[i], NEW u \in Units(port'[i][k])
          PROVE  u \in Units(t)
      <3>1. u \in Units(p)
        BY <1>6, <1>20
      <3> QED
        BY <3>1, <1>2
    <2>3. ASSUME NEW u, Unsent(u)'
          PROVE  u \in Units(t)
      BY <2>3, <1>18, <1>22
    <2> QED
      BY <2>1, <2>2, <2>3, <1>9 DEF Exact, Units
  <1> QED
    BY <1>8, <1>11, <1>12, <1>14, <1>15, <1>16, <1>19, <1>21, <1>23 DEF Working

-------------------------------------------------------------------------------
(* The invariant.                                                          *)

(* It holds at reset.                                                      *)
LEMMA InitDmaInv == Init => DmaInv
  <1> SUFFICES ASSUME Init PROVE DmaInv
    OBVIOUS
  <1>1. 0 \in 0 .. TransFifoDepth /\ <<>> \in Seq(Piece)
    BY Sizes
  <1>2. Typed
    <2>1. waiting \in BOOLEAN /\ done_q \in BOOLEAN /\ dma_meta \in BOOLEAN
      BY Zenon DEF Init
    <2> QED
      BY <2>1, <1>1 DEF Init, Typed
  <1>3. Resting
    BY DEF Init, Resting, Quiet, Empty
  <1> QED
    BY <1>2, <1>3 DEF DmaInv

(* Every cycle keeps it, whatever software does in it.                     *)
LEMMA StepDmaInv ==
  ASSUME OneCopy
  PROVE  DmaInv /\ [Next]_vars => DmaInv'
  <1> SUFFICES ASSUME DmaInv, [Next]_vars PROVE DmaInv'
    OBVIOUS
  <1>1. CASE UNCHANGED vars
    BY <1>1 DEF vars, software, DmaInv, Typed, Resting, Fresh, Working, Complete, Quiet, Empty,
       Counted, RestAligned, Ordered, Exact, Unsent, Sent, burst_req
  <1>2. CASE Next
    <2>1. PICK finished \in SUBSET Finishing :
            \/ \E t \in Transfers : Launch(t, finished)
            \/ Wait(finished) \/ Done(finished) \/ Tick(finished)
      BY <1>2 DEF Next
    <2>2. Typed
      BY DEF DmaInv
    <2>3. launched \in 0 .. 1 /\ waiting \in BOOLEAN
      BY <2>2 DEF Typed
    <2>4. ASSUME NEW t \in Transfers, Launch(t, finished)
          PROVE  DmaInv'
      <3>1. launched = 0
        BY <2>3, <2>4 DEF Launch, OneCopy
      <3>2. Quiet /\ Cycle({t}, finished) /\ launched' = 1 /\ waiting' \in BOOLEAN
        BY <3>1, <2>3, <2>4 DEF Launch, DmaInv, Resting, Fresh, Working, Complete
      <3>3. /\ Empty' /\ ~ dma_meta' /\ dma_meta' \in BOOLEAN
            /\ done_q' = trans_complete_d({t}) /\ done_q' \in BOOLEAN
            /\ spill' = <<t>> /\ owed' = Units(t)
            /\ num_trans_q' \in Nat /\ forked' \in SUBSET Ports /\ tie_off' \in SUBSET Ports
            /\ fifo' \in [Ports -> 0 .. TransFifoDepth] /\ port' \in [Ports -> Seq(Piece)]
        BY <2>2, <3>2, QuietStep
      <3>4. ~ done_q'
        BY <3>3 DEF trans_complete_d
      <3>5. Typed'
        BY <3>2, <3>3 DEF Typed
      <3>6. Fresh'
        BY <3>2, <3>3, <3>4 DEF Fresh, Units
      <3> QED
        BY <3>5, <3>6 DEF DmaInv
    <2>5. ASSUME Cycle({}, finished), launched = 1, launched' = 1, waiting' \in BOOLEAN
          PROVE  DmaInv'
      <3>1. CASE Fresh
        BY <3>1, <2>2, <2>5, FreshStep DEF DmaInv
      <3>2. CASE Working
        BY <3>2, <2>2, <2>5, WorkingStep DEF DmaInv
      <3>3. CASE Complete
        <4>1. Quiet
          BY <3>3 DEF Complete
        <4>2. /\ Empty' /\ ~ dma_meta' /\ dma_meta' \in BOOLEAN
              /\ done_q' = trans_complete_d({}) /\ done_q' \in BOOLEAN
              /\ spill' = <<>> /\ owed' = {}
              /\ num_trans_q' \in Nat /\ forked' \in SUBSET Ports /\ tie_off' \in SUBSET Ports
              /\ fifo' \in [Ports -> 0 .. TransFifoDepth] /\ port' \in [Ports -> Seq(Piece)]
          BY <4>1, <2>2, <2>5, QuietStep
        <4>3. done_q'
          <5>1. done_q \/ dma_meta
            BY <2>2, <3>3 DEF Typed, Complete
          <5> QED
            BY <5>1, <4>2 DEF trans_complete_d
        <4>4. dma_meta' # done_q'
          BY <4>2, <4>3, Zenon
        <4>5. Typed'
          BY <4>2, <2>5 DEF Typed
        <4>6. Complete'
          BY <4>2, <4>4, <2>5 DEF Complete, Quiet
        <4> QED
          BY <4>5, <4>6 DEF DmaInv
      <3> QED
        BY <3>1, <3>2, <3>3, <2>5 DEF DmaInv, Resting
    <2>6. ASSUME Cycle({}, finished), Quiet, launched' = 0, waiting' \in BOOLEAN, ~ waiting'
          PROVE  DmaInv'
      <3>1. /\ Empty' /\ ~ dma_meta' /\ dma_meta' \in BOOLEAN /\ done_q' \in BOOLEAN
            /\ spill' = <<>> /\ owed' = {}
            /\ num_trans_q' \in Nat /\ forked' \in SUBSET Ports /\ tie_off' \in SUBSET Ports
            /\ fifo' \in [Ports -> 0 .. TransFifoDepth] /\ port' \in [Ports -> Seq(Piece)]
        BY <2>2, <2>6, QuietStep
      <3>2. Typed'
        BY <3>1, <2>6 DEF Typed
      <3>3. Resting'
        BY <3>1, <2>6 DEF Resting, Quiet
      <3> QED
        BY <3>2, <3>3 DEF DmaInv
    <2>7. CASE Wait(finished)
      <3>1. launched = 1 /\ launched' = 1 /\ waiting' \in BOOLEAN /\ Cycle({}, finished)
        BY <2>3, <2>7 DEF Wait
      <3> QED
        BY <3>1, <2>5
    <2>8. CASE Done(finished)
      <3>1. /\ launched' = 0 /\ waiting' = FALSE /\ Cycle({}, finished) /\ Quiet
        BY <2>8 DEF Done, DmaInv, Resting, Fresh, Working, Complete
      <3> QED
        BY <3>1, <2>6
    <2>9. CASE Tick(finished)
      <3>1. launched' = launched /\ waiting' = waiting /\ Cycle({}, finished)
        BY <2>9 DEF Tick, software
      <3>2. CASE launched = 1
        BY <3>1, <3>2, <2>3, <2>5
      <3>3. CASE launched = 0
        <4>1. Quiet /\ ~ waiting
          BY <3>3 DEF DmaInv, Resting, Fresh, Working, Complete
        <4> QED
          BY <4>1, <3>1, <3>3, <2>3, <2>6
      <3> QED
        BY <3>2, <3>3, <2>3
    <2> QED
      BY <2>1, <2>4, <2>7, <2>8, <2>9
  <1> QED
    BY <1>1, <1>2

(* dma_wait returns only when the copy has been made, whatever the number  *)
(* of groups, the width of their regions, the copy and the speed of the    *)
(* engines: the count of pieces in idma_split_midend does not reach 0      *)
(* between two pieces, and a port without a slice does not report twice.   *)
THEOREM DmaDoneMeansDone ==
  ASSUME OneCopy
  PROVE  Spec => []DoneMeansDone
  <1>1. DmaInv => DoneMeansDone
    BY DEF DmaInv, DoneMeansDone, Resting, Fresh, Working, Complete, Quiet
  <1>2. DmaInv /\ [Next]_vars => DmaInv'
    BY StepDmaInv
  <1> QED
    BY <1>1, <1>2, InitDmaInv, PTL DEF Spec

-------------------------------------------------------------------------------
(* What the invariant says of single units.                                *)

(* The sets that Places counts.                                            *)
InSpill(u) == {k \in DOMAIN spill : u \in Units(spill[k])}
InRest(u) == {k \in DOMAIN req_q : u \in Units(req_q[k])}
InForked(u) == {i \in forked : Involved(burst_req[1], i) /\ u \in Units(Slice(burst_req[1], i))}
InPorts(u) == {p \in Ports \X (1 .. PortDepth) :
                 p[2] <= Len(port[p[1]]) /\ u \in Units(port[p[1]][p[2]])}

(* The sizes of the empty set and of singletons.                           *)
LEMMA Sizes01 == Cardinality({}) = 0 /\ \A x : Cardinality({x}) = 1
  BY FS_EmptySet, FS_Singleton

(* The places of a unit of a copy under way.                               *)
LEMMA PlacesWorking ==
  ASSUME Typed, Working, NEW u \in owed
  PROVE  Places(u) = 1
  <1>1. Places(u) = Cardinality(InSpill(u)) + Cardinality(InRest(u))
                     - Cardinality(InForked(u)) + Cardinality(InPorts(u))
    BY DEF Places, InSpill, InRest, InForked, InPorts
  <1>2. InSpill(u) = {}
    BY DEF Working, InSpill
  <1>3. Ordered
    BY DEF Working
  <1>4. Unsent(u) \/ Sent(u)
    BY DEF Working, Exact
  <1>5. ASSUME req_q # <<>>
        PROVE  /\ DOMAIN req_q = {1} /\ InRow(burst_req[1])
               /\ \A v : v \in Units(burst_req[1]) => v \in Units(req_q[1])
    <2>1. req_q = <<req_q[1]>>
      BY <1>5, RestFacts
    <2> QED
      BY <2>1, <1>5, RestFacts
  <1>6. \A i \in Ports : port[i] \in Seq(Piece) /\ Len(port[i]) <= PortDepth
    BY <1>3 DEF Typed, Ordered
  <1>7. CASE Unsent(u)
    <2>1. req_q # <<>> /\ u \in Units(req_q[1])
      BY <1>7 DEF Unsent
    <2>2. InRest(u) = {1}
      BY <2>1, <1>5 DEF InRest
    <2>3. InForked(u) = {}
      BY <1>7 DEF Unsent, InForked
    <2>4. InPorts(u) = {}
      <3>1. ASSUME NEW p \in Ports \X (1 .. PortDepth), p[2] <= Len(port[p[1]])
            PROVE  u \notin Units(port[p[1]][p[2]])
        <4>1. p[1] \in Ports /\ p[2] \in 1 .. PortDepth
          OBVIOUS
        <4>2. p[2] \in DOMAIN port[p[1]]
          BY <4>1, <3>1, <1>6, Sizes
        <4> QED
          BY <4>1, <4>2, <1>7, UnsentNotSent
      <3> QED
        BY <3>1 DEF InPorts
    <2> QED
      <3>1. /\ Cardinality(InSpill(u)) = 0 /\ Cardinality(InRest(u)) = 1
            /\ Cardinality(InForked(u)) = 0 /\ Cardinality(InPorts(u)) = 0
        BY <2>2, <2>3, <2>4, <1>2, Sizes01, Zenon
      <3> QED
        BY <3>1, <1>1
  <1>8. CASE Sent(u)
    <2>1. PICK i \in Ports : \E k \in DOMAIN port[i] : u \in Units(port[i][k])
      BY <1>8 DEF Sent
    <2>2. PICK k \in DOMAIN port[i] : u \in Units(port[i][k])
      BY <2>1
    <2>3. k \in 1 .. Len(port[i]) /\ Len(port[i]) \in Nat /\ k \in 1 .. PortDepth
      BY <1>6, Sizes
    <2>4. InPorts(u) = {<<i, k>>}
      <3>1. <<i, k>> \in InPorts(u)
        BY <2>2, <2>3 DEF InPorts
      <3>2. ASSUME NEW p \in InPorts(u)
            PROVE  p = <<i, k>>
        <4>1. /\ p[1] \in Ports /\ p[2] \in 1 .. PortDepth /\ p = <<p[1], p[2]>>
              /\ p[2] <= Len(port[p[1]]) /\ u \in Units(port[p[1]][p[2]])
          BY DEF InPorts
        <4>2. p[2] \in DOMAIN port[p[1]]
          BY <4>1, <1>6, Sizes
        <4>3. p[1] = i /\ p[2] = k
          BY <4>1, <4>2, <2>2, <1>3, PortsApart
        <4> QED
          BY <4>1, <4>3
      <3> QED
        BY <3>1, <3>2
    <2>5. ~ Unsent(u)
      BY <2>2, UnsentNotSent
    <2>6. CASE req_q # <<>> /\ u \in Units(req_q[1])
      <3>1. InRest(u) = {1}
        BY <2>6, <1>5 DEF InRest
      <3>2. PICK j \in forked : Involved(burst_req[1], j) /\ u \in Units(Slice(burst_req[1], j))
        BY <2>5, <2>6 DEF Unsent
      <3>3. InForked(u) = {j}
        <4>1. ASSUME NEW l \in InForked(u)
              PROVE  l = Home(L1Side(u))
          <5>1. /\ l \in Ports /\ Involved(burst_req[1], l)
                /\ u \in Units(Slice(burst_req[1], l))
            BY DEF InForked, Typed
          <5> QED
            BY <5>1, <1>5, <2>6, SliceUnits
        <4>2. j \in InForked(u)
          BY <3>2 DEF InForked
        <4> QED
          BY <4>1, <4>2
      <3> QED
        <4>1. /\ Cardinality(InSpill(u)) = 0 /\ Cardinality(InRest(u)) = 1
              /\ Cardinality(InForked(u)) = 1 /\ Cardinality(InPorts(u)) = 1
          BY <3>1, <3>3, <2>4, <1>2, Sizes01, Zenon
        <4> QED
          BY <4>1, <1>1
    <2>7. CASE ~ (req_q # <<>> /\ u \in Units(req_q[1]))
      <3>1. InRest(u) = {}
        <4>1. CASE req_q = <<>>
          BY <4>1 DEF InRest
        <4>2. CASE req_q # <<>>
          BY <4>2, <2>7, <1>5 DEF InRest
        <4> QED
          BY <4>1, <4>2
      <3>2. InForked(u) = {}
        <4>1. CASE req_q = <<>>
          BY <4>1 DEF InForked, Working, RestAligned
        <4>2. CASE req_q # <<>>
          <5>1. ASSUME NEW l \in forked, Involved(burst_req[1], l)
                PROVE  u \notin Units(Slice(burst_req[1], l))
            <6>1. l \in Ports
              BY DEF Typed
            <6> QED
              BY <6>1, <5>1, <4>2, <2>7, <1>5, SliceUnits
          <5> QED
            BY <5>1 DEF InForked
        <4> QED
          BY <4>1, <4>2
      <3> QED
        <4>1. /\ Cardinality(InSpill(u)) = 0 /\ Cardinality(InRest(u)) = 0
              /\ Cardinality(InForked(u)) = 0 /\ Cardinality(InPorts(u)) = 1
          BY <3>1, <3>2, <2>4, <1>2, Sizes01, Zenon
        <4> QED
          BY <4>1, <1>1
    <2> QED
      BY <2>6, <2>7
  <1> QED
    BY <1>4, <1>7, <1>8

(* Every unit owed is in one place, and with the engine of its own group.  *)
LEMMA PiecesOfInv == DmaInv => PiecesExact
  <1> SUFFICES ASSUME DmaInv PROVE PiecesExact
    OBVIOUS
  <1>1. CASE Quiet
    <2>1. \A i \in Ports : DOMAIN port[i] = {}
      BY <1>1 DEF Quiet, Empty
    <2> QED
      BY <2>1, <1>1 DEF PiecesExact, Quiet
  <1>2. CASE Fresh
    <2>1. \A i \in Ports : port[i] = <<>> /\ DOMAIN port[i] = {} /\ Len(port[i]) = 0
      BY <1>2 DEF Fresh, Empty
    <2>2. ASSUME NEW u \in owed
          PROVE  Places(u) = 1
      <3>1. Places(u) = Cardinality(InSpill(u)) + Cardinality(InRest(u))
                         - Cardinality(InForked(u)) + Cardinality(InPorts(u))
        BY DEF Places, InSpill, InRest, InForked, InPorts
      <3>2. PICK t \in Transfers : spill = <<t>> /\ owed = Units(t)
        BY <1>2 DEF Fresh
      <3>3. InSpill(u) = {1}
        BY <3>2 DEF InSpill
      <3>4. InRest(u) = {} /\ InForked(u) = {}
        BY <1>2 DEF Fresh, Empty, InRest, InForked
      <3>5. InPorts(u) = {}
        <4>1. ASSUME NEW p \in Ports \X (1 .. PortDepth)
              PROVE  ~ (p[2] <= Len(port[p[1]]))
          <5>1. p[1] \in Ports /\ p[2] \in 1 .. PortDepth
            OBVIOUS
          <5> QED
            BY <5>1, <2>1, Sizes
        <4> QED
          BY <4>1 DEF InPorts
      <3> QED
        <4>1. /\ Cardinality(InSpill(u)) = 1 /\ Cardinality(InRest(u)) = 0
              /\ Cardinality(InForked(u)) = 0 /\ Cardinality(InPorts(u)) = 0
          BY <3>3, <3>4, <3>5, Sizes01, Zenon
        <4> QED
          BY <4>1, <3>1
    <2> QED
      BY <2>1, <2>2 DEF PiecesExact
  <1>3. CASE Working
    <2>1. Typed
      BY DEF DmaInv
    <2>2. \A u \in owed : Places(u) = 1
      BY <2>1, <1>3, PlacesWorking
    <2>3. ASSUME NEW i \in Ports, NEW k \in DOMAIN port[i], NEW u \in Units(port[i][k])
          PROVE  /\ u \in owed
                 /\ \A a \in {u[1], u[2]} : InL1(a) => (a % FullWidth) \div Width = i
      <3>1. u \in owed
        BY <1>3 DEF Working, Exact
      <3>2. Proper(port[i][k]) /\ Home(L1Side(u)) = i
        BY <1>3 DEF Working, Ordered
      <3>3. InL1(u[1]) <=> ~ InL1(u[2])
        BY <3>2, UnitSide
      <3> QED
        BY <3>1, <3>2, <3>3 DEF L1Side, Home
    <2> QED
      BY <2>2, <2>3 DEF PiecesExact
  <1> QED
    BY <1>1, <1>2, <1>3 DEF DmaInv, Resting, Complete

(* Splitting a copy at the rows and handing it out to the groups loses,    *)
(* repeats and misplaces nothing, for every copy and every configuration.  *)
THEOREM DmaPiecesExact ==
  ASSUME OneCopy
  PROVE  Spec => []PiecesExact
  <1>1. DmaInv /\ [Next]_vars => DmaInv'
    BY StepDmaInv
  <1> QED
    BY <1>1, PiecesOfInv, InitDmaInv, PTL DEF Spec
===============================================================================
