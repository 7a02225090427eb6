------------------------------ MODULE AllocProofs ------------------------------
(***************************************************************************)
(* Proofs about Alloc for every heap and all requests whose size does not  *)
(* wrap around.  The list is handled as the set of its blocks: which block *)
(* is first and which one follows another is then determined by addresses. *)
(***************************************************************************)
EXTENDS Alloc, WellFoundedInduction, TLAPS

(* domain_malloc adds the header to the requested size and rounds up in    *)
(* unsigned arithmetic; beyond this the sum wraps and the block is smaller *)
(* than the request.                                                       *)
NoWrap == \A n \in Sizes : n + 11 < 2^WordBits

Base == ALIGN_UP(HeapStart, MIN_BLOCK_SIZE)
Top == HeapEnd - (HeapEnd % MIN_BLOCK_SIZE)

-------------------------------------------------------------------------------
(* Induction and recursion.                                                *)

(* A set of numbers that is not empty has a least one.                     *)
LEMMA Least ==
  ASSUME NEW T \in SUBSET Nat, T # {}
  PROVE  \E x \in T : \A y \in T : x <= y
<1> DEFINE R == OpToRel(<, Nat)
<1>1. \A y, x \in Nat : y < x => <<y, x>> \in R
  BY DEF OpToRel
<1>2. IsWellFoundedOn(R, Nat)
  BY NatLessThanWellFounded
<1> HIDE DEF R
<1>3. PICK x \in T : \A y \in T : ~ (<<y, x>> \in R)
  BY <1>2, WFMin
<1>4. ASSUME NEW y \in T PROVE x <= y
  <2>1. x \in Nat /\ y \in Nat OBVIOUS
  <2>2. ~ (y < x) BY <2>1, <1>1, <1>3
  <2> QED BY <2>1, <2>2
<1> QED BY <1>4

(* Induction: a set with 0 and with the successor of its members is Nat.   *)
LEMMA Induction ==
  ASSUME NEW S, 0 \in S, \A n \in Nat : n \in S => n + 1 \in S
  PROVE  \A n \in Nat : n \in S
<1> DEFINE T == {n \in Nat : n \notin S}
<1> SUFFICES ASSUME T # {} PROVE FALSE
  OBVIOUS
<1>1. PICK x \in T : \A y \in T : x <= y
  BY Least
<1>2. x # 0 /\ x - 1 \in Nat /\ x - 1 \notin T
  BY <1>1
<1> QED BY <1>2

(* The functions that follow step from a for n steps.                      *)
Run(V, a, step, n) ==
  {g \in [0 .. n -> V] : g[0] = a /\ \A k \in 0 .. n - 1 : g[k + 1] = step[g[k]]}

(* There is a run of step from a of every length.                          *)
LEMMA RunExists ==
  ASSUME NEW V, NEW a \in V, NEW step \in [V -> V]
  PROVE  \A n \in Nat : Run(V, a, step, n) # {}
<1> DEFINE S == {n \in Nat : Run(V, a, step, n) # {}}
<1>1. 0 \in S
  <2> DEFINE g == [k \in 0 .. 0 |-> a]
  <2> g \in Run(V, a, step, 0)
    BY DEF Run
  <2> QED OBVIOUS
<1>2. ASSUME NEW n \in Nat, n \in S PROVE n + 1 \in S
  <2>1. PICK g : g \in Run(V, a, step, n)
    BY <1>2
  <2> DEFINE h == [k \in 0 .. n + 1 |-> IF k <= n THEN g[k] ELSE step[g[n]]]
  <2>2. g \in [0 .. n -> V] /\ g[0] = a /\ \A k \in 0 .. n - 1 : g[k + 1] = step[g[k]]
    BY <2>1 DEF Run
  <2>3. h \in [0 .. n + 1 -> V] /\ h[0] = a
    BY <2>2
  <2>4. ASSUME NEW k \in 0 .. n PROVE h[k + 1] = step[h[k]]
    <3>1. CASE k = n BY <3>1, <2>2
    <3>2. CASE k # n
      <4>1. k \in 0 .. n - 1 /\ k + 1 <= n /\ k + 1 \in 0 .. n + 1 /\ k \in 0 .. n + 1 BY <3>2
      <4> QED BY <4>1, <2>2
    <3> QED BY <3>1, <3>2
  <2> HIDE DEF h
  <2>5. h \in Run(V, a, step, n + 1)
    <3>1. (n + 1) - 1 = n OBVIOUS
    <3> QED BY <2>3, <2>4, <3>1 DEF Run
  <2> QED BY <2>5
<1> HIDE DEF S
<1>3. \A n \in Nat : n \in S BY <1>1, <1>2, Induction
<1> QED BY <1>3 DEF S

(* Two runs agree as far as both go.                                       *)
LEMMA RunUnique ==
  ASSUME NEW V, NEW a \in V, NEW step \in [V -> V], NEW n \in Nat, NEW m \in Nat,
         NEW g \in Run(V, a, step, n), NEW h \in Run(V, a, step, m)
  PROVE  \A k \in Nat : k <= n /\ k <= m => g[k] = h[k]
<1> DEFINE S == {k \in Nat : k <= n /\ k <= m => g[k] = h[k]}
<1>1. 0 \in S
  BY DEF Run
<1>2. ASSUME NEW k \in Nat, k \in S PROVE k + 1 \in S
  <2> SUFFICES ASSUME k + 1 <= n, k + 1 <= m PROVE g[k + 1] = h[k + 1]
    OBVIOUS
  <2> k \in 0 .. n - 1 /\ k \in 0 .. m - 1 OBVIOUS
  <2>1. g[k] = h[k] BY <1>2
  <2> QED BY <2>1 DEF Run
<1> HIDE DEF S
<1>3. \A k \in Nat : k \in S BY <1>1, <1>2, Induction
<1> QED BY <1>3 DEF S

(* A function on the numbers may be defined by its first value and a step. *)
LEMMA Recursion ==
  ASSUME NEW V, NEW a \in V, NEW step \in [V -> V]
  PROVE  \E g \in [Nat -> V] : g[0] = a /\ \A k \in Nat : g[k + 1] = step[g[k]]
<1> DEFINE r(n) == CHOOSE h : h \in Run(V, a, step, n)
           g == [n \in Nat |-> r(n)[n]]
<1>1. \A n \in Nat : r(n) \in Run(V, a, step, n)
  BY RunExists
<1> HIDE DEF r
<1>2. g \in [Nat -> V] /\ g[0] = a
  BY <1>1 DEF Run
<1>3. ASSUME NEW k \in Nat PROVE g[k + 1] = step[g[k]]
  <2>1. r(k + 1) \in Run(V, a, step, k + 1) /\ r(k) \in Run(V, a, step, k)
    BY <1>1
  <2>2. r(k + 1)[k] = r(k)[k]
    BY <2>1, RunUnique
  <2>3. k \in 0 .. (k + 1) - 1 OBVIOUS
  <2>4. r(k + 1)[k + 1] = step[r(k + 1)[k]]
    BY <2>1, <2>3 DEF Run
  <2> QED BY <2>2, <2>4
<1> HIDE DEF g
<1> QED BY <1>2, <1>3
-------------------------------------------------------------------------------
(* Sizes and addresses.                                                    *)

(* Unsigned arithmetic that does not wrap.                                 *)
LEMMA UIntSmall ==
  ASSUME NEW x \in Nat, x < 2^WordBits
  PROVE  UInt(x) = x
  BY WordAssumption DEF UInt

(* ALIGN_UP of a number that leaves room for the rounding.                 *)
LEMMA AlignUp ==
  ASSUME NEW x \in Nat, x + 7 < 2^WordBits
  PROVE  /\ ALIGN_UP(x, 8) \in Nat /\ ALIGN_UP(x, 8) % 8 = 0
         /\ x <= ALIGN_UP(x, 8) /\ ALIGN_UP(x, 8) < x + 8
<1> DEFINE y == x + 8 - 1
<1>1. y \in Nat /\ y = x + 7 /\ y < 2^WordBits OBVIOUS
<1>2. UInt(y) = y BY <1>1, UIntSmall
<1>3. y - (y % 8) \in Nat /\ y - (y % 8) < 2^WordBits
  BY <1>1, WordAssumption
<1>4. ALIGN_UP(x, 8) = y - (y % 8)
  BY <1>2, <1>3, UIntSmall DEF ALIGN_UP
<1> QED BY <1>1, <1>4

(* The aligned bounds of the heap.                                         *)
LEMMA HeapFacts ==
  /\ HeapStart \in Nat /\ HeapStart > 0 /\ HeapEnd \in Nat /\ HeapEnd < 2^WordBits
  /\ HeapStart % 4 = 0
  /\ Base \in Nat /\ Base % 8 = 0 /\ HeapStart <= Base /\ Base < HeapStart + 8
  /\ Top \in Nat /\ Top % 8 = 0 /\ Top <= HeapEnd /\ HeapEnd < Top + 8
  /\ Base + 8 <= Top
<1>1. HeapStart \in Nat /\ HeapStart > 0 /\ HeapEnd \in Nat /\ HeapEnd < 2^WordBits
      /\ HeapStart % 4 = 0 /\ HeapEnd - HeapStart >= 16
  BY HeapAssumption DEF MIN_BLOCK_SIZE
<1>2. HeapStart + 7 < 2^WordBits
  BY <1>1, WordAssumption
<1>3. Base \in Nat /\ Base % 8 = 0 /\ HeapStart <= Base /\ Base < HeapStart + 8
  BY <1>1, <1>2, AlignUp DEF Base, MIN_BLOCK_SIZE
<1>4. Top \in Nat /\ Top % 8 = 0 /\ Top <= HeapEnd /\ HeapEnd < Top + 8
  BY <1>1 DEF Top, MIN_BLOCK_SIZE
<1> QED BY <1>1, <1>3, <1>4

(* A block has room for the data and its header, and not more than needed. *)
LEMMA BlockSize ==
  ASSUME NoWrap, NEW n \in Sizes
  PROVE  /\ n \in Nat /\ block_size(n) \in Nat /\ block_size(n) % 8 = 0
         /\ block_size(n) >= n + 4 /\ block_size(n) < n + 12 /\ block_size(n) >= 8
<1>1. n \in Nat /\ n + 4 \in Nat /\ (n + 4) + 7 < 2^WordBits
  BY WordAssumption DEF NoWrap
<1>2. UInt(n + 4) = n + 4
  BY <1>1, WordAssumption, UIntSmall
<1>3. block_size(n) = ALIGN_UP(n + 4, 8)
  BY <1>2 DEF block_size, MIN_BLOCK_SIZE
<1>4. /\ block_size(n) \in Nat /\ block_size(n) % 8 = 0
      /\ n + 4 <= block_size(n) /\ block_size(n) < n + 4 + 8
  BY <1>1, <1>3, AlignUp
<1> QED BY <1>1, <1>4

(* An aligned address with room for a block above it.                      *)
LEMMA BlockAddress ==
  ASSUME NEW x \in Nat, x % 8 = 0, Base <= x, x + 8 <= Top
  PROVE  x \in Blocks /\ x \in Words /\ x + 4 \in Words
  BY HeapFacts DEF Blocks, Words, MIN_BLOCK_SIZE

(* A block has a word for its size and one for its next.                   *)
LEMMA BlockFacts ==
  ASSUME NEW x \in Blocks
  PROVE  /\ x \in Nat /\ x % 8 = 0 /\ x >= 8 /\ x < HeapEnd
         /\ x \in Words /\ x + 4 \in Words /\ x # NULL
  BY HeapFacts DEF Blocks, Words, MIN_BLOCK_SIZE, NULL

-------------------------------------------------------------------------------
(* The list as a set of blocks.  n is the block of F that follows address  *)
(* x, or NULL when there is none.                                          *)
Follows(F, x, n) ==
  \/ n = NULL /\ \A g \in F : g <= x
  \/ n \in F /\ x < n /\ \A g \in F : g <= x \/ n <= g

FreeList(F) ==
  /\ F \subseteq Blocks
  /\ Follows(F, 0, first_block)
  /\ \A f \in F : Follows(F, f, mem[f + 4])

(* Nth follows the list.                                                   *)
LEMMA NthEquation ==
  ASSUME NEW F, FreeList(F)
  PROVE  /\ Nth \in [Nat -> F \cup {NULL}] /\ Nth[0] = first_block
         /\ \A k \in Nat : Nth[k + 1] = IF Nth[k] = NULL THEN NULL ELSE mem[Nth[k] + 4]
<1> DEFINE V == F \cup {NULL}
           step == [v \in V |-> IF v = NULL THEN NULL ELSE mem[v + 4]]
           E(N) == N = [i \in Nat |-> IF i = 0 THEN first_block
                          ELSE IF N[i - 1] = NULL THEN NULL ELSE NextOf(mem, N[i - 1])]
<1>1. first_block \in V /\ step \in [V -> V]
  BY DEF FreeList, Follows
<1>2. PICK g \in [Nat -> V] : g[0] = first_block /\ \A k \in Nat : g[k + 1] = step[g[k]]
  <2> HIDE DEF V, step
  <2> QED BY <1>1, Recursion
<1>3. E(g)
  <2>1. ASSUME NEW i \in Nat, i # 0
        PROVE  g[i] = IF g[i - 1] = NULL THEN NULL ELSE mem[g[i - 1] + 4]
    <3>1. i - 1 \in Nat /\ (i - 1) + 1 = i /\ g[i - 1] \in V
      BY <2>1, <1>2
    <3>2. g[i] = step[g[i - 1]]
      BY <3>1, <1>2
    <3> QED BY <3>1, <3>2
  <2> QED BY <1>2, <2>1 DEF NextOf
<1>4. Nth = CHOOSE N : E(N)
  BY DEF Nth
<1> HIDE DEF E
<1>5. E(Nth)
  BY <1>3, <1>4
<1>6. Nth = [i \in Nat |-> IF i = 0 THEN first_block
               ELSE IF Nth[i - 1] = NULL THEN NULL ELSE mem[Nth[i - 1] + 4]]
  BY <1>5 DEF E, NextOf
<1> HIDE DEF V
<1>7. Nth[0] = first_block
  BY <1>6
<1>8. ASSUME NEW k \in Nat
      PROVE  Nth[k + 1] = IF Nth[k] = NULL THEN NULL ELSE mem[Nth[k] + 4]
  <2>1. k + 1 \in Nat /\ k + 1 # 0 /\ (k + 1) - 1 = k
    OBVIOUS
  <2> QED BY <1>6, <2>1
<1>9. \A k \in Nat : Nth[k] \in V
  <2> DEFINE S == {k \in Nat : Nth[k] \in V}
  <2>1. 0 \in S BY <1>1, <1>7
  <2>2. ASSUME NEW k \in Nat, k \in S PROVE k + 1 \in S
    BY <1>1, <1>8, <2>2 DEF V
  <2> HIDE DEF S
  <2>3. \A k \in Nat : k \in S BY <2>1, <2>2, Induction
  <2> QED BY <2>3 DEF S
<1>10. Nth \in [Nat -> V]
  BY <1>6, <1>9
<1> QED BY <1>7, <1>8, <1>10 DEF V
(* Blocks of the list are at least a block apart: the n-th is not below    *)
(* address 8 (n + 1), and the list ends.                                   *)
LEMMA NthBound ==
  ASSUME NEW F, FreeList(F)
  PROVE  \A n \in Nat : Nth[n] # NULL => Nth[n] >= 8 * (n + 1)
<1> DEFINE S == {n \in Nat : Nth[n] # NULL => Nth[n] >= 8 * (n + 1)}
<1>1. F \subseteq Blocks BY DEF FreeList
<1>2. 0 \in S
  BY <1>1, NthEquation, BlockFacts
<1>3. ASSUME NEW n \in Nat, n \in S PROVE n + 1 \in S
  <2> SUFFICES ASSUME Nth[n + 1] # NULL PROVE Nth[n + 1] >= 8 * (n + 2)
    OBVIOUS
  <2>1. Nth[n] # NULL /\ Nth[n] \in F /\ Nth[n + 1] \in F /\ Nth[n + 1] = mem[Nth[n] + 4]
    BY NthEquation
  <2>2. Nth[n] < Nth[n + 1]
    BY <2>1 DEF FreeList, Follows
  <2>3. Nth[n] \in Nat /\ Nth[n + 1] \in Nat /\ Nth[n] % 8 = 0 /\ Nth[n + 1] % 8 = 0
    BY <1>1, <2>1, BlockFacts
  <2>4. Nth[n] >= 8 * (n + 1) BY <1>3, <2>1
  <2> HIDE DEF S
  <2> QED BY <2>2, <2>3, <2>4
<1> HIDE DEF S
<1>4. \A n \in Nat : n \in S BY <1>2, <1>3, Induction
<1> QED BY <1>4 DEF S

(* The list ends within the number of blocks that fit below HeapEnd.       *)
LEMMA NthEnds ==
  ASSUME NEW F, FreeList(F), NEW n \in Nat, n > HeapEnd \div MIN_BLOCK_SIZE
  PROVE  Nth[n] = NULL
<1> SUFFICES ASSUME Nth[n] # NULL PROVE FALSE
  OBVIOUS
<1>1. Nth[n] >= 8 * (n + 1) BY NthBound
<1>2. Nth[n] \in Nat /\ Nth[n] < HeapEnd
  BY NthEquation, BlockFacts DEF FreeList
<1>3. HeapEnd \in Nat /\ 8 * (HeapEnd \div 8) + 8 > HeapEnd
  BY HeapFacts
<1> QED BY <1>1, <1>2, <1>3 DEF MIN_BLOCK_SIZE

(* The blocks that Nth reaches are those of F.                             *)
LEMMA FreeBlocksAre ==
  ASSUME NEW F, FreeList(F)
  PROVE  FreeBlocks = F
<1> DEFINE q == HeapEnd \div MIN_BLOCK_SIZE
<1>0. F \subseteq Blocks /\ \A f \in F : f \in Nat /\ f > 0 /\ f # NULL
  BY BlockFacts DEF FreeList
<1>1. q \in Nat BY HeapFacts DEF MIN_BLOCK_SIZE
<1>2. ASSUME NEW f \in F PROVE \E n \in 0 .. q : Nth[n] = f
  <2> SUFFICES ASSUME \A n \in 0 .. q : Nth[n] # f PROVE FALSE
    OBVIOUS
  <2> DEFINE S == {n \in Nat : Nth[n] \in F /\ Nth[n] < f}
  <2>1. \A n \in Nat : Nth[n] # f
    <3>1. \A n \in Nat : n \in 0 .. q \/ n > q BY <1>1
    <3> HIDE DEF q
    <3>2. \A n \in Nat : n > q => Nth[n] = NULL BY NthEnds DEF q
    <3> QED BY <3>1, <3>2, <1>0
  <2>2. 0 \in S
    BY <2>1, <1>0, NthEquation DEF FreeList, Follows
  <2>3. ASSUME NEW n \in Nat, n \in S PROVE n + 1 \in S
    <3>1. Nth[n] \in F /\ Nth[n] < f BY <2>3
    <3>2. Follows(F, Nth[n], Nth[n + 1])
      BY <3>1, <1>0, NthEquation DEF FreeList
    <3>3. Nth[n + 1] # f /\ f \in Nat /\ Nth[n] \in Nat BY <2>1, <1>0, <3>1
    <3>4. Nth[n + 1] \in F /\ Nth[n + 1] <= f
      BY <3>1, <3>2, <3>3, <1>0 DEF Follows
    <3>5. Nth[n + 1] \in Nat BY <3>4, <1>0
    <3>6. Nth[n + 1] < f BY <3>3, <3>4, <3>5
    <3> QED BY <3>4, <3>6
  <2> HIDE DEF S
  <2>4. \A n \in Nat : n \in S BY <2>2, <2>3, Induction
  <2>5. q + 1 \in S BY <2>4, <1>1
  <2>6. Nth[q + 1] = NULL BY <1>1, NthEnds
  <2> QED BY <2>5, <2>6, <1>0 DEF S
<1>3. \A n \in 0 .. q : Nth[n] \in F \cup {NULL}
  BY <1>1, NthEquation
<1> HIDE DEF q
<1>4. FreeBlocks = {Nth[n] : n \in 0 .. q} \ {NULL}
  BY DEF FreeBlocks, q
<1> QED BY <1>0, <1>2, <1>3, <1>4

(* The address from which the i-th block is reached.                       *)
Before(i) == IF i = 0 THEN 0 ELSE Nth[i - 1]

(* What the search for a block of stops finds: the lowest one, and the     *)
(* block before it.                                                        *)
LEMMA Search ==
  ASSUME NEW F, FreeList(F), NEW stops, NEW i, i = Skipped(stops)
  PROVE  /\ i \in Nat /\ Nth[i] \in F \cup {NULL} /\ (i = 0 => Nth[i] = first_block)
         /\ i > 0 => i - 1 \in Nat /\ Nth[i - 1] \in F \ stops
         /\ Follows(F, Before(i), Nth[i])
         /\ Nth[i] # NULL => Nth[i] \in stops
         /\ \A g \in F \cap stops : Nth[i] # NULL /\ Nth[i] <= g
<1> DEFINE stop == stops \cup {NULL}
           T == {n \in 0 .. HeapEnd : Nth[n] \in stop}
           P(n) == /\ Nth[n] \in stops \cup {NULL}
                   /\ \A j \in 0 .. n - 1 : Nth[j] \notin stops \cup {NULL}
<1>0. F \subseteq Blocks /\ \A f \in F : f \in Nat /\ f > 0 /\ f # NULL
  BY BlockFacts DEF FreeList
<1>1. \E n \in 0 .. HeapEnd : P(n)
  <2>1. HeapEnd \in Nat /\ HeapEnd > HeapEnd \div 8
    BY HeapFacts
  <2>2. HeapEnd \in T
    BY <2>1, NthEnds DEF MIN_BLOCK_SIZE
  <2>3. T \in SUBSET Nat /\ T # {} BY <2>1, <2>2
  <2> HIDE DEF T
  <2>4. PICK n \in T : \A y \in T : n <= y
    BY <2>3, Least
  <2>5. n \in 0 .. HeapEnd /\ Nth[n] \in stop
    BY DEF T
  <2>6. ASSUME NEW j \in 0 .. n - 1 PROVE Nth[j] \notin stop
    <3>1. j \in 0 .. HeapEnd /\ j < n BY <2>1, <2>5
    <3>2. j \notin T BY <2>4, <2>5, <3>1, <2>3
    <3> QED BY <3>1, <3>2 DEF T
  <2> QED BY <2>5, <2>6
<1>2. i = CHOOSE n \in 0 .. HeapEnd : P(n)
  BY DEF Skipped
<1>3. i \in 0 .. HeapEnd /\ P(i)
  <2> HIDE DEF P
  <2> QED BY <1>1, <1>2
<1>4. i \in Nat BY <1>3, HeapFacts
<1>5. /\ Nth[i] \in F \cup {NULL} /\ (i = 0 => Nth[i] = first_block)
      /\ Nth[i] # NULL => Nth[i] \in stops
  BY <1>3, <1>4, NthEquation
<1>6. ASSUME i > 0
      PROVE  /\ i - 1 \in Nat /\ Nth[i - 1] \in F \ stops
             /\ Follows(F, Nth[i - 1], Nth[i])
  <2>1. i - 1 \in Nat /\ i - 1 \in 0 .. i - 1 /\ (i - 1) + 1 = i BY <1>4, <1>6
  <2>2. Nth[i - 1] \notin stops /\ Nth[i - 1] # NULL BY <2>1, <1>3
  <2>3. Nth[i - 1] \in F BY <2>1, <2>2, NthEquation
  <2>4. Nth[i] = mem[Nth[i - 1] + 4] BY <2>1, <2>2, NthEquation
  <2> QED BY <2>1, <2>2, <2>3, <2>4 DEF FreeList
<1>7. Follows(F, Before(i), Nth[i])
  BY <1>4, <1>5, <1>6 DEF Before, FreeList
<1>8. ASSUME NEW g \in F \cap stops PROVE Nth[i] # NULL /\ Nth[i] <= g
  <2> DEFINE S == {n \in Nat : n <= i => Nth[n] \in F /\ Nth[n] <= g}
  <2>1. 0 \in S
    BY <1>0, NthEquation DEF FreeList, Follows
  <2>2. ASSUME NEW n \in Nat, n \in S PROVE n + 1 \in S
    <3> SUFFICES ASSUME n + 1 <= i PROVE Nth[n + 1] \in F /\ Nth[n + 1] <= g
      OBVIOUS
    <3>1. n <= i /\ n \in 0 .. i - 1 BY <1>4
    <3>2. Nth[n] \in F /\ Nth[n] <= g BY <2>2, <3>1
    <3>3. Nth[n] \notin stops BY <1>3, <3>1
    <3>4. Follows(F, Nth[n], Nth[n + 1])
      BY <3>2, <1>0, NthEquation DEF FreeList
    <3>5. Nth[n] < g BY <3>2, <3>3, <1>0
    <3> HIDE DEF S
    <3> QED BY <3>2, <3>4, <3>5, <1>0 DEF Follows
  <2> HIDE DEF S
  <2>3. \A n \in Nat : n \in S BY <2>1, <2>2, Induction
  <2>4. i \in S /\ i <= i BY <2>3, <1>4
  <2> QED BY <2>4, <1>0 DEF S
<1> QED BY <1>4, <1>5, <1>6, <1>7, <1>8
(* Block x is taken out of the list, between p and n.                      *)
LEMMA Unlink ==
  ASSUME NEW F, \A f \in F : f \in Nat /\ f > 0, NEW x \in F, NEW p \in F \cup {0}, NEW n,
         Follows(F, p, x), Follows(F, x, n)
  PROVE  /\ Follows(F \ {x}, p, n)
         /\ \A f \in F \ {x} : \A y : f # p /\ Follows(F, f, y) => Follows(F \ {x}, f, y)
         /\ \A y : p # 0 /\ Follows(F, 0, y) => Follows(F \ {x}, 0, y)
<1>1. x \in Nat /\ x > 0 /\ p \in Nat /\ p < x
  BY DEF Follows, NULL
<1>2. Follows(F \ {x}, p, n)
  <2>1. \A g \in F : g <= p \/ x <= g BY <1>1 DEF Follows, NULL
  <2>2. CASE n = NULL /\ \A g \in F : g <= x
    BY <1>1, <2>1, <2>2 DEF Follows
  <2>3. CASE n \in F /\ x < n /\ \A g \in F : g <= x \/ n <= g
    <3>1. n \in Nat /\ n \in F \ {x} /\ p < n BY <1>1, <2>3
    <3>2. \A g \in F \ {x} : g <= p \/ n <= g BY <1>1, <2>1, <2>3
    <3> QED BY <3>1, <3>2 DEF Follows
  <2> QED BY <2>2, <2>3 DEF Follows
<1>3. ASSUME NEW f \in (F \ {x}) \cup {0}, f # p, NEW y, Follows(F, f, y)
      PROVE  Follows(F \ {x}, f, y)
  <2>1. f \in Nat BY <1>1
  <2>2. y # x
    BY <1>1, <1>3, <2>1 DEF Follows, NULL
  <2> QED BY <1>1, <1>3, <2>1, <2>2 DEF Follows, NULL
<1> QED BY <1>2, <1>3

(* Block x is put into the list, between p and n.                          *)
LEMMA Link ==
  ASSUME NEW F, \A f \in F : f \in Nat /\ f > 0, NEW x \in Nat, NEW p \in F \cup {0}, NEW n,
         Follows(F, p, n), p < x, n # NULL => x < n
  PROVE  /\ Follows(F \cup {x}, p, x) /\ Follows(F \cup {x}, x, n)
         /\ \A f \in F : \A y : f # p /\ Follows(F, f, y) => Follows(F \cup {x}, f, y)
         /\ \A y : p # 0 /\ Follows(F, 0, y) => Follows(F \cup {x}, 0, y)
<1>1. p \in Nat /\ (n # NULL => n \in F /\ n \in Nat)
  BY DEF Follows, NULL
<1>2. Follows(F \cup {x}, p, x) /\ Follows(F \cup {x}, x, n)
  BY <1>1 DEF Follows, NULL
<1>3. ASSUME NEW f \in F \cup {0}, f # p, NEW y, Follows(F, f, y)
      PROVE  Follows(F \cup {x}, f, y)
  <2>1. f \in Nat BY <1>1
  <2>2. CASE f < p
    <3>0. p \in F BY <2>1, <2>2
    <3>1. ~ (p <= f) BY <2>1, <2>2, <1>1
    <3>2. y \in F /\ f < y /\ y <= p
      BY <3>0, <3>1, <1>3 DEF Follows
    <3>3. y \in Nat BY <3>2
    <3> QED BY <3>2, <3>3, <2>1, <1>1, <1>3 DEF Follows, NULL
  <2>3. CASE p < f
    <3>1. n # NULL /\ n <= f
      BY <2>1, <2>3, <1>1, <1>3 DEF Follows, NULL
    <3> QED BY <3>1, <2>1, <1>1, <1>3 DEF Follows, NULL
  <2> QED BY <2>1, <2>2, <2>3, <1>1, <1>3
<1> QED BY <1>2, <1>3

-------------------------------------------------------------------------------
(* The inductive invariant.  A block in use is at Lo(b) .. Hi(b) - 1.      *)
Used == live \cup leaked
Lo(b) == b.ptr - 4
Hi(b) == b.ptr - 4 + block_size(b.size)

(* Free blocks are in order and do not touch: they have been joined.       *)
FreeShape(F) ==
  /\ \A f \in F : mem[f] % 8 = 0 /\ mem[f] >= 8 /\ Base <= f /\ f + mem[f] <= Top
  /\ \A f, g \in F : f < g => f + mem[f] < g

UsedShape ==
  /\ \A b \in Used : /\ Lo(b) \in Nat /\ Lo(b) % 8 = 0 /\ Base <= Lo(b) /\ Hi(b) <= Top
                     /\ block_size(b.size) < MAX_BLOCK_SIZE
  /\ \A b, c \in Used : b # c => Hi(b) <= Lo(c) \/ Hi(c) <= Lo(b)
  /\ live \cap leaked = {}

Apart(F) == \A f \in F : \A b \in Used : f + mem[f] <= Lo(b) \/ Hi(b) <= f

Covered(F) ==
  \A x \in Base .. Top - 1 : \/ \E f \in F : f <= x /\ x < f + mem[f]
                             \/ \E b \in Used : Lo(b) <= x /\ x < Hi(b)

(* A header is as domain_malloc left it, or odd: overrun by a neighbour.   *)
Headers == \A b \in live : \/ mem[Lo(b)] = canary_encode(Lo(b), block_size(b.size))
                           \/ mem[Lo(b)] % 2 = 1

HeapInv(F) ==
  /\ TypeOK /\ UsedShape /\ Headers /\ DataIntact
  /\ FreeList(F) /\ FreeShape(F) /\ Apart(F) /\ Covered(F)

Inv == \E F : HeapInv(F)

(* The list read as memory.                                                *)
LEMMA WithBlockMem ==
  ASSUME NEW m, DOMAIN m = Words, NEW block, block \in Words, block + 4 \in Words, block \in Nat,
         NEW size, NEW next
  PROVE  /\ DOMAIN WithBlock(m, block, size, next) = Words
         /\ \A a \in Words : WithBlock(m, block, size, next)[a] =
              IF a = block THEN size ELSE IF a = block + 4 THEN next ELSE m[a]
  BY DEF WithBlock

(* What linking a block at place i of the list writes.                     *)
LEMMA LinkedMem ==
  ASSUME NEW m, DOMAIN m = Words, NEW i, i > 0 => Nth[i - 1] + 4 \in Words, NEW block
  PROVE  /\ DOMAIN Linked(m, i, block).mem = Words
         /\ Linked(m, i, block).first = IF i > 0 THEN first_block ELSE block
         /\ \A a \in Words : Linked(m, i, block).mem[a] =
              IF i > 0 /\ a = Nth[i - 1] + 4 THEN block ELSE m[a]
  BY DEF Linked

(* The free blocks are aligned and within the heap.                        *)
LEMMA FreeFacts ==
  ASSUME NEW F, HeapInv(F)
  PROVE  /\ F \subseteq Blocks
         /\ \A f \in F : /\ f \in Nat /\ f % 8 = 0 /\ f > 0 /\ f # NULL /\ f \in Words /\ f + 4 \in Words
                         /\ mem[f] \in Nat /\ mem[f] % 8 = 0 /\ mem[f] >= 8
                         /\ Base <= f /\ f + mem[f] <= Top
         /\ DOMAIN mem = Words /\ \A a \in Words : a \in Nat /\ a % 4 = 0 /\ mem[a] \in Nat
<1>1. F \subseteq Blocks BY DEF HeapInv, FreeList
<1>2. DOMAIN mem = Words /\ \A a \in Words : a \in Nat /\ a % 4 = 0 /\ mem[a] \in Nat
  BY HeapFacts, WordAssumption DEF HeapInv, TypeOK, Words
<1> QED BY <1>1, <1>2, BlockFacts DEF HeapInv, FreeShape

(* So are the blocks in use, and they have room for what was asked.        *)
LEMMA UsedFacts ==
  ASSUME NoWrap, NEW F, HeapInv(F), NEW b \in Used
  PROVE  /\ b.ptr \in Nat /\ b.size \in Sizes /\ b = [ptr |-> b.ptr, size |-> b.size]
         /\ Lo(b) \in Nat /\ Lo(b) % 8 = 0 /\ Base <= Lo(b) /\ Hi(b) <= Top
         /\ b.ptr = Lo(b) + 4 /\ Hi(b) = Lo(b) + block_size(b.size)
         /\ Hi(b) \in Nat /\ Lo(b) + 8 <= Hi(b) /\ b.ptr + b.size <= Hi(b) /\ Hi(b) % 8 = 0
         /\ Lo(b) \in Words
<1>1. b \in [ptr : Words, size : Sizes]
  BY DEF HeapInv, TypeOK, Used
<1>2. b.ptr \in Nat /\ b.size \in Sizes /\ b = [ptr |-> b.ptr, size |-> b.size]
  BY <1>1, HeapFacts DEF Words
<1>3. Lo(b) \in Nat /\ Lo(b) % 8 = 0 /\ Base <= Lo(b) /\ Hi(b) <= Top
  BY DEF HeapInv, UsedShape
<1>4. /\ b.size \in Nat /\ block_size(b.size) \in Nat /\ block_size(b.size) % 8 = 0
      /\ block_size(b.size) >= b.size + 4 /\ block_size(b.size) >= 8
  BY <1>2, BlockSize
<1>5. b.ptr = Lo(b) + 4 /\ Hi(b) = Lo(b) + block_size(b.size)
  BY <1>2 DEF Lo, Hi
<1>6. Lo(b) \in Words BY <1>3, <1>4, <1>5, BlockAddress, HeapFacts
<1> QED BY <1>2, <1>3, <1>4, <1>5, <1>6
-------------------------------------------------------------------------------
(* domain_malloc.                                                          *)

(* What a successful call of domain_malloc does: x is where the pointer of *)
(* p, the block before curr, or first_block now leads.                     *)
Mallocs(F, n, curr, p, x) ==
  LET s == block_size(n)
      split == mem[curr] # s
  IN  /\ curr \in F /\ p \in F \cup {0} /\ Follows(F, p, curr)
      /\ s < MAX_BLOCK_SIZE /\ mem[curr] >= s /\ \A g \in F : mem[g] >= s => curr <= g
      /\ x = IF split THEN curr + s ELSE mem[curr + 4]
      /\ live' = live \cup {[ptr |-> curr + 4, size |-> n]} /\ leaked' = leaked
      /\ ret' = <<"malloc", n, curr + 4>>
      /\ first_block' = IF p = 0 THEN x ELSE first_block
      /\ mem' = [a \in Words |-> mem'[a]]
      /\ mem'[curr] = canary_encode(curr, s)
      /\ \A a \in Words :
           IF a >= curr + 4 /\ a < curr + 4 + n THEN mem'[a] = Mark(curr + 4)
           ELSE a # curr => mem'[a] = IF p # 0 /\ a = p + 4 THEN x
                                      ELSE IF split /\ a = curr + s THEN mem[curr] - s
                                      ELSE IF split /\ a = curr + s + 4 THEN mem[curr + 4]
                                      ELSE mem[a]

(* What domain_malloc does, in terms of the set of free blocks.            *)
LEMMA MallocEffect ==
  ASSUME NoWrap, NEW F, HeapInv(F), NEW n \in Sizes, domain_malloc(n)
  PROVE  \E curr, p, x : Mallocs(F, n, curr, p, x)
<1> DEFINE s == block_size(n)
           i == Skipped(LargeEnough(s))
           curr == Nth[i]
           p == Before(i)
           rest == curr + s
           x == IF mem[curr] # s THEN rest ELSE mem[curr + 4]
           cut == IF mem[curr] # s THEN WithBlock(mem, rest, mem[curr] - s, mem[curr + 4]) ELSE mem
           list == Linked(cut, i, x)
           b == [ptr |-> curr + 4, size |-> n]
<1>1. FreeList(F) BY DEF HeapInv
<1>2. /\ i \in Nat /\ curr \in F \cup {NULL}
      /\ i > 0 => i - 1 \in Nat /\ Nth[i - 1] \in F
      /\ Follows(F, p, curr)
      /\ curr # NULL => curr \in LargeEnough(s)
      /\ \A g \in F \cap LargeEnough(s) : curr <= g
  <2> HIDE DEF s
  <2> QED BY <1>1, Search
<1>3. s < MAX_BLOCK_SIZE /\ curr # NULL
  BY DEF domain_malloc
<1>4. allocate_memory(i, s) = list
  BY DEF allocate_memory, SizeOf, NextOf
<1>5. /\ first_block' = list.first
      /\ mem' = [a \in Words |-> IF a = curr THEN canary_encode(curr, s)
                                 ELSE IF a \in DataWords(b) THEN Mark(b.ptr) ELSE list.mem[a]]
      /\ live' = live \cup {b} /\ ret' = <<"malloc", n, b.ptr>> /\ leaked' = leaked
  <2> HIDE DEF list
  <2> QED BY <1>4 DEF domain_malloc
<1> HIDE DEF i
<1>6. curr \in F /\ mem[curr] >= s /\ \A g \in F : mem[g] >= s => curr <= g
  BY <1>2, <1>3, FreeFacts DEF LargeEnough, SizeOf
<1>7. p \in F \cup {0} /\ (p = 0 <=> i = 0) /\ (i > 0 => p = Nth[i - 1] /\ i # 0)
  BY <1>2, FreeFacts DEF Before
<1>8. /\ curr \in Nat /\ curr % 8 = 0 /\ Base <= curr /\ curr + mem[curr] <= Top
      /\ mem[curr] \in Nat /\ mem[curr] % 8 = 0
  BY <1>6, FreeFacts
<1>9. n \in Nat /\ s \in Nat /\ s % 8 = 0 /\ s >= n + 4 /\ s >= 8
  BY BlockSize
<1>10. ASSUME mem[curr] # s PROVE rest \in Nat /\ rest \in Words /\ rest + 4 \in Words
  <2> HIDE DEF s, curr
  <2>1. rest \in Nat /\ rest % 8 = 0 /\ Base <= rest /\ rest + 8 <= Top
    BY <1>6, <1>8, <1>9, <1>10, HeapFacts
  <2> QED BY <2>1, BlockAddress
<1> HIDE DEF s, curr
<1>11. /\ DOMAIN cut = Words
       /\ \A a \in Words : cut[a] = IF mem[curr] # s /\ a = rest THEN mem[curr] - s
                                    ELSE IF mem[curr] # s /\ a = rest + 4 THEN mem[curr + 4]
                                    ELSE mem[a]
  <2>1. CASE mem[curr] # s
    <3>1. /\ DOMAIN WithBlock(mem, rest, mem[curr] - s, mem[curr + 4]) = Words
          /\ \A a \in Words : WithBlock(mem, rest, mem[curr] - s, mem[curr + 4])[a] =
               IF a = rest THEN mem[curr] - s ELSE IF a = rest + 4 THEN mem[curr + 4] ELSE mem[a]
      <4> HIDE DEF rest
      <4> QED BY <2>1, <1>10, FreeFacts, WithBlockMem
    <3> QED BY <2>1, <3>1
  <2>2. CASE mem[curr] = s
    BY <2>2, FreeFacts
  <2> QED BY <2>1, <2>2
<1>12. i > 0 => Nth[i - 1] + 4 \in Words
  BY <1>2, FreeFacts
<1> HIDE DEF cut, x
<1>13. /\ DOMAIN list.mem = Words
       /\ list.first = IF i > 0 THEN first_block ELSE x
       /\ \A a \in Words : list.mem[a] = IF i > 0 /\ a = Nth[i - 1] + 4 THEN x ELSE cut[a]
  BY <1>11, <1>12, LinkedMem
<1> HIDE DEF list, p
<1>14. first_block' = IF p = 0 THEN x ELSE first_block
  BY <1>2, <1>5, <1>7, <1>13
<1>15. DOMAIN mem' = Words /\ mem'[curr] = canary_encode(curr, s)
  BY <1>5, <1>6, FreeFacts
<1>16. ASSUME NEW a \in Words, a >= curr + 4, a < curr + 4 + n PROVE mem'[a] = Mark(curr + 4)
  <2>1. a \in DataWords(b) /\ b.ptr = curr + 4 BY <1>16 DEF DataWords
  <2>2. a \in Nat /\ a # curr BY <1>8, <1>16, FreeFacts
  <2> QED BY <1>5, <2>1, <2>2
<1>17. ASSUME NEW a \in Words, ~ (a >= curr + 4 /\ a < curr + 4 + n), a # curr
       PROVE  mem'[a] = IF p # 0 /\ a = p + 4 THEN x
                        ELSE IF mem[curr] # s /\ a = rest THEN mem[curr] - s
                        ELSE IF mem[curr] # s /\ a = rest + 4 THEN mem[curr + 4] ELSE mem[a]
  <2>1. a \notin DataWords(b) BY <1>17 DEF DataWords
  <2>2. mem'[a] = list.mem[a] BY <1>5, <1>17, <2>1
  <2>3. list.mem[a] = IF p # 0 /\ a = p + 4 THEN x ELSE cut[a]
    BY <1>2, <1>7, <1>13
  <2> QED BY <2>2, <2>3, <1>11
<1>18. b.ptr = curr + 4 OBVIOUS
<1>19. Mallocs(F, n, curr, p, x)
  BY <1>2, <1>3, <1>5, <1>6, <1>7, <1>14, <1>15, <1>16, <1>17, <1>18 DEF Mallocs, x, s
<1> QED BY <1>19
(* domain_malloc keeps the invariant.                                      *)
LEMMA MallocInv ==
  ASSUME NoWrap, NEW F, HeapInv(F), NEW n \in Sizes, NEW curr, NEW p, NEW x,
         Mallocs(F, n, curr, p, x)
  PROVE  Inv'
<1> DEFINE s == block_size(n)
           z == mem[curr]
           nx == mem[curr + 4]
           rest == curr + s
           b == [ptr |-> curr + 4, size |-> n]
<1>m. /\ curr \in F /\ p \in F \cup {0} /\ Follows(F, p, curr)
      /\ s < MAX_BLOCK_SIZE /\ z >= s
      /\ x = IF z # s THEN rest ELSE nx
      /\ live' = live \cup {b} /\ leaked' = leaked
      /\ first_block' = IF p = 0 THEN x ELSE first_block
      /\ mem'[curr] = canary_encode(curr, s)
  BY DEF Mallocs
<1>d. \A a \in Words : a >= curr + 4 /\ a < curr + 4 + n => mem'[a] = Mark(curr + 4)
  BY DEF Mallocs
<1>e. \A a \in Words : ~ (a >= curr + 4 /\ a < curr + 4 + n) /\ a # curr =>
        mem'[a] = IF p # 0 /\ a = p + 4 THEN x ELSE IF z # s /\ a = rest THEN z - s
                  ELSE IF z # s /\ a = rest + 4 THEN nx ELSE mem[a]
  BY DEF Mallocs
<1>f. /\ \A f \in F : /\ f \in Nat /\ f % 8 = 0 /\ f > 0 /\ f # NULL /\ f \in Words /\ f + 4 \in Words
                      /\ mem[f] \in Nat /\ mem[f] % 8 = 0 /\ mem[f] >= 8
                      /\ Base <= f /\ f + mem[f] <= Top
      /\ F \subseteq Blocks
      /\ \A a \in Words : a \in Nat /\ a % 4 = 0 /\ mem[a] \in Nat
  BY FreeFacts
<1>s. n \in Nat /\ s \in Nat /\ s % 8 = 0 /\ s >= n + 4 /\ s >= 8
  BY BlockSize
<1>c. /\ curr \in Nat /\ curr % 8 = 0 /\ curr > 0 /\ Base <= curr /\ z \in Nat /\ z % 8 = 0
      /\ curr + z <= Top /\ p \in Nat /\ p % 8 = 0 /\ p < curr /\ curr \in Words /\ curr + 4 \in Words
  BY <1>m, <1>f DEF Follows
<1>n. Follows(F, curr, nx)
  BY <1>m DEF HeapInv, FreeList
<1>o. \A f, g \in F : f < g => f + mem[f] < g
  BY DEF HeapInv, FreeShape
<1> HIDE DEF s, z, nx
<1>r. z # s => /\ rest \in Nat /\ rest % 8 = 0 /\ Base <= rest /\ rest + 8 <= curr + z
               /\ rest + 8 <= Top /\ rest > curr /\ z - s \in Nat /\ (z - s) % 8 = 0 /\ z - s >= 8
               /\ rest + (z - s) = curr + z
  BY <1>m, <1>s, <1>c, HeapFacts
<1>w. z # s => rest \in Blocks /\ rest \in Words /\ rest + 4 \in Words
  BY <1>r, BlockAddress
<1>1. ASSUME NEW f \in F, f # curr PROVE f + mem[f] < curr \/ curr + z < f
  <2>1. f < curr \/ curr < f BY <1>1, <1>f, <1>c
  <2> QED BY <1>o, <1>m, <2>1 DEF z
<1>p. p # 0 => p \in F /\ p + mem[p] < curr
  BY <1>1, <1>m, <1>c, <1>f
(* The words of the other free blocks.                                     *)
<1>2. ASSUME NEW f \in F, f # curr
      PROVE  mem'[f] = mem[f] /\ mem'[f + 4] = IF f = p THEN x ELSE mem[f + 4]
  <2>1. f + mem[f] < curr \/ curr + z < f BY <1>1, <1>2
  <2>2. /\ f \in Nat /\ f % 8 = 0 /\ f > 0 /\ f \in Words /\ f + 4 \in Words
        /\ mem[f] \in Nat /\ mem[f] >= 8
    BY <1>f
  <2>3. /\ f # p + 4 /\ f # curr /\ ~ (f >= curr + 4 /\ f < curr + 4 + n)
        /\ z # s => f # rest /\ f # rest + 4
    BY <2>1, <2>2, <1>c, <1>s, <1>m, <1>r
  <2>4. /\ (f + 4 = p + 4 <=> f = p) /\ f + 4 # curr /\ ~ (f + 4 >= curr + 4 /\ f + 4 < curr + 4 + n)
        /\ z # s => f + 4 # rest /\ f + 4 # rest + 4
    BY <2>1, <2>2, <1>c, <1>s, <1>m, <1>r
  <2>5. mem'[f] = mem[f] BY <1>e, <2>2, <2>3
  <2>6. mem'[f + 4] = IF f = p THEN x ELSE mem[f + 4] BY <1>e, <2>2, <2>4
  <2> QED BY <2>5, <2>6
(* The words of the rest of the block.                                     *)
<1>3. z # s => mem'[rest] = z - s /\ mem'[rest + 4] = nx
  <2> SUFFICES ASSUME z # s PROVE mem'[rest] = z - s /\ mem'[rest + 4] = nx
    OBVIOUS
  <2>1. /\ rest # p + 4 /\ rest # curr /\ ~ (rest >= curr + 4 /\ rest < curr + 4 + n)
        /\ rest + 4 # p + 4 /\ rest + 4 # curr /\ rest + 4 # rest
        /\ ~ (rest + 4 >= curr + 4 /\ rest + 4 < curr + 4 + n)
    BY <1>r, <1>c, <1>s
  <2>2. rest \in Words /\ rest + 4 \in Words BY <1>w
  <2>3. mem'[rest] = z - s BY <1>e, <2>1, <2>2
  <2>4. mem'[rest + 4] = nx BY <1>e, <2>1, <2>2
  <2> QED BY <2>3, <2>4
(* The words of the blocks in use.                                         *)
<1>4. ASSUME NEW c \in Used, NEW a \in Words, Lo(c) <= a, a < Hi(c) PROVE mem'[a] = mem[a]
  <2>1. Lo(c) \in Nat /\ Hi(c) \in Nat BY UsedFacts
  <2>2. \A f \in F : f + mem[f] <= Lo(c) \/ Hi(c) <= f BY DEF HeapInv, Apart
  <2>3. a \in Nat BY <1>f
  <2>4. a < curr \/ curr + z <= a
    BY <2>1, <2>2, <2>3, <1>4, <1>m, <1>c DEF z
  <2>5. p # 0 => a # p + 4
    <3> SUFFICES ASSUME p # 0 PROVE a # p + 4 OBVIOUS
    <3>1. p \in F /\ mem[p] \in Nat /\ mem[p] >= 8 BY <1>p, <1>f
    <3>2. p + mem[p] <= Lo(c) \/ Hi(c) <= p BY <3>1, <2>2
    <3> QED BY <3>1, <3>2, <2>1, <2>3, <1>4, <1>c
  <2>6. a # curr /\ ~ (a >= curr + 4 /\ a < curr + 4 + n) /\ (z # s => a # rest /\ a # rest + 4)
    BY <2>3, <2>4, <1>c, <1>s, <1>m, <1>r
  <2> QED BY <1>e, <2>5, <2>6
<1>5. Lo(b) = curr /\ Hi(b) = curr + s /\ b.ptr = curr + 4 /\ b.size = n
  BY <1>c, <1>s DEF Lo, Hi, s
<1>6. ASSUME NEW c \in Used PROVE curr + z <= Lo(c) \/ Hi(c) <= curr
  BY <1>m DEF HeapInv, Apart, z
<1> PICK G : G = IF z # s THEN (F \ {curr}) \cup {rest} ELSE F \ {curr}
  OBVIOUS
<1>g. \A f \in G : f \in F \ {curr} \/ (z # s /\ f = rest)
  OBVIOUS
<1> HIDE DEF b, rest
<1>7. FreeList(G)'
  <2>1. G \subseteq Blocks BY <1>g, <1>f, <1>w
  <2>2. ASSUME NEW f \in F \cup {0}, f # curr, NEW y,
               Follows(F, f, y)
        PROVE  Follows(G, f, IF f = p THEN x ELSE y)
    <3>1. /\ Follows(F \ {curr}, p, nx)
          /\ f # p => Follows(F \ {curr}, f, y)
      <4>1. /\ Follows(F \ {curr}, p, nx)
            /\ \A g \in F \ {curr} : \A w : g # p /\ Follows(F, g, w) => Follows(F \ {curr}, g, w)
            /\ \A w : p # 0 /\ Follows(F, 0, w) => Follows(F \ {curr}, 0, w)
        BY <1>m, <1>n, <1>f, Unlink
      <4> QED BY <4>1, <2>2
    <3>2. CASE z = s BY <3>1, <3>2, <1>m
    <3>3. CASE z # s
      <4> DEFINE H == F \ {curr}
      <4>1. nx # NULL => rest < nx
        <5> SUFFICES ASSUME nx # NULL PROVE rest < nx OBVIOUS
        <5>1. nx \in F /\ curr < nx BY <1>n DEF Follows
        <5>2. curr + z < nx BY <5>1, <1>o, <1>m DEF z
        <5> QED BY <5>1, <5>2, <3>3, <1>r, <1>f, <1>c
      <4>2. p \in H \cup {0} /\ p < rest /\ \A g \in H : g \in Nat /\ g > 0
        BY <1>m, <1>c, <1>r, <1>f, <3>3
      <4>3. rest \in Nat BY <3>3, <1>r
      <4> HIDE DEF H
      <4>4. /\ Follows(H \cup {rest}, p, rest)
            /\ \A g \in H : \A w : g # p /\ Follows(H, g, w) => Follows(H \cup {rest}, g, w)
            /\ \A w : p # 0 /\ Follows(H, 0, w) => Follows(H \cup {rest}, 0, w)
        BY <4>1, <4>2, <4>3, <3>1, Link DEF H
      <4>5. G = H \cup {rest} /\ (f \in H \/ f = 0) /\ x = rest BY <3>3, <2>2, <1>m DEF H
      <4>6. CASE f = p BY <4>4, <4>5, <4>6
      <4>7. CASE f # p
        <5>1. Follows(H, f, y) BY <4>7, <3>1 DEF H
        <5> QED BY <4>4, <4>5, <4>7, <5>1
      <4> QED BY <4>6, <4>7
    <3> QED BY <3>2, <3>3
  <2>3. Follows(G, 0, first_block')
    <3>1. Follows(F, 0, first_block) BY DEF HeapInv, FreeList
    <3>2. 0 # curr BY <1>c
    <3> QED BY <2>2, <3>1, <3>2, <1>m
  <2>4. ASSUME NEW f \in G PROVE Follows(G, f, mem'[f + 4])
    <3>1. CASE f \in F \ {curr}
      <4>1. Follows(F, f, mem[f + 4]) BY <3>1 DEF HeapInv, FreeList
      <4> QED BY <2>2, <3>1, <4>1, <1>2
    <3>2. CASE z # s /\ f = rest
      <4>1. Follows(G, rest, nx)
        <5>1. \A g \in F : g <= curr \/ (nx # NULL /\ nx <= g) BY <1>n, <1>f DEF Follows
        <5>2. CASE nx = NULL
          <6>1. \A g \in G : g <= rest
            BY <5>1, <5>2, <1>g, <1>f, <1>c, <1>r, <3>2
          <6> QED BY <6>1, <5>2 DEF Follows
        <5>3. CASE nx # NULL
          <6>1. nx \in F /\ curr < nx BY <1>n, <5>3 DEF Follows
          <6>2. curr + z < nx BY <6>1, <1>o, <1>m DEF z
          <6>3. nx \in Nat /\ rest < nx /\ nx \in G
            BY <6>1, <6>2, <3>2, <1>r, <1>f, <1>c
          <6>4. \A g \in G : g <= rest \/ nx <= g
            BY <5>1, <6>3, <1>g, <1>f, <1>c, <1>r, <3>2
          <6> QED BY <6>3, <6>4 DEF Follows
        <5> QED BY <5>2, <5>3
      <4> QED BY <3>2, <4>1, <1>3
    <3> QED BY <3>1, <3>2, <1>g
  <2> QED BY <2>1, <2>3, <2>4 DEF FreeList, Follows, Blocks, Words
<1>8. FreeShape(G)'
  <2>1. ASSUME NEW f \in G
        PROVE  mem'[f] % 8 = 0 /\ mem'[f] >= 8 /\ Base <= f /\ f + mem'[f] <= Top
    BY <1>g, <1>2, <1>3, <1>f, <1>r, <1>c
  <2>2. ASSUME NEW f \in G, NEW g \in G, f < g PROVE f + mem'[f] < g
    <3>1. CASE f \in F \ {curr} /\ g \in F \ {curr} BY <3>1, <2>2, <1>o, <1>2
    <3>2. CASE f \in F \ {curr} /\ z # s /\ g = rest
      <4>1. f + mem[f] < curr \/ curr + z < f BY <3>2, <1>1
      <4> QED BY <4>1, <3>2, <2>2, <1>2, <1>f, <1>r, <1>c
    <3>3. CASE g \in F \ {curr} /\ z # s /\ f = rest
      <4>1. g + mem[g] < curr \/ curr + z < g BY <3>3, <1>1
      <4> QED BY <4>1, <3>3, <2>2, <1>3, <1>f, <1>r, <1>c
    <3>4. CASE f = rest /\ g = rest BY <3>4, <2>2, <1>r, <1>g, <1>f
    <3> QED BY <3>1, <3>2, <3>3, <3>4, <1>g
  <2> QED BY <2>1, <2>2 DEF FreeShape, Base, Top
<1>9. Used' = Used \cup {b} BY <1>m DEF Used
<1>10. b \notin Used /\ \A c \in Used : Hi(c) <= Lo(b) \/ Hi(b) <= Lo(c)
  <2>1. \A c \in Used : Lo(c) \in Nat /\ Hi(c) \in Nat BY UsedFacts
  <2>2. \A c \in Used : Hi(c) <= curr \/ curr + s <= Lo(c)
    BY <1>6, <2>1, <1>c, <1>s, <1>m
  <2>3. b \notin Used BY <2>2, <1>5, <1>c, <1>s
  <2> QED BY <2>2, <2>3, <1>5
<1>11. UsedShape'
  <2>1. ASSUME NEW c \in Used \cup {b}
        PROVE  /\ Lo(c) \in Nat /\ Lo(c) % 8 = 0 /\ Base <= Lo(c) /\ Hi(c) <= Top
               /\ block_size(c.size) < MAX_BLOCK_SIZE
    <3>1. CASE c = b BY <3>1, <1>5, <1>c, <1>s, <1>m, HeapFacts DEF s
    <3>2. CASE c \in Used BY <3>2 DEF HeapInv, UsedShape
    <3> QED BY <3>1, <3>2
  <2>2. ASSUME NEW c \in Used \cup {b}, NEW d \in Used \cup {b}, c # d
        PROVE  Hi(c) <= Lo(d) \/ Hi(d) <= Lo(c)
    BY <2>2, <1>10 DEF HeapInv, UsedShape
  <2>3. (live \cap leaked)' = {}
    BY <1>m, <1>10 DEF HeapInv, UsedShape, Used
  <2> QED BY <2>1, <2>2, <2>3, <1>9 DEF UsedShape, Lo, Hi, block_size, Base, Top
<1>12. Apart(G)'
  <2> SUFFICES ASSUME NEW f \in G, NEW c \in Used \cup {b}
               PROVE  f + mem'[f] <= Lo(c) \/ Hi(c) <= f
    BY <1>9 DEF Apart, Lo, Hi, block_size
  <2>1. CASE f \in F \ {curr} /\ c \in Used
    BY <2>1, <1>2 DEF HeapInv, Apart
  <2>2. CASE f \in F \ {curr} /\ c = b
    BY <2>2, <1>1, <1>2, <1>5, <1>f, <1>c, <1>s, <1>m
  <2>3. CASE z # s /\ f = rest /\ c \in Used
    <3>1. Lo(c) \in Nat /\ Hi(c) \in Nat BY <2>3, UsedFacts
    <3> QED BY <2>3, <3>1, <1>3, <1>6, <1>r, <1>c
  <2>4. CASE z # s /\ f = rest /\ c = b
    <3>1. rest = curr + s BY DEF rest
    <3> QED BY <2>4, <3>1, <1>5, <1>r
  <2> QED BY <2>1, <2>2, <2>3, <2>4, <1>g
<1>13. Covered(G)'
  <2> SUFFICES ASSUME NEW y \in Base .. Top - 1
               PROVE  \/ \E f \in G : f <= y /\ y < f + mem'[f]
                      \/ \E c \in Used \cup {b} : Lo(c) <= y /\ y < Hi(c)
    BY <1>9 DEF Covered, Lo, Hi, block_size, Base, Top
  <2>0. y \in Nat BY HeapFacts
  <2>1. CASE \E c \in Used : Lo(c) <= y /\ y < Hi(c) BY <2>1
  <2>2. CASE \E f \in F \ {curr} : f <= y /\ y < f + mem[f]
    <3>1. PICK f \in F \ {curr} : f <= y /\ y < f + mem[f] BY <2>2
    <3>2. f \in G /\ mem'[f] = mem[f] BY <1>2
    <3> QED BY <3>1, <3>2
  <2>3. CASE curr <= y /\ y < curr + z
    <3>0. rest = curr + s BY DEF rest
    <3>1. CASE y < curr + s BY <3>1, <2>3, <1>5
    <3>2. CASE y >= curr + s
      <4>1. z # s BY <2>3, <3>2, <2>0, <1>c, <1>s
      <4>2. rest \in G /\ rest <= y /\ y < rest + mem'[rest] BY <4>1, <3>0, <2>3, <3>2, <1>3, <1>r
      <4> QED BY <4>2
    <3> QED BY <3>1, <3>2, <2>0, <1>c, <1>s
  <2>4. \/ \E f \in F : f <= y /\ y < f + mem[f]
        \/ \E c \in Used : Lo(c) <= y /\ y < Hi(c)
    BY DEF HeapInv, Covered
  <2> QED BY <2>1, <2>2, <2>3, <2>4 DEF z
<1>14. Headers'
  <2> SUFFICES ASSUME NEW c \in live \cup {b}
               PROVE  \/ mem'[Lo(c)] = canary_encode(Lo(c), block_size(c.size))
                      \/ mem'[Lo(c)] % 2 = 1
    BY <1>m DEF Headers, Lo, block_size, canary_encode
  <2>1. CASE c = b BY <2>1, <1>5, <1>m DEF s
  <2>2. CASE c \in live
    <3>1. c \in Used BY <2>2 DEF Used
    <3>2. mem'[Lo(c)] = mem[Lo(c)] BY <3>1, <1>4, UsedFacts
    <3> QED BY <3>2, <2>2 DEF HeapInv, Headers
  <2> QED BY <2>1, <2>2
<1>15. DataIntact'
  <2> SUFFICES ASSUME NEW c \in live \cup {b}, NEW a \in Words, a >= c.ptr, a < c.ptr + c.size
               PROVE  mem'[a] = Mark(c.ptr)
    BY <1>m DEF DataIntact, DataWords, Words, Mark
  <2>1. CASE c = b BY <2>1, <1>5, <1>d
  <2>2. CASE c \in live
    <3>1. c \in Used BY <2>2 DEF Used
    <3>2. c.ptr \in Nat /\ c.size \in Nat /\ c.ptr = Lo(c) + 4 /\ c.ptr + c.size <= Hi(c) /\ Lo(c) \in Nat
          /\ Hi(c) \in Nat /\ a \in Nat
      BY <3>1, UsedFacts, BlockSize, <1>f
    <3>3. mem'[a] = mem[a] BY <3>1, <3>2, <1>4
    <3>4. mem[a] = Mark(c.ptr) BY <2>2 DEF HeapInv, DataIntact, DataWords
    <3> QED BY <3>3, <3>4
  <2> QED BY <2>1, <2>2
<1>16. TypeOK'
  <2> DEFINE W == 0 .. 2^WordBits - 1
  <2>1. /\ first_block \in Blocks \cup {NULL} /\ mem \in [Words -> W]
        /\ live \subseteq [ptr : Words, size : Sizes] /\ leaked \subseteq [ptr : Words, size : Sizes]
    BY DEF HeapInv, TypeOK
  <2>2. nx \in Blocks \cup {NULL} /\ nx \in W
    BY <1>n, <1>f, <1>c, <2>1 DEF Follows, nx
  <2>3. x \in Blocks \cup {NULL} /\ x \in W
    <3>1. z # s => rest \in W BY <1>r, HeapFacts, WordAssumption
    <3> QED BY <3>1, <2>2, <1>m, <1>w
  <2>4. z \in W /\ (z # s => z - s \in W)
    <3>1. z \in W BY <2>1, <1>c DEF z
    <3>2. 2^WordBits \in Nat BY WordAssumption
    <3> QED BY <3>1, <3>2, <1>c, <1>s, <1>r
  <2>5. canary_encode(curr, s) \in W
    <3>1. s * 256 \in Nat /\ s * 256 + 256 <= 2^WordBits
      BY <1>m, <1>s, WordAssumption
    <3>2. UInt(s * 256) = s * 256
      BY <3>1, UIntSmall, WordAssumption
    <3> QED BY <3>1, <3>2, <1>c, WordAssumption DEF canary_encode, canary
  <2>6. Mark(curr + 4) \in W
    <3>1. curr + 4 < 2^WordBits /\ curr + 4 \in Nat BY <1>c, <1>m, <1>s, HeapFacts, WordAssumption
    <3> QED BY <3>1, WordAssumption DEF Mark
  <2> HIDE DEF W
  <2>7. \A a \in Words : mem'[a] \in W
    <3> TAKE a \in Words
    <3>1. CASE a = curr BY <3>1, <1>m, <2>5
    <3>2. CASE a >= curr + 4 /\ a < curr + 4 + n BY <3>2, <1>d, <2>6
    <3>3. CASE a # curr /\ ~ (a >= curr + 4 /\ a < curr + 4 + n)
      BY <3>3, <1>e, <2>1, <2>2, <2>3, <2>4
    <3> QED BY <3>1, <3>2, <3>3
  <2>8. mem' \in [Words -> W]
    <3>1. mem' = [a \in Words |-> mem'[a]]
      BY DEF Mallocs
    <3> QED BY <3>1, <2>7
  <2>9. b \in [ptr : Words, size : Sizes]
    BY <1>c DEF b
  <2>10. first_block' \in Blocks \cup {NULL}
    BY <1>m, <2>1, <2>3
  <2> QED BY <2>1, <2>8, <2>9, <2>10, <1>m DEF TypeOK, Blocks, Words, W
<1> QED BY <1>7, <1>8, <1>11, <1>12, <1>13, <1>14, <1>15, <1>16 DEF Inv, HeapInv
-------------------------------------------------------------------------------
(* domain_free.                                                            *)

(* A header with the right canary still has the size of the block.         *)
LEMMA HeaderDecoded ==
  ASSUME NoWrap, NEW F, HeapInv(F), NEW b \in live,
         canary_decode(mem[Lo(b)]).canary = canary(Lo(b))
  PROVE  canary_decode(mem[Lo(b)]).size = block_size(b.size)
<1> DEFINE s == block_size(b.size)
           l == Lo(b)
           h == mem[l]
<1>1. b \in Used BY DEF Used
<1>2. l \in Nat /\ l % 8 = 0 /\ l \in Words /\ s < MAX_BLOCK_SIZE
  BY <1>1, UsedFacts DEF HeapInv, UsedShape
<1>3. s \in Nat BY <1>1, UsedFacts, BlockSize
<1>4. h \in Nat BY <1>2, FreeFacts
<1>5. h % 256 = l % 256
  BY DEF canary_decode, canary
<1>6. h = canary_encode(l, s) \/ h % 2 = 1
  BY DEF HeapInv, Headers
<1> HIDE DEF s, l, h
<1>7. h = canary_encode(l, s)
  BY <1>2, <1>4, <1>5, <1>6
<1>8. s * 256 \in Nat /\ s * 256 < 2^WordBits
  BY <1>2, <1>3, WordAssumption
<1>9. h = s * 256 + (l % 256)
  BY <1>7, <1>8, UIntSmall DEF canary_encode, canary
<1>10. h \div 256 = s
  BY <1>9, <1>2, <1>3
<1> QED BY <1>10 DEF canary_decode, s, h, l

JoinsNext(b, nx) == nx # NULL /\ Hi(b) = nx
JoinsPrev(b, p) == p # 0 /\ p + mem[p] = Lo(b)

(* The block that b becomes part of: where it starts and ends.             *)
JoinLo(b, p) == IF JoinsPrev(b, p) THEN p ELSE Lo(b)
JoinHi(b, nx) == IF JoinsNext(b, nx) THEN Hi(b) + mem[nx] ELSE Hi(b)

(* What a call of domain_free does with b, which lies between p and nx.    *)
Frees(F, b, p, nx) ==
  LET l == Lo(b)
      sz == JoinHi(b, nx) - l
      nn == IF JoinsNext(b, nx) THEN mem[nx + 4] ELSE nx
  IN  /\ p \in F \cup {0} /\ p < l /\ Follows(F, p, nx) /\ (nx # NULL => nx \in F /\ l < nx)
      /\ live' = live \ {b} /\ leaked' = leaked /\ ret' = <<"free", b.ptr>>
      /\ first_block' = IF p = 0 THEN l ELSE first_block
      /\ mem' = [a \in Words |-> IF JoinsPrev(b, p) /\ a = p THEN mem[p] + sz
                                 ELSE IF p # 0 /\ a = p + 4 THEN (IF JoinsPrev(b, p) THEN nn ELSE l)
                                 ELSE IF a = l THEN sz ELSE IF a = l + 4 THEN nn ELSE mem[a]]

(* What domain_free does, in terms of the set of free blocks.              *)
LEMMA FreeEffect ==
  ASSUME NoWrap, NEW F, HeapInv(F), NEW b \in live, domain_free(b)
  PROVE  \E p, nx : Frees(F, b, p, nx)
<1> DEFINE l == Lo(b)
           s == block_size(b.size)
           i == Skipped(Above(l))
           nx == Nth[i]
           p == Before(i)
           sz == JoinHi(b, nx) - l
           nn == IF JoinsNext(b, nx) THEN mem[nx + 4] ELSE nx
           own == WithBlock(mem, l, sz, nn)
           list == free_memory(l, s)
<1>1. b \in Used BY DEF Used
<1>2. /\ l \in Nat /\ l % 8 = 0 /\ Base <= l /\ Hi(b) = l + s /\ Hi(b) \in Nat /\ l + 8 <= Hi(b) /\ Hi(b) <= Top
      /\ s \in Nat
  BY <1>1, UsedFacts, BlockSize
<1>3. l \in Words /\ l + 4 \in Words BY <1>2, BlockAddress, HeapFacts
<1>4. canary_decode(mem[l]).canary = canary(l)
  BY DEF domain_free, Lo
<1>5. canary_decode(mem[l]).size = s
  BY <1>4, HeaderDecoded
<1>6. /\ first_block' = list.first /\ mem' = list.mem
      /\ live' = live \ {b} /\ leaked' = leaked /\ ret' = <<"free", b.ptr>>
  <2>1. b.ptr - 4 = l BY DEF Lo
  <2> HIDE DEF list, l, s
  <2> QED BY <1>5, <2>1 DEF domain_free, list
<1>7. /\ i \in Nat /\ nx \in F \cup {NULL}
      /\ i > 0 => i - 1 \in Nat /\ Nth[i - 1] \in F \ Above(l)
      /\ Follows(F, p, nx) /\ (nx # NULL => nx \in Above(l))
  <2>1. FreeList(F) BY DEF HeapInv
  <2> HIDE DEF l
  <2> QED BY <2>1, Search
<1> HIDE DEF i, s, l
<1>8. /\ p \in F \cup {0} /\ (p = 0 <=> i = 0) /\ (i > 0 => p = Nth[i - 1] /\ i # 0)
      /\ i > 0 \/ i = 0
  BY <1>7, FreeFacts DEF Before
<1>9. \A f \in F : /\ f \in Nat /\ f % 8 = 0 /\ f > 0 /\ f # NULL /\ f \in Words /\ f + 4 \in Words
                   /\ mem[f] \in Nat /\ mem[f] >= 8
                   /\ f + mem[f] <= l \/ Hi(b) <= f
  BY <1>1, FreeFacts DEF HeapInv, Apart, l
<1> HIDE DEF p, nx
<1>10. p \in Nat /\ p < l
  <2>1. CASE i = 0 BY <2>1, <1>8, <1>2, HeapFacts
  <2>2. CASE i > 0
    <3>1. p \in F /\ ~ (p \in Above(l)) BY <2>2, <1>7, <1>8
    <3> QED BY <3>1, <1>9, <1>2 DEF Above
  <2> QED BY <2>1, <2>2, <1>8
<1>11. nx # NULL => nx \in F /\ l < nx
  <2> SUFFICES ASSUME nx # NULL PROVE nx \in F /\ l < nx OBVIOUS
  <2>1. nx \in F /\ nx >= l BY <1>7 DEF Above
  <2> QED BY <2>1, <1>9, <1>2
<1>12. own = IF l + s = nx THEN WithBlock(mem, l, s + mem[nx], mem[nx + 4]) ELSE WithBlock(mem, l, s, nx)
  <2>1. l + s = nx <=> JoinsNext(b, nx) BY <1>2 DEF JoinsNext, NULL
  <2>2. CASE l + s = nx
    <3>1. mem[nx] \in Nat BY <2>2, <2>1, <1>11, <1>9 DEF JoinsNext
    <3>2. sz = s + mem[nx] BY <2>1, <2>2, <3>1, <1>2 DEF JoinHi
    <3> QED BY <2>1, <2>2, <3>2
  <2>3. CASE l + s # nx
    <3>1. sz = s BY <2>1, <2>3, <1>2 DEF JoinHi
    <3> QED BY <2>1, <2>3, <3>1
  <2> QED BY <2>2, <2>3
<1> HIDE DEF sz, nn
<1>13. /\ DOMAIN own = Words
       /\ \A a \in Words : own[a] = IF a = l THEN sz ELSE IF a = l + 4 THEN nn ELSE mem[a]
  BY <1>2, <1>3, FreeFacts, WithBlockMem
<1>14. list = IF i > 0 /\ Nth[i - 1] + own[Nth[i - 1]] = l
              THEN [mem |-> WithBlock(own, Nth[i - 1], own[Nth[i - 1]] + own[l], own[l + 4]),
                    first |-> first_block]
              ELSE Linked(own, i, l)
  <2> HIDE DEF own
  <2> QED BY <1>12 DEF free_memory, SizeOf, NextOf, i, nx
<1> HIDE DEF own, list
<1>15. own[l] = sz /\ own[l + 4] = nn
  BY <1>13, <1>3, <1>2
<1>16. i > 0 => own[p] = mem[p] /\ p \in F /\ p \in Words /\ p + 4 \in Words /\ p # l + 4 /\ p # 0
  BY <1>8, <1>9, <1>10, <1>13, <1>2
<1>17. first_block' = IF p = 0 THEN l ELSE first_block
  <2>1. CASE i > 0 /\ Nth[i - 1] + own[Nth[i - 1]] = l
    BY <2>1, <1>6, <1>8, <1>14
  <2>2. CASE ~ (i > 0 /\ Nth[i - 1] + own[Nth[i - 1]] = l)
    <3>1. list.first = IF i > 0 THEN first_block ELSE l
      BY <2>2, <1>13, <1>14, <1>16, <1>8, LinkedMem
    <3> QED BY <3>1, <1>6, <1>8
  <2> QED BY <2>1, <2>2
<1>18. mem' = [a \in Words |-> IF JoinsPrev(b, p) /\ a = p THEN mem[p] + sz
                               ELSE IF p # 0 /\ a = p + 4 THEN (IF JoinsPrev(b, p) THEN nn ELSE l)
                               ELSE IF a = l THEN sz ELSE IF a = l + 4 THEN nn ELSE mem[a]]
  <2>1. JoinsPrev(b, p) <=> i > 0 /\ Nth[i - 1] + own[Nth[i - 1]] = l
    BY <1>8, <1>16 DEF JoinsPrev, l
  <2>2. CASE JoinsPrev(b, p)
    <3>1. i > 0 /\ list.mem = WithBlock(own, p, mem[p] + sz, nn)
      BY <2>1, <2>2, <1>14, <1>15, <1>16, <1>8
    <3>2. /\ DOMAIN list.mem = Words
          /\ \A a \in Words : list.mem[a] = IF a = p THEN mem[p] + sz ELSE IF a = p + 4 THEN nn ELSE own[a]
      BY <3>1, <1>10, <1>13, <1>16, WithBlockMem
    <3>3. list.mem = [a \in Words |-> list.mem[a]]
      BY <3>1, <3>2 DEF WithBlock
    <3> QED BY <2>2, <3>1, <3>2, <3>3, <1>6, <1>13, <1>16
  <2>3. CASE ~ JoinsPrev(b, p)
    <3>1. list = Linked(own, i, l)
      BY <2>1, <2>3, <1>14
    <3>2. /\ DOMAIN list.mem = Words
          /\ \A a \in Words : list.mem[a] = IF i > 0 /\ a = p + 4 THEN l ELSE own[a]
      BY <3>1, <1>13, <1>16, <1>8, LinkedMem
    <3>3. list.mem = [a \in Words |-> list.mem[a]]
      BY <3>1, <3>2, <1>13 DEF Linked, own, WithBlock
    <3> QED BY <2>3, <3>2, <3>3, <1>6, <1>8, <1>13
  <2> QED BY <2>2, <2>3
<1>19. Frees(F, b, p, nx)
  BY <1>6, <1>7, <1>8, <1>10, <1>11, <1>17, <1>18 DEF Frees, sz, nn, l
<1> QED BY <1>19
(* domain_free keeps the invariant, whichever neighbours it merges with.   *)
LEMMA FreeInv ==
  ASSUME NoWrap, NEW F, HeapInv(F), NEW b \in live, NEW p, NEW nx, Frees(F, b, p, nx)
  PROVE  Inv'
<1> DEFINE l == Lo(b)
           h == Hi(b)
           jp == JoinsPrev(b, p)
           jn == JoinsNext(b, nx)
           lo == JoinLo(b, p)
           hi == JoinHi(b, nx)
           nn == IF jn THEN mem[nx + 4] ELSE nx
<1>m. /\ p \in F \cup {0} /\ p < l /\ Follows(F, p, nx) /\ (nx # NULL => nx \in F /\ l < nx)
      /\ live' = live \ {b} /\ leaked' = leaked
      /\ first_block' = IF p = 0 THEN l ELSE first_block
      /\ mem' = [a \in Words |-> IF jp /\ a = p THEN mem[p] + (hi - l)
                                 ELSE IF p # 0 /\ a = p + 4 THEN (IF jp THEN nn ELSE l)
                                 ELSE IF a = l THEN hi - l ELSE IF a = l + 4 THEN nn ELSE mem[a]]
  BY DEF Frees
<1>u. b \in Used BY DEF Used
<1>b. /\ l \in Nat /\ l % 8 = 0 /\ Base <= l /\ h \in Nat /\ h % 8 = 0 /\ l + 8 <= h /\ h <= Top
  BY <1>u, UsedFacts
<1>w. l \in Words /\ l + 4 \in Words /\ l \in Blocks BY <1>b, BlockAddress, HeapFacts
<1>f. /\ \A f \in F : /\ f \in Nat /\ f % 8 = 0 /\ f > 0 /\ f # NULL /\ f \in Words /\ f + 4 \in Words
                      /\ mem[f] \in Nat /\ mem[f] % 8 = 0 /\ mem[f] >= 8
                      /\ Base <= f /\ f + mem[f] <= Top
                      /\ f + mem[f] <= l \/ h <= f
      /\ F \subseteq Blocks
      /\ \A a \in Words : a \in Nat /\ a % 4 = 0 /\ mem[a] \in Nat
  BY <1>u, FreeFacts DEF HeapInv, Apart
<1>o. \A f, g \in F : f < g => f + mem[f] < g
  BY DEF HeapInv, FreeShape
<1>j. /\ jp => p # 0 /\ p \in F /\ p + mem[p] = l /\ lo = p
      /\ ~ jp => lo = l /\ (p # 0 => p + mem[p] # l)
      /\ jn => nx # NULL /\ nx \in F /\ h = nx /\ hi = h + mem[nx]
      /\ ~ jn => hi = h /\ (nx # NULL => h # nx)
  BY <1>m DEF JoinsPrev, JoinsNext, JoinLo, JoinHi
<1> HIDE DEF l, h, jp, jn, lo, hi
<1>p. p \in Nat /\ p % 8 = 0 /\ (p # 0 => p \in F /\ p + mem[p] <= l)
  BY <1>m, <1>f, <1>b
<1>n. nx # NULL => nx \in F /\ nx \in Nat /\ l < nx /\ h <= nx
  BY <1>m, <1>f, <1>b
<1>h. /\ lo \in Nat /\ lo % 8 = 0 /\ hi \in Nat /\ hi % 8 = 0 /\ lo <= l /\ h <= hi
      /\ Base <= lo /\ hi <= Top /\ lo \in Blocks /\ lo \in Words /\ lo + 4 \in Words
  <2>1. lo \in Nat /\ lo % 8 = 0 /\ lo <= l /\ Base <= lo /\ lo \in Blocks /\ lo \in Words /\ lo + 4 \in Words
    <3>1. CASE jp BY <3>1, <1>j, <1>f, <1>b
    <3>2. CASE ~ jp BY <3>2, <1>j, <1>b, <1>w
    <3> QED BY <3>1, <3>2
  <2>2. hi \in Nat /\ hi % 8 = 0 /\ h <= hi /\ hi <= Top
    <3>1. CASE jn BY <3>1, <1>j, <1>f, <1>b
    <3>2. CASE ~ jn BY <3>2, <1>j, <1>b
    <3> QED BY <3>1, <3>2
  <2> QED BY <2>1, <2>2
(* The free blocks that are not joined with b.                             *)
<1> PICK K : K = {f \in F : ~ (jp /\ f = p) /\ ~ (jn /\ f = nx)}
  OBVIOUS
<1>1. ASSUME NEW f \in K PROVE (f + mem[f] < lo /\ f <= p) \/ (hi < f /\ nx # NULL /\ nx <= f)
  <2>0. f \in F /\ f \in Nat /\ mem[f] \in Nat /\ mem[f] >= 8 /\ (jp => f # p) /\ (jn => f # nx)
    BY <1>f
  <2>1. f <= p \/ (nx # NULL /\ nx <= f)
    BY <2>0, <1>m, <1>f DEF Follows
  <2>2. CASE f <= p
    <3>1. p # 0 /\ p \in F BY <2>0, <2>2, <1>f, <1>p
    <3>2. CASE f = p BY <3>1, <3>2, <2>0, <1>j, <1>p, <1>b
    <3>3. CASE f < p
      <4>1. f + mem[f] < p BY <3>1, <3>3, <2>0, <1>o
      <4>2. mem[p] \in Nat BY <3>1, <1>f
      <4> QED BY <4>1, <4>2, <3>1, <2>0, <2>2, <1>j, <1>p, <1>b
    <3> QED BY <3>2, <3>3, <2>0, <2>2, <1>p
  <2>3. CASE nx # NULL /\ nx <= f
    <3>1. nx \in F /\ nx \in Nat /\ mem[nx] \in Nat BY <2>3, <1>n, <1>f
    <3>2. CASE f = nx BY <3>1, <3>2, <2>0, <2>3, <1>j, <1>n, <1>b
    <3>3. CASE nx < f
      <4>1. nx + mem[nx] < f BY <3>1, <3>3, <2>0, <1>o
      <4> QED BY <4>1, <3>1, <2>0, <2>3, <1>j, <1>n, <1>b
    <3> QED BY <3>2, <3>3, <2>0, <3>1, <2>3
  <2> QED BY <2>1, <2>2, <2>3
(* The words of the free blocks.                                           *)
<1>2. ASSUME NEW f \in K
      PROVE  /\ f \in F /\ mem'[f] = mem[f]
             /\ mem'[f + 4] = IF f = p THEN l ELSE mem[f + 4]
  <2>0. /\ f \in F /\ f \in Nat /\ f % 8 = 0 /\ f > 0 /\ f \in Words /\ f + 4 \in Words
        /\ mem[f] \in Nat /\ mem[f] >= 8 /\ (f + mem[f] <= l \/ h <= f)
        /\ (jp => f # p)
    BY <1>f
  <2>1. f # l /\ f # l + 4 /\ f # p + 4 /\ f + 4 # l /\ f + 4 # l + 4 /\ f + 4 # p /\ (f + 4 = p + 4 <=> f = p)
    BY <2>0, <1>b, <1>p
  <2>2. mem'[f] = mem[f] BY <2>0, <2>1, <1>m
  <2>3. mem'[f + 4] = IF f = p THEN l ELSE mem[f + 4] BY <2>0, <2>1, <1>m
  <2> QED BY <2>0, <2>2, <2>3
<1>3. mem'[lo] = hi - lo /\ mem'[lo + 4] = nn
  <2>1. CASE jp
    <3>1. p # p + 4 /\ p + 4 # p /\ p # 0 /\ mem[p] \in Nat BY <2>1, <1>j, <1>p, <1>f
    <3>2. mem'[p] = mem[p] + (hi - l) /\ mem'[p + 4] = nn BY <2>1, <3>1, <1>m, <1>h, <1>j
    <3> QED BY <2>1, <3>1, <3>2, <1>j, <1>h, <1>b, <1>p
  <2>2. CASE ~ jp
    <3>1. (p # 0 => l # p + 4 /\ l + 4 # p + 4) /\ l + 4 # l BY <1>b, <1>p, <1>m
    <3> QED BY <2>2, <3>1, <1>j, <1>m, <1>w
  <2> QED BY <2>1, <2>2
(* The words of the other blocks in use.                                   *)
<1>4. ASSUME NEW c \in Used, c # b PROVE Hi(c) <= lo \/ hi <= Lo(c)
  <2>1. Lo(c) \in Nat /\ Hi(c) \in Nat /\ Lo(c) + 8 <= Hi(c) BY UsedFacts
  <2>2. Hi(c) <= l \/ h <= Lo(c) BY <1>4, <1>u DEF HeapInv, UsedShape, l, h
  <2>3. \A f \in F : f + mem[f] <= Lo(c) \/ Hi(c) <= f BY DEF HeapInv, Apart
  <2>4. jp => p + mem[p] <= Lo(c) \/ Hi(c) <= p BY <2>3, <1>j
  <2>5. jn => nx + mem[nx] <= Lo(c) \/ Hi(c) <= nx BY <2>3, <1>j
  <2>6. jp => p \in Nat /\ mem[p] \in Nat /\ mem[p] >= 8 BY <1>j, <1>f
  <2>7. jn => nx \in Nat /\ mem[nx] \in Nat /\ mem[nx] >= 8 BY <1>j, <1>f
  <2>8. Hi(c) <= lo \/ h <= Lo(c) BY <2>1, <2>2, <2>4, <2>6, <1>j, <1>b
  <2>9. Hi(c) <= l \/ hi <= Lo(c) BY <2>1, <2>2, <2>5, <2>7, <1>j, <1>b
  <2> QED BY <2>1, <2>8, <2>9, <1>b, <1>h
<1>5. ASSUME NEW c \in Used, c # b, NEW a \in Words, Lo(c) <= a, a < Hi(c) PROVE mem'[a] = mem[a]
  <2>1. Lo(c) \in Nat /\ Hi(c) \in Nat /\ a \in Nat BY UsedFacts, <1>f
  <2>2. Hi(c) <= l \/ h <= Lo(c) BY <1>5, <1>u DEF HeapInv, UsedShape, l, h
  <2>3. p # 0 => p + mem[p] <= Lo(c) \/ Hi(c) <= p BY <1>p DEF HeapInv, Apart
  <2>4. p # 0 => mem[p] \in Nat /\ mem[p] >= 8 BY <1>p, <1>f
  <2>5. a # l /\ a # l + 4 BY <2>1, <2>2, <1>5, <1>b
  <2>6. p # 0 => a # p /\ a # p + 4 BY <2>1, <2>3, <2>4, <1>5, <1>p
  <2> QED BY <2>5, <2>6, <1>j, <1>m
<1> PICK G : G = K \cup {lo}
  OBVIOUS
<1>6. FreeList(G)'
  <2> DEFINE H == F \cup {l}
             I == IF jn THEN H \ {nx} ELSE H
  <2>0. /\ \A f \in H : f \in Nat /\ f > 0
        /\ \A f \in I : f \in Nat /\ f > 0
    BY <1>f, <1>b, HeapFacts
  <2>1. /\ Follows(H, p, l) /\ Follows(H, l, nx)
        /\ \A f \in F : \A y : f # p /\ Follows(F, f, y) => Follows(H, f, y)
        /\ \A y : p # 0 /\ Follows(F, 0, y) => Follows(H, 0, y)
    BY <1>m, <1>f, <1>b, Link
  <2>2. /\ Follows(I, p, l) /\ Follows(I, l, nn)
        /\ \A f \in F : \A y : f # p /\ f # l /\ (jn => f # nx) /\ Follows(F, f, y) => Follows(I, f, y)
        /\ \A y : p # 0 /\ Follows(F, 0, y) => Follows(I, 0, y)
    <3>1. CASE ~ jn BY <3>1, <2>1
    <3>2. CASE jn
      <4>0. nx \in F /\ nx # l /\ nx # p /\ l # 0 /\ nx \in H /\ l \in H /\ p # l
        BY <3>2, <1>j, <1>b, <1>f, <1>m, <1>n, <1>p
      <4>1. Follows(H, nx, mem[nx + 4])
        <5>1. Follows(F, nx, mem[nx + 4]) BY <4>0 DEF HeapInv, FreeList
        <5> QED BY <4>0, <5>1, <2>1
      <4> HIDE DEF H
      <4>2. /\ Follows(H \ {nx}, l, mem[nx + 4])
            /\ \A f \in H \ {nx} : \A y : f # l /\ Follows(H, f, y) => Follows(H \ {nx}, f, y)
            /\ \A y : l # 0 /\ Follows(H, 0, y) => Follows(H \ {nx}, 0, y)
        BY <4>0, <4>1, <2>0, <2>1, Unlink
      <4>3. I = H \ {nx} /\ nn = mem[nx + 4] BY <3>2
      <4>4. Follows(I, p, l)
        <5>1. CASE p = 0 BY <5>1, <4>0, <4>2, <4>3, <2>1
        <5>2. CASE p # 0
          <6>1. p \in H \ {nx} /\ p # l BY <5>2, <1>p, <4>0 DEF H
          <6> QED BY <6>1, <4>2, <4>3, <2>1
        <5> QED BY <5>1, <5>2
      <4>5. ASSUME NEW f \in F, NEW y, f # p, f # l, f # nx, Follows(F, f, y) PROVE Follows(I, f, y)
        <5>1. f \in H \ {nx} BY <4>5 DEF H
        <5>2. Follows(H, f, y) BY <4>5, <2>1
        <5> QED BY <5>1, <5>2, <4>2, <4>3, <4>5
      <4>6. ASSUME NEW y, p # 0, Follows(F, 0, y) PROVE Follows(I, 0, y)
        BY <4>6, <2>1, <4>0, <4>2, <4>3
      <4> QED BY <3>2, <4>2, <4>3, <4>4, <4>5, <4>6
    <3> QED BY <3>1, <3>2
  <2>3. /\ \A f \in K : \A y : f # p /\ Follows(F, f, y) => Follows(G, f, y)
        /\ \A y : p # 0 /\ Follows(F, 0, y) => Follows(G, 0, y)
        /\ ~ jp => Follows(G, p, l) /\ Follows(G, l, nn)
        /\ jp => Follows(G, p, nn)
    <3>0. \A f \in K : f \in F /\ f # l /\ (jn => f # nx) /\ (jp => f # p)
      BY <1>f, <1>b
    <3>1. CASE ~ jp
      <4>1. G = I BY <3>1, <1>j, <1>f, <1>b
      <4> QED BY <3>0, <3>1, <4>1, <2>2
    <3>2. CASE jp
      <4>1. G = I \ {l} BY <3>2, <1>j, <1>f, <1>b, <1>m, <1>p, <1>n
      <4>2. l \in I /\ p \in I /\ p # 0 BY <3>2, <1>j, <1>b, <1>m, <1>p, <1>n
      <4>3. K \subseteq I \ {l} BY <3>0
      <4> HIDE DEF I, nn
      <4>4. /\ Follows(I \ {l}, p, nn)
            /\ \A f \in I \ {l} : \A y : f # p /\ Follows(I, f, y) => Follows(I \ {l}, f, y)
            /\ \A y : p # 0 /\ Follows(I, 0, y) => Follows(I \ {l}, 0, y)
        BY <4>2, <2>0, <2>2, Unlink
      <4> QED BY <3>0, <3>2, <4>1, <4>2, <4>3, <4>4, <2>2
    <3> QED BY <3>1, <3>2
  <2> HIDE DEF H, I, nn
  <2>4. G \subseteq Blocks BY <1>f, <1>h
  <2>5. Follows(G, 0, first_block')
    <3>1. Follows(F, 0, first_block) BY DEF HeapInv, FreeList
    <3>2. CASE p = 0 BY <3>2, <2>3, <1>m, <1>j
    <3>3. CASE p # 0 BY <3>1, <3>3, <2>3, <1>m
    <3> QED BY <3>2, <3>3
  <2>6. ASSUME NEW f \in G PROVE Follows(G, f, mem'[f + 4])
    <3>1. CASE f \in K
      <4>1. Follows(F, f, mem[f + 4]) BY <3>1 DEF HeapInv, FreeList
      <4>2. f = p => ~ jp BY <3>1
      <4> QED BY <3>1, <4>1, <4>2, <1>2, <2>3
    <3>2. CASE f = lo BY <3>2, <1>3, <1>j, <2>3
    <3> QED BY <3>1, <3>2
  <2> QED BY <2>4, <2>5, <2>6 DEF FreeList, Follows, Blocks, Words
<1> HIDE DEF nn
<1>7. FreeShape(G)'
  <2>1. ASSUME NEW f \in G
        PROVE  mem'[f] % 8 = 0 /\ mem'[f] >= 8 /\ Base <= f /\ f + mem'[f] <= Top
    <3>1. CASE f \in K BY <3>1, <1>2, <1>f
    <3>2. CASE f = lo BY <3>2, <1>3, <1>h, <1>b
    <3> QED BY <3>1, <3>2
  <2>2. ASSUME NEW f \in G, NEW g \in G, f < g PROVE f + mem'[f] < g
    <3>1. CASE f \in K /\ g \in K BY <3>1, <2>2, <1>o, <1>2
    <3>2. CASE f \in K /\ g = lo
      <4>1. f \in Nat /\ mem[f] \in Nat /\ mem'[f] = mem[f] BY <3>2, <1>2, <1>f
      <4>2. f + mem[f] < lo \/ hi < f BY <3>2, <1>1
      <4> QED BY <4>1, <4>2, <3>2, <2>2, <1>h, <1>b
    <3>3. CASE f = lo /\ g \in K
      <4>1. g \in Nat /\ mem[g] \in Nat /\ mem[g] >= 8 BY <3>3, <1>2, <1>f
      <4>2. g + mem[g] < lo \/ hi < g BY <3>3, <1>1
      <4> QED BY <4>1, <4>2, <3>3, <2>2, <1>3, <1>h
    <3>4. CASE f = lo /\ g = lo BY <3>4, <2>2, <1>h
    <3> QED BY <3>1, <3>2, <3>3, <3>4
  <2> QED BY <2>1, <2>2 DEF FreeShape, Base, Top
<1>8. Used' = Used \ {b} /\ live' = live \ {b}
  BY <1>m DEF HeapInv, UsedShape, Used
<1>9. UsedShape'
  <2>1. (live \cap leaked)' = {}
    BY <1>m DEF HeapInv, UsedShape
  <2> QED BY <2>1, <1>8 DEF HeapInv, UsedShape, Lo, Hi, block_size, Base, Top
<1>10. Apart(G)'
  <2> SUFFICES ASSUME NEW f \in G, NEW c \in Used \ {b}
               PROVE  f + mem'[f] <= Lo(c) \/ Hi(c) <= f
    BY <1>8 DEF Apart, Lo, Hi, block_size
  <2>1. CASE f \in K BY <2>1, <1>2 DEF HeapInv, Apart
  <2>2. CASE f = lo
    <3>1. lo + mem'[lo] = hi BY <1>3, <1>h
    <3> QED BY <2>2, <3>1, <1>4
  <2> QED BY <2>1, <2>2
<1>11. Covered(G)'
  <2> SUFFICES ASSUME NEW y \in Base .. Top - 1
               PROVE  \/ \E f \in G : f <= y /\ y < f + mem'[f]
                      \/ \E c \in Used \ {b} : Lo(c) <= y /\ y < Hi(c)
    BY <1>8 DEF Covered, Lo, Hi, block_size, Base, Top
  <2>0. y \in Nat BY HeapFacts
  <2>1. CASE lo <= y /\ y < hi
    <3>1. lo + mem'[lo] = hi BY <1>3, <1>h
    <3> QED BY <2>1, <3>1
  <2>2. CASE \E f \in F : f <= y /\ y < f + mem[f]
    <3>1. PICK f \in F : f <= y /\ y < f + mem[f] BY <2>2
    <3>2. CASE f \in K
      <4>1. f \in G /\ mem'[f] = mem[f] BY <3>2, <1>2
      <4> QED BY <3>1, <4>1
    <3>3. CASE jp /\ f = p
      BY <3>1, <3>3, <2>0, <2>1, <1>j, <1>h, <1>b, <1>p
    <3>4. CASE jn /\ f = nx
      BY <3>1, <3>4, <2>0, <2>1, <1>j, <1>h, <1>b, <1>n
    <3> QED BY <3>2, <3>3, <3>4
  <2>3. CASE \E c \in Used : Lo(c) <= y /\ y < Hi(c)
    <3>1. PICK c \in Used : Lo(c) <= y /\ y < Hi(c) BY <2>3
    <3>2. CASE c = b BY <3>1, <3>2, <2>0, <2>1, <1>h, <1>b DEF l, h
    <3>3. CASE c # b BY <3>1, <3>3
    <3> QED BY <3>2, <3>3
  <2>4. \/ \E f \in F : f <= y /\ y < f + mem[f]
        \/ \E c \in Used : Lo(c) <= y /\ y < Hi(c)
    BY DEF HeapInv, Covered
  <2> QED BY <2>2, <2>3, <2>4
<1>12. Headers'
  <2> SUFFICES ASSUME NEW c \in live \ {b}
               PROVE  \/ mem'[Lo(c)] = canary_encode(Lo(c), block_size(c.size))
                      \/ mem'[Lo(c)] % 2 = 1
    BY <1>8 DEF Headers, Lo, block_size, canary_encode
  <2>1. c \in Used BY DEF Used
  <2>2. mem'[Lo(c)] = mem[Lo(c)] BY <2>1, <1>5, UsedFacts
  <2> QED BY <2>2 DEF HeapInv, Headers
<1>13. DataIntact'
  <2> SUFFICES ASSUME NEW c \in live \ {b}, NEW a \in Words, a >= c.ptr, a < c.ptr + c.size
               PROVE  mem'[a] = Mark(c.ptr)
    BY <1>8 DEF DataIntact, DataWords, Words, Mark
  <2>1. c \in Used BY DEF Used
  <2>2. c.ptr \in Nat /\ c.size \in Nat /\ c.ptr = Lo(c) + 4 /\ c.ptr + c.size <= Hi(c) /\ Lo(c) \in Nat
        /\ Hi(c) \in Nat /\ a \in Nat
    BY <2>1, UsedFacts, BlockSize, <1>f
  <2>3. mem'[a] = mem[a] BY <2>1, <2>2, <1>5
  <2>4. mem[a] = Mark(c.ptr) BY DEF HeapInv, DataIntact, DataWords
  <2> QED BY <2>3, <2>4
<1>14. TypeOK'
  <2> DEFINE W == 0 .. 2^WordBits - 1
  <2>1. /\ first_block \in Blocks \cup {NULL} /\ mem \in [Words -> W]
        /\ live \subseteq [ptr : Words, size : Sizes] /\ leaked \subseteq [ptr : Words, size : Sizes]
    BY DEF HeapInv, TypeOK
  <2>2. \A y \in Nat : y <= HeapEnd => y \in W
    BY HeapFacts, WordAssumption
  <2>3. l \in W /\ hi - l \in W /\ (jp => mem[p] + (hi - l) \in W)
    <3>1. l <= HeapEnd /\ hi - l \in Nat /\ hi - l <= HeapEnd BY <1>b, <1>h, HeapFacts
    <3>2. jp => mem[p] + (hi - l) \in Nat /\ mem[p] + (hi - l) <= HeapEnd
      BY <1>j, <1>f, <1>b, <1>h, <1>p, HeapFacts
    <3> HIDE DEF W
    <3> QED BY <3>1, <3>2, <2>2, <1>b
  <2>4. nn \in W
    <3>1. nx = 0 \/ nx \in F BY <1>m DEF NULL
    <3>2. \A f \in F : f \in W /\ mem[f + 4] \in W
      <4> HIDE DEF W
      <4> QED BY <2>1, <2>2, <1>f, HeapFacts, BlockFacts
    <3>3. 0 \in W BY <2>2, HeapFacts
    <3> HIDE DEF W
    <3> QED BY <3>1, <3>2, <3>3, <1>j DEF nn
  <2> HIDE DEF W
  <2>5. mem' \in [Words -> W]
    BY <1>m, <2>1, <2>3, <2>4
  <2>6. first_block' \in Blocks \cup {NULL}
    BY <1>m, <1>w, <2>1
  <2> QED BY <2>1, <2>5, <2>6, <1>m DEF TypeOK, Blocks, Words, W
<1> QED BY <1>6, <1>7, <1>9, <1>10, <1>11, <1>12, <1>13, <1>14 DEF Inv, HeapInv
-------------------------------------------------------------------------------
(* The other steps, and the invariant.                                     *)

(* After alloc_init the heap is one free block.                            *)
LEMMA InitInv == ASSUME NoWrap, Init PROVE Inv
<1> DEFINE sz == ALIGN_DOWN(HeapEnd - HeapStart - (Base - HeapStart), MIN_BLOCK_SIZE)
<1>1. /\ first_block = Base /\ mem = WithBlock([a \in Words |-> 0], Base, sz, NULL)
      /\ live = {} /\ leaked = {}
  BY DEF Init, Base
<1>2. sz = Top - Base /\ sz % 8 = 0 /\ sz >= 8 /\ sz \in Nat
  <2>1. HeapEnd - HeapStart - (Base - HeapStart) = HeapEnd - Base BY HeapFacts
  <2>2. sz = HeapEnd - Base - ((HeapEnd - Base) % 8) BY <2>1 DEF ALIGN_DOWN, MIN_BLOCK_SIZE
  <2>3. Top = HeapEnd - (HeapEnd % 8) BY DEF Top, MIN_BLOCK_SIZE
  <2> HIDE DEF sz
  <2> QED BY <2>2, <2>3, HeapFacts
<1> HIDE DEF sz
<1>3. Base \in Nat /\ Base \in Blocks /\ Base \in Words /\ Base + 4 \in Words
  BY HeapFacts, BlockAddress
<1>4. \A a \in Words : mem[a] = IF a = Base THEN sz ELSE IF a = Base + 4 THEN NULL ELSE 0
  <2> DEFINE m == [a \in Words |-> 0]
  <2>1. DOMAIN m = Words /\ \A a \in Words : m[a] = 0 OBVIOUS
  <2> HIDE DEF m
  <2>2. \A a \in Words : WithBlock(m, Base, sz, NULL)[a] =
          IF a = Base THEN sz ELSE IF a = Base + 4 THEN NULL ELSE m[a]
    BY <2>1, <1>3, WithBlockMem
  <2> QED BY <1>1, <2>1, <2>2 DEF m
<1>5. mem[Base] = sz /\ mem[Base + 4] = NULL
  BY <1>3, <1>4
<1>6. FreeList({Base})
  BY <1>1, <1>3, <1>5, HeapFacts DEF FreeList, Follows
<1>7. FreeShape({Base})
  BY <1>5, <1>2, HeapFacts DEF FreeShape
<1>8. Apart({Base}) /\ UsedShape /\ Headers /\ DataIntact
  BY <1>1 DEF Apart, UsedShape, Headers, DataIntact, Used
<1>9. Covered({Base})
  BY <1>5, <1>2, HeapFacts DEF Covered
<1>10. TypeOK
  <2>1. mem = [a \in Words |-> mem[a]] BY <1>1 DEF WithBlock
  <2>2. \A a \in Words : mem[a] \in 0 .. 2^WordBits - 1
    BY <1>4, <1>2, HeapFacts, WordAssumption DEF NULL
  <2> QED BY <2>1, <2>2, <1>1, <1>3 DEF TypeOK
<1> QED BY <1>6, <1>7, <1>8, <1>9, <1>10 DEF Inv, HeapInv

(* A block that free refuses stays as it is.                               *)
LEMMA RefusedInv ==
  ASSUME NoWrap, NEW F, HeapInv(F), NEW b \in live, free_refused(b)
  PROVE  Inv'
<1>1. /\ live' = live \ {b} /\ leaked' = leaked \cup {b} /\ mem' = mem /\ first_block' = first_block
  BY DEF free_refused
<1>2. Used' = Used /\ (live \cap leaked)' = {}
  BY <1>1 DEF Used, HeapInv, UsedShape
<1>3. FreeList(F)' /\ FreeShape(F)' /\ Apart(F)' /\ Covered(F)' /\ UsedShape'
  BY <1>1, <1>2 DEF HeapInv, FreeList, FreeShape, Follows, Apart, Covered, UsedShape, Base, Top,
                    Lo, Hi, block_size, Blocks, Words
<1>4. Headers' /\ DataIntact' /\ TypeOK'
  BY <1>1 DEF HeapInv, Headers, DataIntact, TypeOK, Lo, canary_encode, block_size, DataWords, Words,
              Mark, Blocks
<1> QED BY <1>3, <1>4 DEF Inv, HeapInv

(* An overrun leaves an odd header, which cannot have the right canary.    *)
LEMMA OverrunInv ==
  ASSUME NoWrap, NEW F, HeapInv(F), NEW b \in live, Overrun(b)
  PROVE  Inv'
<1> DEFINE past == b.ptr - 4 + block_size(b.size)
           mark == Mark(b.ptr)
<1>1. /\ past + 4 \in {other.ptr : other \in live} /\ mem' = [mem EXCEPT ![past] = mark]
      /\ first_block' = first_block /\ live' = live /\ leaked' = leaked
  BY DEF Overrun
<1>2. PICK o \in live : o.ptr = past + 4
  BY <1>1
<1>3. b \in Used /\ o \in Used /\ Used' = Used /\ past = Hi(b)
  BY <1>1 DEF Used, Hi
<1>4. /\ Lo(o) \in Nat /\ o.ptr = Lo(o) + 4 /\ Lo(o) \in Words /\ Lo(o) + 8 <= Hi(o)
      /\ o.ptr + o.size <= Hi(o) /\ o.ptr \in Nat /\ Hi(o) \in Nat
  BY <1>3, UsedFacts
<1>5. past = Lo(o)
  BY <1>2, <1>3, <1>4, UsedFacts
<1>6. b.ptr \in Nat /\ b.ptr % 2 = 0 /\ b.ptr < 2^WordBits
  BY <1>3, UsedFacts, HeapFacts, WordAssumption
<1>7. mark \in 0 .. 2^WordBits - 1 /\ mark % 2 = 1
  <2>1. mark = 2^WordBits - 1 - b.ptr BY DEF Mark
  <2>2. 2^WordBits \in Nat /\ 2^WordBits % 2 = 0 BY WordAssumption
  <2> HIDE DEF mark
  <2> QED BY <2>1, <2>2, <1>6
<1> PICK l : l = Lo(o) OBVIOUS
<1> HIDE DEF past, mark
<1>8. mem'[l] = mark /\ \A a \in Words : a # l => mem'[a] = mem[a]
  BY <1>1, <1>4, <1>5, FreeFacts
<1>9. \A f \in F : mem'[f] = mem[f] /\ mem'[f + 4] = mem[f + 4]
  <2> TAKE f \in F
  <2>1. f + mem[f] <= l \/ Hi(o) <= f BY <1>3 DEF HeapInv, Apart
  <2>2. f \in Nat /\ mem[f] \in Nat /\ mem[f] >= 8 /\ f \in Words /\ f + 4 \in Words BY FreeFacts
  <2>3. f # l /\ f + 4 # l BY <2>1, <2>2, <1>4
  <2> QED BY <2>2, <2>3, <1>8
<1>10. FreeList(F)' /\ FreeShape(F)'
  BY <1>1, <1>9 DEF HeapInv, FreeList, FreeShape, Follows, Base, Top, Blocks, Words
<1>11. Apart(F)' /\ Covered(F)' /\ UsedShape'
  BY <1>1, <1>3, <1>9 DEF HeapInv, Apart, Covered, UsedShape, Base, Top, Lo, Hi, block_size
<1>12. Headers'
  <2> SUFFICES ASSUME NEW c \in live
               PROVE  \/ mem'[Lo(c)] = canary_encode(Lo(c), block_size(c.size))
                      \/ mem'[Lo(c)] % 2 = 1
    BY <1>1 DEF Headers, Lo, block_size, canary_encode
  <2>1. CASE Lo(c) = l BY <2>1, <1>7, <1>8
  <2>2. CASE Lo(c) # l
    <3>1. Lo(c) \in Words BY UsedFacts DEF Used
    <3>2. mem'[Lo(c)] = mem[Lo(c)] BY <2>2, <3>1, <1>8
    <3> QED BY <3>2 DEF HeapInv, Headers
  <2> QED BY <2>1, <2>2
<1>13. DataIntact'
  <2> SUFFICES ASSUME NEW c \in live, NEW a \in Words, a >= c.ptr, a < c.ptr + c.size
               PROVE  mem'[a] = Mark(c.ptr)
    BY <1>1 DEF DataIntact, DataWords, Words, Mark
  <2>1. c \in Used BY DEF Used
  <2>2. c.ptr \in Nat /\ c.size \in Nat /\ c.ptr = Lo(c) + 4 /\ c.ptr + c.size <= Hi(c) /\ Lo(c) \in Nat
        /\ Hi(c) \in Nat /\ a \in Nat
    BY <2>1, UsedFacts, BlockSize, FreeFacts
  <2>3. a # l
    <3>1. CASE c = o BY <3>1, <2>2
    <3>2. CASE c # o
      <4>1. Hi(c) <= l \/ Hi(o) <= Lo(c) BY <3>2, <2>1, <1>3 DEF HeapInv, UsedShape
      <4> QED BY <4>1, <2>2, <1>4
    <3> QED BY <3>1, <3>2
  <2>4. mem[a] = Mark(c.ptr) BY DEF HeapInv, DataIntact, DataWords
  <2> QED BY <2>3, <2>4, <1>8
<1>14. TypeOK'
  <2>1. mem' \in [Words -> 0 .. 2^WordBits - 1]
    BY <1>1, <1>7 DEF HeapInv, TypeOK
  <2> QED BY <2>1, <1>1 DEF HeapInv, TypeOK, Blocks, Words
<1> QED BY <1>10, <1>11, <1>12, <1>13, <1>14 DEF Inv, HeapInv

(* Every step keeps the invariant.                                         *)
LEMMA StepInv == ASSUME NoWrap, Inv, [Next]_vars PROVE Inv'
<1>1. PICK F : HeapInv(F) BY DEF Inv
<1>2. ASSUME UNCHANGED <<first_block, mem, live, leaked>> PROVE Inv'
  <2>1. HeapInv(F)'
    BY <1>1, <1>2 DEF HeapInv, FreeList, FreeShape, Follows, Apart, Covered, UsedShape, Used, Headers,
      DataIntact, TypeOK, Base, Top, Lo, Hi, block_size, canary_encode, DataWords, Mark, Blocks, Words
  <2> QED BY <2>1 DEF Inv
<1>3. ASSUME NEW n \in Sizes, domain_malloc(n) PROVE Inv'
  <2>1. PICK curr, p, x : Mallocs(F, n, curr, p, x) BY <1>1, <1>3, MallocEffect
  <2> QED BY <1>1, <2>1, MallocInv
<1>4. ASSUME NEW n \in Sizes, malloc_fails(n) PROVE Inv'
  BY <1>2, <1>4 DEF malloc_fails
<1>5. ASSUME NEW b \in live, domain_free(b) PROVE Inv'
  <2>1. PICK p, nx : Frees(F, b, p, nx) BY <1>1, <1>5, FreeEffect
  <2> QED BY <1>1, <2>1, FreeInv
<1>6. ASSUME NEW b \in live, free_refused(b) PROVE Inv'
  BY <1>1, <1>6, RefusedInv
<1>7. ASSUME NEW b \in live, Overrun(b) PROVE Inv'
  BY <1>1, <1>7, OverrunInv
<1>8. CASE UNCHANGED vars BY <1>2, <1>8 DEF vars
<1> QED BY <1>3, <1>4, <1>5, <1>6, <1>7, <1>8 DEF Next

(* The invariant says that the heap is partitioned.                        *)
LEMMA Partition == ASSUME NoWrap, Inv PROVE HeapPartitioned
<1>1. PICK F : HeapInv(F) BY DEF Inv
<1>2. FreeBlocks = F BY <1>1, FreeBlocksAre DEF HeapInv
<1>3. \A f \in F : f \in Nat /\ mem[f] \in Nat /\ mem[f] >= 8 /\ Base <= f /\ f + mem[f] <= Top
  BY <1>1, FreeFacts
<1>4. \A b \in Used : /\ Lo(b) \in Nat /\ Hi(b) \in Nat /\ Lo(b) + 8 <= Hi(b) /\ Base <= Lo(b) /\ Hi(b) <= Top
                      /\ Hi(b) = Lo(b) + block_size(b.size)
  BY <1>1, UsedFacts
<1> DEFINE E == {f .. f + mem[f] - 1 : f \in F}
           D == {Lo(b) .. Hi(b) - 1 : b \in Used}
<1>5. Extents = E \cup D
  <2>1. {Extent(f, SizeOf(mem, f)) : f \in FreeBlocks} = E
    BY <1>2 DEF Extent, SizeOf
  <2>2. {Extent(b.ptr - 4, block_size(b.size)) : b \in live \cup leaked} = D
    <3>1. ASSUME NEW b \in Used PROVE Extent(b.ptr - 4, block_size(b.size)) = Lo(b) .. Hi(b) - 1
      <4>1. b.ptr - 4 = Lo(b) /\ block_size(b.size) \in Nat
        BY <1>1, UsedFacts, BlockSize DEF Lo
      <4>2. Lo(b) + (block_size(b.size) - 1) = Hi(b) - 1
        BY <4>1, <1>4
      <4> QED BY <4>1, <4>2 DEF Extent
    <3> QED BY <3>1 DEF Used
  <2> HIDE DEF E, D
  <2> QED BY <2>1, <2>2 DEF Extents
<1>6. Bytes = Base .. Top - 1
  <2>1. HeapEnd - 1 - (HeapEnd % 8) = HeapEnd - (HeapEnd % 8) - 1 BY HeapFacts
  <2> QED BY <2>1 DEF Bytes, Base, Top, MIN_BLOCK_SIZE
<1>7. \A e \in E \cup D : e \subseteq Base .. Top - 1
  <2>1. \A f \in F : f .. f + mem[f] - 1 \subseteq Base .. Top - 1
    BY <1>3, HeapFacts
  <2>2. \A b \in Used : Lo(b) .. Hi(b) - 1 \subseteq Base .. Top - 1
    BY <1>4, HeapFacts
  <2> QED BY <2>1, <2>2
<1>8. ASSUME NEW y \in Base .. Top - 1 PROVE \E e \in E \cup D : y \in e
  <2>0. y \in Nat BY HeapFacts
  <2>1. CASE \E f \in F : f <= y /\ y < f + mem[f]
    <3>1. PICK f \in F : f <= y /\ y < f + mem[f] BY <2>1
    <3>2. y \in f .. f + mem[f] - 1 BY <3>1, <2>0, <1>3
    <3> QED BY <3>2
  <2>2. CASE \E b \in Used : Lo(b) <= y /\ y < Hi(b)
    <3>1. PICK b \in Used : Lo(b) <= y /\ y < Hi(b) BY <2>2
    <3>2. y \in Lo(b) .. Hi(b) - 1 BY <3>1, <2>0, <1>4
    <3> QED BY <3>2
  <2> QED BY <2>1, <2>2, <1>1 DEF HeapInv, Covered
<1>9. UNION (E \cup D) = Base .. Top - 1
  <2> HIDE DEF E, D
  <2> QED BY <1>7, <1>8
<1>10. ASSUME NEW e \in E \cup D, NEW d \in E \cup D, e # d PROVE e \cap d = {}
  <2>1. ASSUME NEW f \in F, NEW g \in F, f # g
        PROVE  (f .. f + mem[f] - 1) \cap (g .. g + mem[g] - 1) = {}
    <3>1. f + mem[f] < g \/ g + mem[g] < f BY <2>1, <1>1, <1>3 DEF HeapInv, FreeShape
    <3> QED BY <3>1, <1>3
  <2>2. ASSUME NEW f \in F, NEW b \in Used
        PROVE  (f .. f + mem[f] - 1) \cap (Lo(b) .. Hi(b) - 1) = {}
    <3>1. f + mem[f] <= Lo(b) \/ Hi(b) <= f BY <1>1 DEF HeapInv, Apart
    <3> QED BY <3>1, <1>3, <1>4
  <2>3. ASSUME NEW b \in Used, NEW c \in Used, b # c
        PROVE  (Lo(b) .. Hi(b) - 1) \cap (Lo(c) .. Hi(c) - 1) = {}
    <3>1. Hi(b) <= Lo(c) \/ Hi(c) <= Lo(b) BY <2>3, <1>1 DEF HeapInv, UsedShape
    <3> QED BY <3>1, <1>4
  <2>4. CASE e \in E /\ d \in E
    <3>1. PICK f \in F, g \in F : e = f .. f + mem[f] - 1 /\ d = g .. g + mem[g] - 1 BY <2>4
    <3> QED BY <3>1, <1>10, <2>1
  <2>5. CASE e \in E /\ d \in D
    <3>1. PICK f \in F, b \in Used : e = f .. f + mem[f] - 1 /\ d = Lo(b) .. Hi(b) - 1 BY <2>5
    <3> QED BY <3>1, <2>2
  <2>6. CASE e \in D /\ d \in E
    <3>1. PICK f \in F, b \in Used : d = f .. f + mem[f] - 1 /\ e = Lo(b) .. Hi(b) - 1 BY <2>6
    <3> QED BY <3>1, <2>2
  <2>7. CASE e \in D /\ d \in D
    <3>1. PICK b \in Used, c \in Used : e = Lo(b) .. Hi(b) - 1 /\ d = Lo(c) .. Hi(c) - 1 BY <2>7
    <3> QED BY <3>1, <1>10, <2>3
  <2> HIDE DEF E, D
  <2> QED BY <2>4, <2>5, <2>6, <2>7
<1> HIDE DEF E, D
<1> QED BY <1>5, <1>6, <1>9, <1>10 DEF HeapPartitioned
-------------------------------------------------------------------------------
(* First fit.  A place between the blocks in use is within one free block, *)
(* as free blocks that touch have been joined.                             *)
LEMMA PlaceIsFree ==
  ASSUME NoWrap, NEW F, HeapInv(F), NEW s \in Nat, s > 0,
         NEW lo \in Nat, Base <= lo, lo + s <= Top,
         \A b \in Used : lo + s <= Lo(b) \/ Hi(b) <= lo
  PROVE  \E f \in F : f <= lo /\ lo + s <= f + mem[f]
<1>1. \A b \in Used : Lo(b) \in Nat /\ Hi(b) \in Nat
  BY UsedFacts
<1>2. \A f \in F : f \in Nat /\ mem[f] \in Nat /\ f + mem[f] <= Top
  BY FreeFacts
<1>3. ASSUME NEW y \in Nat, lo <= y, y < lo + s PROVE \E f \in F : f <= y /\ y < f + mem[f]
  <2>1. y \in Base .. Top - 1 BY <1>3, HeapFacts
  <2>2. ASSUME NEW b \in Used PROVE ~ (Lo(b) <= y /\ y < Hi(b))
    BY <1>1, <1>3
  <2> QED BY <2>1, <2>2 DEF HeapInv, Covered
<1>4. PICK f \in F : f <= lo /\ lo < f + mem[f]
  BY <1>3
<1>5. ASSUME f + mem[f] < lo + s PROVE FALSE
  <2> DEFINE y == f + mem[f]
  <2>1. y \in Nat /\ lo <= y /\ y < lo + s BY <1>2, <1>4, <1>5
  <2> HIDE DEF y
  <2>2. PICK g \in F : g <= y /\ y < g + mem[g] BY <1>3, <2>1
  <2>3. g = f \/ g < f \/ f < g BY <1>2
  <2>4. g < f => g + mem[g] < f BY DEF HeapInv, FreeShape
  <2>5. f < g => f + mem[f] < g BY DEF HeapInv, FreeShape
  <2> QED BY <2>1, <2>2, <2>3, <2>4, <2>5, <1>2, <1>4 DEF y
<1> QED BY <1>2, <1>4, <1>5

(* The abstract heap asks for blocks of the same size.                     *)
LEMMA NeededIs ==
  ASSUME NoWrap, NEW n \in Sizes
  PROVE  Ideal!Needed(n) = block_size(n)
<1> DEFINE s == block_size(n)
           M == {k * 8 : k \in 1 .. n + 4}
           P(t) == t >= n + 4 /\ t - 8 < n + 4
<1>1. n \in Nat /\ s \in Nat /\ s % 8 = 0 /\ s >= n + 4 /\ s < n + 12 /\ s >= 8
  BY BlockSize
<1> HIDE DEF s
<1>2. s \in M /\ P(s)
  <2>1. s \div 8 \in 1 .. n + 4 /\ s = (s \div 8) * 8 BY <1>1
  <2> QED BY <2>1, <1>1
<1>3. ASSUME NEW t \in M, P(t) PROVE t = s
  <2>1. PICK k \in 1 .. n + 4 : t = k * 8 OBVIOUS
  <2>2. k \in Nat /\ t \in Nat /\ t % 8 = 0 BY <2>1, <1>1
  <2> QED BY <2>2, <1>1, <1>3
<1>4. Ideal!Needed(n) = CHOOSE t \in M : P(t)
  BY DEF Ideal!Needed, MIN_BLOCK_SIZE
<1> HIDE DEF M, P
<1> QED BY <1>2, <1>3, <1>4 DEF s

(* Where the abstract heap has room.                                       *)
LEMMA PlacesAre ==
  ASSUME NoWrap, NEW F, HeapInv(F), NEW s \in Nat, s > 0
  PROVE  \A lo : lo \in Ideal!Places(s) <=>
           /\ lo \in Nat /\ lo % 8 = 0 /\ Base <= lo /\ lo + s <= Top
           /\ \A b \in Used : lo + s <= Lo(b) \/ Hi(b) <= lo
<1> DEFINE L == {Base + k * 8 : k \in 0 .. (Top - Base) \div 8}
           Room(lo) == lo + s <= Top /\ \A b \in Used : lo + s <= Lo(b) \/ Hi(b) <= lo
<1>1. Ideal!Places(s) = {lo \in L : Ideal!Fits(lo, s)}
  BY DEF Ideal!Places, Base, Top, MIN_BLOCK_SIZE
<1>2. \A lo : Ideal!Fits(lo, s) <=> Room(lo)
  <2> DEFINE r(b) == [lo |-> b.ptr - 4, hi |-> b.ptr - 4 + block_size(b.size)]
             Free(lo, u, v) == lo + s <= u \/ v <= lo
  <2>1. \A lo : Ideal!Fits(lo, s) <=>
          lo + s <= Top /\ \A c \in {r(b) : b \in live \cup leaked} : Free(lo, c.lo, c.hi)
    BY DEF Ideal!Fits, Top, MIN_BLOCK_SIZE
  <2>2. \A b : r(b).lo = Lo(b) /\ r(b).hi = Hi(b)
    BY DEF Lo, Hi
  <2>3. \A lo : Room(lo) <=> lo + s <= Top /\ \A b \in Used : Free(lo, Lo(b), Hi(b))
    OBVIOUS
  <2> HIDE DEF r, Free, Room
  <2> QED BY <2>1, <2>2, <2>3 DEF Used
<1>3. ASSUME NEW lo \in L PROVE lo \in Nat /\ lo % 8 = 0 /\ Base <= lo
  <2>1. PICK k \in 0 .. (Top - Base) \div 8 : lo = Base + k * 8 OBVIOUS
  <2>2. k \in Nat BY HeapFacts
  <2> HIDE DEF L
  <2> QED BY <2>1, <2>2, HeapFacts
<1>4. ASSUME NEW lo \in Nat, lo % 8 = 0, Base <= lo, lo + s <= Top PROVE lo \in L
  <2> DEFINE k == (lo - Base) \div 8
  <2>1. k \in Nat /\ lo = Base + k * 8 /\ k <= (Top - Base) \div 8 BY <1>4, HeapFacts
  <2> HIDE DEF k
  <2>2. k \in 0 .. (Top - Base) \div 8 BY <2>1, HeapFacts
  <2> QED BY <2>1, <2>2
<1> HIDE DEF L
<1> QED BY <1>1, <1>2, <1>3, <1>4

(* The block that domain_malloc takes is the one the abstract heap takes.  *)
LEMMA MallocImplements ==
  ASSUME NoWrap, NEW F, HeapInv(F), NEW n \in Sizes, NEW curr, NEW p, NEW x,
         Mallocs(F, n, curr, p, x)
  PROVE  Ideal!Malloc(n)
<1> DEFINE s == block_size(n)
<1>1. /\ curr \in F /\ s < MAX_BLOCK_SIZE /\ mem[curr] >= s /\ \A g \in F : mem[g] >= s => curr <= g
      /\ live' = live \cup {[ptr |-> curr + 4, size |-> n]} /\ leaked' = leaked
      /\ ret' = <<"malloc", n, curr + 4>>
  BY DEF Mallocs
<1>2. s \in Nat /\ s > 0 BY BlockSize
<1>3. \A f \in F : /\ f \in Nat /\ f % 8 = 0 /\ mem[f] \in Nat /\ Base <= f /\ f + mem[f] <= Top
  BY FreeFacts
<1>4. \A b \in Used : Lo(b) \in Nat /\ Hi(b) \in Nat /\ (curr + mem[curr] <= Lo(b) \/ Hi(b) <= curr)
  BY <1>1, UsedFacts DEF HeapInv, Apart
<1>5. curr \in Ideal!Places(s)
  <2>1. /\ curr \in Nat /\ curr % 8 = 0 /\ Base <= curr /\ curr + s <= Top
        /\ \A b \in Used : curr + s <= Lo(b) \/ Hi(b) <= curr
    BY <1>1, <1>2, <1>3, <1>4, HeapFacts
  <2> HIDE DEF s
  <2> QED BY <2>1, <1>2, PlacesAre
<1>6. ASSUME NEW o \in Ideal!Places(s) PROVE curr <= o
  <2>1. /\ o \in Nat /\ Base <= o /\ o + s <= Top /\ \A b \in Used : o + s <= Lo(b) \/ Hi(b) <= o
    <3> HIDE DEF s
    <3> QED BY <1>2, PlacesAre
  <2>2. PICK f \in F : f <= o /\ o + s <= f + mem[f]
    <3> HIDE DEF s
    <3> QED BY <1>2, <2>1, PlaceIsFree
  <2>3. mem[f] >= s BY <2>1, <2>2, <1>2, <1>3
  <2> QED BY <2>1, <2>2, <2>3, <1>1, <1>3
<1> DEFINE blk(S) == {[lo |-> b.ptr - 4, hi |-> b.ptr - 4 + block_size(b.size)] : b \in S}
<1>7. blk((live \cup leaked)') = blk(live \cup leaked) \cup {[lo |-> curr, hi |-> curr + s]}
  <2> DEFINE b == [ptr |-> curr + 4, size |-> n]
  <2>1. (live \cup leaked)' = (live \cup leaked) \cup {b} BY <1>1
  <2>2. b.ptr - 4 = curr /\ b.ptr - 4 + block_size(b.size) = curr + s BY <1>1, <1>3
  <2> HIDE DEF b, s
  <2> QED BY <2>1, <2>2
<1>8. Ideal!Needed(n) = s BY NeededIs
<1> HIDE DEF s
<1> QED BY <1>1, <1>5, <1>6, <1>7, <1>8 DEF Ideal!Malloc

(* malloc fails only when the abstract heap has no room.                   *)
LEMMA FailureImplements ==
  ASSUME NoWrap, NEW F, HeapInv(F), NEW n \in Sizes, malloc_fails(n)
  PROVE  Ideal!MallocFails(n)
<1> DEFINE s == block_size(n)
<1>1. /\ s >= MAX_BLOCK_SIZE \/ Nth[Skipped(LargeEnough(s))] = NULL
      /\ ret' = <<"malloc", n, NULL>> /\ live' = live /\ leaked' = leaked
  BY DEF malloc_fails
<1>2. s \in Nat /\ s > 0 BY BlockSize
<1>3. Ideal!Needed(n) = s BY NeededIs
<1> HIDE DEF s
<1>4. ASSUME Nth[Skipped(LargeEnough(s))] = NULL PROVE Ideal!Places(s) = {}
  <2> SUFFICES ASSUME NEW o \in Ideal!Places(s) PROVE FALSE
    OBVIOUS
  <2>1. /\ o \in Nat /\ Base <= o /\ o + s <= Top /\ \A b \in Used : o + s <= Lo(b) \/ Hi(b) <= o
    BY <1>2, PlacesAre
  <2>2. PICK f \in F : f <= o /\ o + s <= f + mem[f]
    BY <1>2, <2>1, PlaceIsFree
  <2>3. f \in Words /\ f \in Nat /\ mem[f] \in Nat BY FreeFacts
  <2>4. f \in F \cap LargeEnough(s)
    BY <2>1, <2>2, <2>3, <1>2 DEF LargeEnough, SizeOf
  <2> QED BY <2>4, <1>4, Search DEF HeapInv
<1> QED BY <1>1, <1>3, <1>4 DEF Ideal!MallocFails, NULL

(* domain_free gives back what was taken.                                  *)
LEMMA FreeImplements ==
  ASSUME NoWrap, NEW F, HeapInv(F), NEW b \in live, NEW p, NEW nx, Frees(F, b, p, nx)
  PROVE  Ideal!Free([lo |-> Lo(b), hi |-> Hi(b)])
<1> DEFINE r(c) == [lo |-> c.ptr - 4, hi |-> c.ptr - 4 + block_size(c.size)]
<1>1. live' = live \ {b} /\ leaked' = leaked /\ ret' = <<"free", b.ptr>>
  BY DEF Frees
<1>2. (live \cup leaked)' = (live \cup leaked) \ {b}
  BY <1>1 DEF HeapInv, UsedShape
<1>3. \A c \in live \cup leaked : c # b => r(c) # r(b)
  <2> TAKE c \in live \cup leaked
  <2>1. c \in Used /\ b \in Used BY DEF Used
  <2>2. c # b => Hi(c) <= Lo(b) \/ Hi(b) <= Lo(c) BY <2>1 DEF HeapInv, UsedShape
  <2>3. /\ Lo(c) \in Nat /\ Hi(c) \in Nat /\ Lo(c) + 8 <= Hi(c)
        /\ Lo(b) \in Nat /\ Hi(b) \in Nat /\ Lo(b) + 8 <= Hi(b)
    BY <2>1, UsedFacts
  <2>4. c # b => Lo(c) # Lo(b) BY <2>2, <2>3
  <2> QED BY <2>4 DEF Lo
<1>4. {r(c) : c \in (live \cup leaked)'} = {r(c) : c \in live \cup leaked} \ {r(b)}
  <2> HIDE DEF r
  <2> QED BY <1>2, <1>3
<1>5. r(b) = [lo |-> Lo(b), hi |-> Hi(b)] /\ Lo(b) + 4 = b.ptr
  BY UsedFacts DEF Lo, Hi, Used
<1> QED BY <1>1, <1>4, <1>5 DEF Ideal!Free

(* Every step is a step of the abstract heap.                              *)
LEMMA StepImplements ==
  ASSUME NoWrap, Inv, [Next]_vars
  PROVE  [Ideal!Next]_(Ideal!vars)
<1>1. PICK F : HeapInv(F) BY DEF Inv
<1> DEFINE r(c) == [lo |-> c.ptr - 4, hi |-> c.ptr - 4 + block_size(c.size)]
           blk == {r(c) : c \in live \cup leaked}
<1>2. \A b \in live : [lo |-> Lo(b), hi |-> Hi(b)] \in blk
  BY DEF Lo, Hi
<1>3. ASSUME NEW n \in Sizes, domain_malloc(n) PROVE Ideal!Next
  <2>1. PICK curr, p, x : Mallocs(F, n, curr, p, x) BY <1>1, <1>3, MallocEffect
  <2>2. Ideal!Malloc(n) BY <1>1, <2>1, MallocImplements
  <2> QED BY <2>2 DEF Ideal!Next
<1>4. ASSUME NEW n \in Sizes, malloc_fails(n) PROVE Ideal!Next
  <2>1. Ideal!MallocFails(n) BY <1>1, <1>4, FailureImplements
  <2> QED BY <2>1 DEF Ideal!Next
<1>5. ASSUME NEW b \in live, domain_free(b) PROVE Ideal!Next
  <2>1. PICK p, nx : Frees(F, b, p, nx) BY <1>1, <1>5, FreeEffect
  <2>2. Ideal!Free([lo |-> Lo(b), hi |-> Hi(b)]) BY <1>1, <2>1, FreeImplements
  <2> QED BY <2>2, <1>2 DEF Ideal!Next
<1>6. ASSUME NEW b \in live, free_refused(b) PROVE Ideal!Next
  <2>1. /\ live' = live \ {b} /\ leaked' = leaked \cup {b} /\ ret' = <<"refused", b.ptr>>
    BY <1>6 DEF free_refused
  <2>2. (live \cup leaked)' = live \cup leaked BY <2>1
  <2>3. Lo(b) + 4 = b.ptr BY <1>1, UsedFacts DEF Used
  <2>4. Ideal!FreeRefused([lo |-> Lo(b), hi |-> Hi(b)])
    BY <2>1, <2>2, <2>3 DEF Ideal!FreeRefused
  <2> QED BY <2>4, <1>2 DEF Ideal!Next
<1>7. ASSUME NEW b \in live, Overrun(b) PROVE UNCHANGED Ideal!vars
  BY <1>7 DEF Overrun, Ideal!vars
<1>8. CASE UNCHANGED vars BY <1>8 DEF vars, Ideal!vars
<1> QED BY <1>3, <1>4, <1>5, <1>6, <1>7, <1>8 DEF Next
-------------------------------------------------------------------------------
(* The theorems.                                                           *)

(* The inductive invariant holds.                                          *)
THEOREM AllocInvariant == ASSUME NoWrap PROVE Spec => []Inv
<1>1. Init => Inv BY InitInv
<1>2. Inv /\ [Next]_vars => Inv' BY StepInv
<1> QED BY <1>1, <1>2, PTL DEF Spec

(* Every value that alloc.c keeps in the heap fits its word, and the list  *)
(* starts at a block or is empty.                                          *)
THEOREM AllocTyped == ASSUME NoWrap PROVE Spec => []TypeOK
<1>1. Inv => TypeOK BY DEF Inv, HeapInv
<1> QED BY <1>1, AllocInvariant, PTL

(* Free blocks and blocks in use make up the heap after any sequence of    *)
(* domain_malloc and domain_free: nothing is lost or given out twice.      *)
THEOREM HeapIsPartitioned == ASSUME NoWrap PROVE Spec => []HeapPartitioned
<1>1. Inv => HeapPartitioned BY Partition
<1> QED BY <1>1, AllocInvariant, PTL

(* The allocator, whose list is in the same memory, never writes into a    *)
(* block that the application holds.                                       *)
THEOREM BlocksIntact == ASSUME NoWrap PROVE Spec => []DataIntact
<1>1. Inv => DataIntact BY DEF Inv, HeapInv
<1> QED BY <1>1, AllocInvariant, PTL

(* alloc.c implements the ideal heap: domain_malloc returns the lowest     *)
(* place that is large enough, and NULL only when there is none.           *)
THEOREM HeapImplemented == ASSUME NoWrap PROVE Spec => ImplementsHeap
<1>1. Init => Ideal!Init
  BY DEF Init, Ideal!Init
<1>2. Inv /\ [Next]_vars => [Ideal!Next]_(Ideal!vars)
  BY StepImplements
<1> QED BY <1>1, <1>2, AllocInvariant, PTL DEF ImplementsHeap, Ideal!Spec, Spec
===============================================================================
