--------------------------------- MODULE Alloc ---------------------------------
(***************************************************************************)
(* software/runtime/alloc.c: a heap whose free blocks form a linked list   *)
(* that lives in the free memory itself.  Addresses are bytes, memory is   *)
(* read and written in words of four.  A free block holds its size and the *)
(* address of the next one in its first two words; a block in use holds    *)
(* its size and a canary in the first word, the rest is the application's. *)
(***************************************************************************)
EXTENDS Integers

CONSTANTS HeapStart, HeapEnd,  \* __heap_start, __heap_end
          WordBits,            \* bits of a uint32_t
          Sizes                \* sizes the application requests

NULL == 0
MIN_BLOCK_SIZE == 8
MAX_BLOCK_SIZE == 2^(WordBits - 8)

ASSUME HeapAssumption ==
  /\ HeapStart \in Nat \ {0} /\ HeapEnd \in Nat
  /\ HeapStart % 4 = 0 /\ HeapEnd - HeapStart >= 2 * MIN_BLOCK_SIZE
  /\ HeapEnd < 2^WordBits

(* A word has room for a size below MAX_BLOCK_SIZE and the canary's byte.  *)
ASSUME WordAssumption ==
  /\ 2^WordBits \in Nat /\ MAX_BLOCK_SIZE \in Nat
  /\ 2^WordBits = 256 * MAX_BLOCK_SIZE
  /\ Sizes \subseteq Nat

UInt(x) == x % 2^WordBits

ALIGN_UPNot(addr, size) == addr                          \* mutant: not rounded

ALIGN_UP(addr, size) == UInt(UInt(addr + size - 1) - (UInt(addr + size - 1) % size))
ALIGN_DOWN(addr, size) == addr - (addr % size)

Words == {a \in HeapStart .. HeapEnd - 1 : a % 4 = 0}

VARIABLES first_block,
          mem,           \* the words of the heap
          live,          \* the application's blocks: where and for how many bytes
          leaked,        \* blocks that it gave back with a broken header
          ret            \* what the last call was and returned

vars == <<first_block, mem, live, leaked, ret>>

SizeOf(m, block) == m[block]
NextOf(m, block) == m[block + 4]
WithBlock(m, block, size, next) == [m EXCEPT ![block] = size, ![block + 4] = next]

-------------------------------------------------------------------------------
(* The canary: the low byte of a block's address.                          *)
canary(ptr) == ptr % 256
canary_encode(ptr, size) == UInt(size * 256) + canary(ptr)
canary_decode(value) == [canary |-> value % 256, size |-> value \div 256]

(* alloc_init *)
Init ==
  LET base == ALIGN_UP(HeapStart, MIN_BLOCK_SIZE)
      size == ALIGN_DOWN(HeapEnd - HeapStart - (base - HeapStart), MIN_BLOCK_SIZE)
  IN  /\ first_block = base
      /\ mem = WithBlock([a \in Words |-> 0], base, size, NULL)
      /\ live = {} /\ leaked = {}
      /\ ret = <<>>

-------------------------------------------------------------------------------
(* The list: its i-th block, NULL after the last one.                      *)
Nth[i \in Nat] == IF i = 0 THEN first_block
                  ELSE IF Nth[i - 1] = NULL THEN NULL ELSE NextOf(mem, Nth[i - 1])

(* How many blocks a search for one of stops skips, all when there is none.*)
Skipped(stops) ==
  CHOOSE i \in 0 .. HeapEnd : /\ Nth[i] \in stops \cup {NULL}
                              /\ \A j \in 0 .. i - 1 : Nth[j] \notin stops \cup {NULL}

LargeEnough(size) == {block \in Words : SizeOf(mem, block) >= size}
Above(ptr) == {block \in Words : block >= ptr}

(* The memory and the first block once the pointer after the i-th position *)
(* of the list is set to block.                                            *)
Linked(m, i, block) ==
  [mem |-> IF i > 0 THEN [m EXCEPT ![Nth[i - 1] + 4] = block] ELSE m,
   first |-> IF i > 0 THEN first_block ELSE block]

(* allocate_memory when the i-th block is the first one large enough.      *)
allocate_memoryUncut(i, size) ==                          \* mutant: the rest keeps its size
  LET curr == Nth[i]
  IN  IF SizeOf(mem, curr) = size THEN Linked(mem, i, NextOf(mem, curr))
      ELSE Linked(WithBlock(mem, curr + size, SizeOf(mem, curr), NextOf(mem, curr)), i, curr + size)

allocate_memory(i, size) ==
  LET curr == Nth[i]
      rest == curr + size
  IN  IF SizeOf(mem, curr) = size THEN Linked(mem, i, NextOf(mem, curr))
      ELSE Linked(WithBlock(mem, rest, SizeOf(mem, curr) - size, NextOf(mem, curr)), i, rest)

block_sizeBare(size) == ALIGN_UP(size, MIN_BLOCK_SIZE)    \* mutant: no room for the header

block_size(size) == ALIGN_UP(UInt(size + 4), MIN_BLOCK_SIZE)

(* What the application writes into its block at ptr, recognisably.        *)
Mark(ptr) == 2^WordBits - 1 - ptr
DataWords(b) == {a \in Words : a >= b.ptr /\ a < b.ptr + b.size}

(* domain_malloc; the application fills the block it gets.                 *)
domain_malloc(size) ==
  LET need == block_size(size)
      i == Skipped(LargeEnough(need))
      list == allocate_memory(i, need)
      b == [ptr |-> Nth[i] + 4, size |-> size]
  IN  /\ need < MAX_BLOCK_SIZE
      /\ Nth[i] # NULL
      /\ first_block' = list.first
      /\ mem' = [a \in Words |-> IF a = Nth[i] THEN canary_encode(Nth[i], need)
                                 ELSE IF a \in DataWords(b) THEN Mark(b.ptr) ELSE list.mem[a]]
      /\ live' = live \cup {b}
      /\ ret' = <<"malloc", size, b.ptr>>
      /\ UNCHANGED leaked

(* The two ways in which domain_malloc returns NULL.                       *)
malloc_fails(size) ==
  LET need == block_size(size)
  IN  /\ \/ need >= MAX_BLOCK_SIZE
         \/ Nth[Skipped(LargeEnough(need))] = NULL
      /\ ret' = <<"malloc", size, NULL>>
      /\ UNCHANGED <<first_block, mem, live, leaked>>

(* free_memory: the block goes between its neighbours in the list and is   *)
(* joined with those that touch it.                                        *)
free_memoryApart(block, size) ==                          \* mutant: not joined with prev
  LET i == Skipped(Above(block))
      next == Nth[i]
      own == IF block + size = next
             THEN WithBlock(mem, block, size + SizeOf(mem, next), NextOf(mem, next))
             ELSE WithBlock(mem, block, size, next)
  IN  Linked(own, i, block)

free_memory(block, size) ==
  LET i == Skipped(Above(block))
      next == Nth[i]
      prev == Nth[i - 1]
      own == IF block + size = next
             THEN WithBlock(mem, block, size + SizeOf(mem, next), NextOf(mem, next))
             ELSE WithBlock(mem, block, size, next)
  IN  IF i > 0 /\ prev + SizeOf(own, prev) = block
      THEN [mem |-> WithBlock(own, prev, SizeOf(own, prev) + SizeOf(own, block), NextOf(own, block)),
            first |-> first_block]
      ELSE Linked(own, i, block)

(* domain_free *)
domain_free(b) ==
  LET block == b.ptr - 4
      header == canary_decode(mem[block])
      list == free_memory(block, header.size)
  IN  /\ header.canary = canary(block)
      /\ first_block' = list.first
      /\ mem' = list.mem
      /\ live' = live \ {b}
      /\ ret' = <<"free", b.ptr>>
      /\ UNCHANGED leaked

(* domain_free that reports a memory overflow and returns.                 *)
free_refused(b) ==
  /\ canary_decode(mem[b.ptr - 4]).canary # canary(b.ptr - 4)
  /\ live' = live \ {b}
  /\ leaked' = leaked \cup {b}
  /\ ret' = <<"refused", b.ptr>>
  /\ UNCHANGED <<first_block, mem>>

(* The application writes one word past its block, over the header of the  *)
(* block after it: the mistake the canary is there to detect.              *)
Overrun(b) ==
  LET past == b.ptr - 4 + block_size(b.size)
  IN  /\ past + 4 \in {other.ptr : other \in live}
      /\ mem' = [mem EXCEPT ![past] = Mark(b.ptr)]
      /\ UNCHANGED <<first_block, live, leaked, ret>>

Next == \/ \E size \in Sizes : domain_malloc(size) \/ malloc_fails(size)
        \/ \E b \in live : domain_free(b) \/ free_refused(b) \/ Overrun(b)

Spec == Init /\ [][Next]_vars

-------------------------------------------------------------------------------
Blocks == {a \in Words : a % MIN_BLOCK_SIZE = 0 /\ a + 4 \in Words}
Bytes == ALIGN_UP(HeapStart, MIN_BLOCK_SIZE) .. HeapEnd - 1 - (HeapEnd % MIN_BLOCK_SIZE)

(* Types of the variables.                                                 *)
TypeOK ==
  /\ first_block \in Blocks \cup {NULL}
  /\ mem \in [Words -> 0 .. 2^WordBits - 1]
  /\ live \subseteq [ptr : Words, size : Sizes]
  /\ leaked \subseteq [ptr : Words, size : Sizes]

FreeBlocks == {Nth[i] : i \in 0 .. HeapEnd \div MIN_BLOCK_SIZE} \ {NULL}
Extent(block, size) == block .. block + size - 1
Extents == {Extent(f, SizeOf(mem, f)) : f \in FreeBlocks} \cup
           {Extent(b.ptr - 4, block_size(b.size)) : b \in live \cup leaked}

(* However blocks are split, given back and joined, the blocks of the list *)
(* and those the application has had from malloc make up the heap: no byte *)
(* is in two of them and none is lost.                                     *)
HeapPartitioned ==
  /\ UNION Extents = Bytes
  /\ \A e, f \in Extents : e # f => e \cap f = {}

(* The allocator, which keeps its list in the same memory, never writes to *)
(* a block in use.                                                         *)
DataIntact == \A b \in live : \A a \in DataWords(b) : mem[a] = Mark(b.ptr)

Ideal == INSTANCE Heap WITH
  Base <- ALIGN_UP(HeapStart, MIN_BLOCK_SIZE),
  End <- HeapEnd - (HeapEnd % MIN_BLOCK_SIZE),
  Unit <- MIN_BLOCK_SIZE, Header <- 4, Limit <- MAX_BLOCK_SIZE,
  blocks <- {[lo |-> b.ptr - 4, hi |-> b.ptr - 4 + block_size(b.size)] : b \in live \cup leaked}

(* "Dynamic memory allocation based on linked list of free blocks with     *)
(* first-fit search and coalescing with next and previous block"           *)
(* (alloc.h:7): malloc returns the lowest place that is large enough, and  *)
(* NULL only when there is none, even between blocks freed in any order.   *)
ImplementsHeap == Ideal!Spec
===============================================================================
