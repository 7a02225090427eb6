\* A heap of 48 bytes, neither end of which is a block boundary; 252 is more than a block may have.
SPECIFICATION Spec
INVARIANTS TypeOK HeapPartitioned DataIntact
PROPERTY ImplementsHeap
CONSTANTS
  HeapStart = 4
  HeapEnd = 52
  WordBits = 16
  Sizes = {4, 5, 16, 252}
