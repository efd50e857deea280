\* Blocks of 2 bytes, chunks of 2 blocks, and a counter of two 2-bit halves
\* that carries at the fourth chunk: messages of up to 16 chunks, all a
\* four-level stack can hold, absorbed up to two chunks and a byte at a time.
CONSTANTS
  BlockLen = 2
  BlocksPerChunk = 2
  WordBits = 2
  MaxStack = 4
  MaxChunk = 9
  MaxBytes = 64
  MaxOut = 3
SPECIFICATION Spec
INVARIANTS
  TypeOK
  PositionResumable
  StackIsBinary
  LevelsAreTheTree
PROPERTY
  ImplementsPromise
