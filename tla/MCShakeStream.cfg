\* A rate of 4: absorbs of up to two blocks and a byte, a message of up to two
\* blocks and a half, squeezes of up to two blocks and a byte in one call.
CONSTANTS
  Rate = 4
  FinalBit = TRUE
  MaxChunk = 9
  MaxBytes = 10
  MaxTaken = 9
SPECIFICATION Spec
INVARIANTS
  TypeOK
  AbsorbResumable
  SqueezeResumable
  ChainIsExact
PROPERTY
  ImplementsPromise
