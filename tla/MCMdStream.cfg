\* Blocks of 5 bytes reserving 3 for a 2-byte field (SHA-512's reserve is
\* wider than its field too); words of 32, so the int32 wraps at 16 and the
\* uint32 at 32, both inside the longest stream.
CONSTANTS
  r1 = r1
  r2 = r2
  Block = 5
  Reserve = 3
  Field = 2
  Trailer = "BIT_LENGTH"
  Word = 32
  Rows = {r1, r2}
  MaxChunk = 12
  MaxBytes = 38
SPECIFICATION Spec
INVARIANTS
  TypeOK
  Resumable
  CandidatesSuffice
  FinalizeIsOneShot
PROPERTY
  ImplementsPromise
