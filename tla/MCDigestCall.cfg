\* Blocks of 4 reserving 2 for a 1-byte field: messages of up to two blocks
\* and a byte, buffers of up to a block and two bytes, two calls that may
\* share a trace.  Words of 64, so that a bit count of 8 bytes or more needs
\* both halves of the field.
CONSTANTS
  Block = 4
  Reserve = 2
  Field = 1
  Word = 64
  MaxLength = 9
  MaxWidth = 6
  MaxCalls = 2
SPECIFICATION Spec
INVARIANTS
  TypeOK
  HashesLivePrefix
  HashesApart
  WidthPolicy
CHECK_DEADLOCK FALSE
