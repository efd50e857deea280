\* Bytes of one bit, so halves of four and words of eight: every word, every
\* addend, every count up to twice the width, every string of eight bytes.
CONSTANTS
  ByteBits = 1
  Pow <- MCPow
SPECIFICATION WSpec
PROPERTY
  PairsAreWords
