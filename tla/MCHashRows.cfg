\* Bytes of 4 bits, so that a length of 16 bits or more takes two digits;
\* rates of 5 and 6 bytes for the sponges, 3 for Ascon and its length block,
\* BLAKE2 words of 1 and 2 bytes, BLAKE3 blocks of 4.  Two calls, of which the second may be
\* served by the first one's trace.
CONSTANTS
  Bits = 4
  Base = 16
  Sha3Suffix = 6
  ShakeSuffix = 7
  CShakeSuffix = 4
  KeccakSuffix = 1
  KmacName <- MCKmacName
  TupleHashName <- MCTupleHashName
  AsconRate = 3
  MaxCustomization = 4
  Blake3Iv <- MCBlake3Iv
  RowsBuilt <- MCRows
  Strings <- MCStrings
  MaxCalls = 2
SPECIFICATION HRSpec
INVARIANTS
  HRTypeOK
  UniqueReading
  DoorsAgree
CHECK_DEADLOCK FALSE
