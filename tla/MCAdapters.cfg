\* Blocks of 4 bytes under digests of 1, 2 and 5; octets of 3 values, so HKDF
\* stops after 2 blocks and the two-octet counters after 9.
CONSTANTS
  Hashes = {"Sha256", "Sha224", "Shake256", "Ascon"}
  DigestSize <- MCDigestSize
  BlockSizes <- MCBlockSizes
  Profiles = {"Sha256"}
  Block = 4
  Reserve = 1
  Byte = 3
  Octets = 2
  Requests <- MCRequests
SPECIFICATION Spec
INVARIANTS
  TypeOK
  NeverRepeats
PROPERTIES
  ImplementsStandard
CHECK_DEADLOCK FALSE
