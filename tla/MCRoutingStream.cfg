SPECIFICATION Spec
CONSTANTS
  Backends <- MCBackends
  Arms <- MCArms
  Available <- MCAvailable
  Params <- MCParams
  Readable <- MCReadable
  Chainings = {"IMPLICIT_CAPACITY", "DIGEST_IN_CAPACITY"}
  MaxBuilt = 1
INVARIANTS
  StreamRoutesLikeOneShot
