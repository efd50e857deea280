\* Width 3 and rate 2, the shape ark-sponge 0.3 hardcodes: up to five elements
\* absorbed in up to two runs and six squeezed, in calls of every size.
CONSTANTS
  Width = 3
  Rate = 2
  Conventions <- MCConventions
  MaxAbsorbed = 5
  MaxSqueezed = 6
  MaxAbsorbs = 2
SPECIFICATION Spec
INVARIANTS
  TypeOK
  CallsCompose
  NoLaneTwice
  MixedBeforeRead
  CapacityUntouched
  NeverOntoPublished
