SPECIFICATION Spec
CONSTANTS
  Workers = {w1, w2}
  BlockStride = 4
  Word = 64
  Scans <- SmallScans
INVARIANTS
  TypeOK
  OnlyEligible
  BlocksDisjoint
  CompleteAtReturn
PROPERTIES
  EndsUnlessStrideZero
  NeverTwice
  ImplementsAbstractScan
