SPECIFICATION Spec
CONSTANTS
  k1 = k1
  k2 = k2
  Bits = 8
  Word = 256
  Keys <- MCKeys
  HashOf <- MCHashOf
  Capacities <- MCCapacities
  CutSizes <- MCCutSizes
INVARIANTS
  TypeOK
  NeverForgets
  DivisionExact
