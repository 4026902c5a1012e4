SPECIFICATION Spec
CONSTANTS
  Few = 1
  HeadUnit = 1
  MaxPiece = 4
  Inputs <- MCInputs
INVARIANTS
  TypeOK
  OneOwner
  Partitioned
  StatusExact
