SPECIFICATION FairSpec
CONSTANTS
  Window = 2
  ByteBits = 2
  Passes = 2
  MaxReaders = 3
  Inputs <- MCInputs
INVARIANTS
  TypeOK
  RefusedExactly
  ValidExact
  DeliversTheSame
PROPERTIES
  Termination
