SPECIFICATION Spec
CONSTANTS
  BlockSize = 4
  Steps = 2
  MaxBlocks = 2
  WordBits = 2
  SectionWords = 3
  Inputs <- MCInputs
INVARIANTS
  TypeOK
  AnswersExact
