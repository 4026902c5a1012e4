SPECIFICATION Spec
CONSTANTS
  MaxChunk = 2
  MinChunk = 1
  PipelineBytes = 6
  IntMax = 7
  KeyLength = 1
  ValueLength = 1
  Word = 2
  Unsigned = 1
  Inputs <- MCInputs
INVARIANTS
  TypeOK
  AnswersInPlace
  BothFinished
  ChunkFits
