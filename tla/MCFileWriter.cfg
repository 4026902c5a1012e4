SPECIFICATION WriterSpec
CONSTANTS
  BufSize = 3
  MaxGiven = 12
INVARIANTS
  WriterTypeOK
  FileIsPrefix
PROPERTIES
  IsOutput
