SPECIFICATION Spec
CONSTANTS
  Tries = 3
  FirstLarge = 2
  FirstSmall = 1
  Batch = 2
  Cell = 2
  Slack = 1
  CountMax = 3
  SectionBits = 4
  Pieces <- MCPieces
INVARIANTS
  TypeOK
  BitmapExact
  OutOfChanceIsExhaustive
  RepeatIsNotOutOfChance
PROPERTIES
  IsPerfectHash
