SPECIFICATION Spec
CONSTANTS
  HeaderSize = 2
  CountSize = 1
  Align = 4
  Word32 = 8
  Cell = 2
  SectionBits = 4
  SectionBytes = 2
  Radix = 4
  ValueDigits = 2
  OffsetSize = 1
  MaxOffset = 20
  MaxKeyLen = 2
  MaxInlineLen = 3
  Jobs <- MCJobs
INVARIANTS
  SectionsAligned
