SPECIFICATION LookupSpec
CONSTANTS
  inBase = inBase
  inPatch = inPatch
  inBoth = inBoth
  nearby = nearby
  beyond = beyond
  NoKey = NoKey
  Keys <- MCKeys
  Batches <- MCBatches
  Calls <- MCCalls
INVARIANTS
  LookupTypeOK
  AnswersRight
PROPERTIES
  IsInOrder
